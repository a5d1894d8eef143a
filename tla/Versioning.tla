----------------------------- MODULE Versioning -----------------------------
(***************************************************************************)
(* The editorial workflow of the service: the mutating requests            *)
(* (server/game_systems.go) and the sequences of MongoDB operations they   *)
(* run (models/versioning.go) against the shared collections.              *)
(*                                                                         *)
(* Two replicas of the service handle requests concurrently and nothing    *)
(* spans two database operations: no transaction, no lock, no conditional  *)
(* update. A request is therefore a process with a program counter, and    *)
(* each action is ONE database operation together with the local           *)
(* computation up to the next one. Reads of data that never changes once   *)
(* inserted are merged into the step that uses them.                       *)
(***************************************************************************)
EXTENDS CatalogStore

CONSTANTS Editors,         \* users with role admin or editor
          Submitters,      \* users with role submitter
          Reviewers,       \* users with role admin, moderator or approver
          Ops,             \* the kinds of request a behaviour may contain
          Ids,             \* what requests put in the URL to name the system
          VersionNumbers,  \* the version numbers they put in the URL
          Patches,         \* the recognised fields of PATCH bodies
          Selections,      \* the `fields` of accept bodies, None when omitted
          Bodies,          \* POST bodies
          MaxInFlight,     \* bound: requests handled at the same time
          MaxAborts        \* bound: requests that end early in a behaviour

Writers == Editors \cup Submitters

(* A POST body sets the content and, since Create overwrites only some of   *)
(* the lifecycle fields the body's type embeds, a review trail.             *)
Body == [content : Content, reviewedBy : Users \cup {None}, resulting : Nat]

Patch == UNION {[fs -> Values] : fs \in SUBSET Fields}

ASSUME WorkflowAssumption ==
    /\ Editors \subseteq Users /\ Submitters \subseteq Users
    /\ Reviewers \subseteq Users
    /\ Ids \subseteq SystemIds
    /\ VersionNumbers \subseteq Nat \ {0}
    /\ Patches \subseteq Patch
    /\ Selections \subseteq (SUBSET Fields) \cup {None}
    /\ Bodies \subseteq Body
    /\ MaxInFlight \in Nat /\ MaxAborts \in Nat

VARIABLES pc,      \* request -> the database operation it runs next
          job,     \* request -> what was asked, NoJob when not in flight
          reg,     \* request -> the handler's local variables
          aborts   \* requests aborted so far

control == <<pc, job, reg, aborts>>
vars == <<store, control>>

-----------------------------------------------------------------------------
(* Requests, program counters and local variables.                          *)

CreateJob  == [op : {"create"}, user : Writers, slug : Slugs, body : Bodies]
PatchJob   == [op : {"patch"}, user : Writers, id : Ids, patch : Patches]
AcceptJob  == [op : {"accept"}, user : Reviewers, id : Ids,
               number : VersionNumbers, fields : Selections]
RejectJob  == [op : {"reject"}, user : Reviewers, id : Ids,
               number : VersionNumbers]
RetractJob == [op : {"retract"}, user : Writers, id : Ids,
               number : VersionNumbers]
CurrentJob == [op : {"setCurrent"}, user : Reviewers, id : Ids,
               number : VersionNumbers]
NoJob      == [op |-> "none"]

Answers      == {"done", "refused", "aborted"}
CreateSteps  == {"insertMeta", "insertFirst"}
PatchSteps   == {"resolve", "read", "base", "numberPatch", "insertPatch",
                 "archive", "pointPatch"}
AcceptSteps  == {"loadAccept", "decide", "unseat", "promote", "pointAccept",
                 "numberDerived", "insertDerived", "archiveDerived",
                 "pointDerived", "close"}
RejectSteps  == {"loadReject", "reject"}
RetractSteps == {"loadRetract", "retract"}
CurrentSteps == {"resolveTarget", "readTarget", "rollback", "restore",
                 "pointTarget"}
Steps == CreateSteps \cup PatchSteps \cup AcceptSteps \cup RejectSteps
           \cup RetractSteps \cup CurrentSteps

(* record: the normalised _id; current: meta.CurrentVersion as read; next:  *)
(* the number that is to become current; the rest: the version to insert.   *)
Locals == [record : ObjectIds, current : Nat, next : Nat, content : Content,
           author : Users, reviewedBy : Users \cup {None}, resulting : Nat]
NoReg  == [record |-> Seed, current |-> NoVersion, next |-> NoVersion,
           content |-> Blank, author |-> SeedUser, reviewedBy |-> None,
           resulting |-> NoVersion]

(* A request that has found the record r and its current version, and has   *)
(* the number n in hand.                                                    *)
Located(r, n) == [record |-> r, current |-> meta[r].current, next |-> n,
                  content |-> Blank, author |-> SeedUser, reviewedBy |-> None,
                  resulting |-> NoVersion]

InFlight == {q \in Requests : pc[q] \in Steps}

Init ==
    /\ StoreInit
    /\ pc = [q \in Requests |-> "idle"]
    /\ job = [q \in Requests |-> NoJob]
    /\ reg = [q \in Requests |-> NoReg]
    /\ aborts = 0

Goto(q, step) ==
    pc' = [pc EXCEPT ![q] = step] /\ UNCHANGED <<job, reg, aborts>>

Remember(q, step, locals) ==
    /\ pc' = [pc EXCEPT ![q] = step]
    /\ reg' = [reg EXCEPT ![q] = locals]
    /\ UNCHANGED <<job, aborts>>

Answer(q, answer) ==
    /\ pc' = [pc EXCEPT ![q] = answer]
    /\ job' = [job EXCEPT ![q] = NoJob]
    /\ reg' = [reg EXCEPT ![q] = NoReg]
    /\ UNCHANGED aborts

Refuse(q) == Answer(q, "refused") /\ UNCHANGED store

Start(q, jobs, step) ==
    /\ pc[q] = "idle"
    /\ Cardinality(InFlight) < MaxInFlight
    /\ \E j \in jobs : j.op \in Ops /\ job' = [job EXCEPT ![q] = j]
    /\ pc' = [pc EXCEPT ![q] = step]
    /\ UNCHANGED <<store, reg, aborts>>

-----------------------------------------------------------------------------
(* POST /systems: Create.                                                   *)

StartCreate(q) == Start(q, CreateJob, "insertMeta")

CreateInsertMeta(q) ==
    /\ pc[q] = "insertMeta"
    /\ IF SlugInUse(job[q].slug)
       THEN Refuse(q)
       ELSE /\ InsertMeta(q, [slug |-> job[q].slug, current |-> 1,
                              updatedBy |-> job[q].user])
            /\ Goto(q, "insertFirst")

(* Variant: the new version is not tied to the new record.                  *)
CreateInsertUntied(q) ==
    /\ pc[q] = "insertFirst"
    /\ InsertVersion(q, [record |-> Seed, version |-> 1,
                         content |-> job[q].body.content, state |-> "live",
                         base |-> NoVersion, submittedBy |-> job[q].user,
                         reviewedBy |-> job[q].body.reviewedBy,
                         resulting |-> job[q].body.resulting])
    /\ Answer(q, "done")

(* A duplicate key is answered as a slug in use, whichever insert met it.   *)
CreateInsertVersion(q) ==
    /\ pc[q] = "insertFirst"
    /\ IF VersionTaken(q, 1)
       THEN Refuse(q)
       ELSE /\ InsertVersion(q, [record |-> q, version |-> 1,
                         content |-> job[q].body.content, state |-> "live",
                         base |-> NoVersion, submittedBy |-> job[q].user,
                         reviewedBy |-> job[q].body.reviewedBy,
                         resulting |-> job[q].body.resulting])
            /\ Answer(q, "done")

-----------------------------------------------------------------------------
(* PATCH /systems/:id: patchGameSystem, then CreateVersion.                 *)

StartPatch(q) == Start(q, PatchJob, "resolve")

(* Get, first query: which record, and its current version number.          *)
PatchResolve(q) ==
    /\ pc[q] = "resolve"
    /\ UNCHANGED store
    /\ IF ResolveMeta(job[q].id) = {}
       THEN Answer(q, "refused")
       ELSE \E r \in ResolveMeta(job[q].id) :
              Remember(q, "read", Located(r, NoVersion))

(* Variant: the body is laid over the latest version, pending or not.       *)
PatchReadLatest(q) ==
    LET found == {d \in VersionsOf(reg[q].record) :
                    \A e \in VersionsOf(reg[q].record) :
                      versions[e].version <= versions[d].version}
    IN  /\ pc[q] = "read"
        /\ UNCHANGED store
        /\ IF found = {} \/ DOMAIN job[q].patch = {}
           THEN Answer(q, "refused")
           ELSE \E d \in found :
                  Remember(q, "base", [reg[q] EXCEPT
                    !.content    = Overlay(versions[d].content, job[q].patch),
                    !.reviewedBy = versions[d].reviewedBy,
                    !.resulting  = versions[d].resulting])

(* Get, second query, then the overlay of the body on the snapshot. The     *)
(* copy keeps the snapshot's review trail.                                  *)
PatchRead(q) ==
    LET found == GetVersion(reg[q].record, reg[q].current)
    IN  /\ pc[q] = "read"
        /\ UNCHANGED store
        /\ IF found = {} \/ DOMAIN job[q].patch = {}
           THEN Answer(q, "refused")
           ELSE \E d \in found :
                  Remember(q, "base", [reg[q] EXCEPT
                    !.content    = Overlay(versions[d].content, job[q].patch),
                    !.reviewedBy = versions[d].reviewedBy,
                    !.resulting  = versions[d].resulting])

(* CreateVersion reads the meta record again: the base of the new version   *)
(* is what is current NOW, not what the content was copied from.            *)
PatchBase(q) ==
    /\ pc[q] = "base"
    /\ UNCHANGED store
    /\ IF GetMeta(job[q].id) = {}
       THEN Answer(q, "refused")
       ELSE \E r \in GetMeta(job[q].id) :
              Remember(q, "numberPatch", [reg[q] EXCEPT !.record = r,
                                            !.current = meta[r].current])

PatchNumber(q) ==
    /\ pc[q] = "numberPatch"
    /\ UNCHANGED store
    /\ \E n \in nextVersionNumber(reg[q].record) :
         Remember(q, "insertPatch", [reg[q] EXCEPT !.next = n])

PatchState(user) == IF user \in Editors THEN "live" ELSE "submitted"

(* Variants: the submitter taken from the copied trail; the base taken to   *)
(* be the preceding number.                                                 *)
NewVersionUnsigned(q) ==
    [record |-> reg[q].record, version |-> reg[q].next,
     content |-> reg[q].content, state |-> PatchState(job[q].user),
     base |-> reg[q].current, submittedBy |-> reg[q].reviewedBy,
     reviewedBy |-> reg[q].reviewedBy, resulting |-> reg[q].resulting]

NewVersionOnPreceding(q) ==
    [record |-> reg[q].record, version |-> reg[q].next,
     content |-> reg[q].content, state |-> PatchState(job[q].user),
     base |-> reg[q].next - 1, submittedBy |-> job[q].user,
     reviewedBy |-> reg[q].reviewedBy, resulting |-> reg[q].resulting]

NewVersion(q) ==
    [record |-> reg[q].record, version |-> reg[q].next,
     content |-> reg[q].content, state |-> PatchState(job[q].user),
     base |-> reg[q].current, submittedBy |-> job[q].user,
     reviewedBy |-> reg[q].reviewedBy, resulting |-> reg[q].resulting]

(* Variant: a late check refuses a PATCH whose base is no longer current    *)
(* after its version has been stored.                                       *)
PatchInsertThenCheck(q) ==
    /\ pc[q] = "insertPatch"
    /\ InsertVersion(q, NewVersion(q))
    /\ IF meta[reg[q].record].current # reg[q].current THEN Answer(q, "refused")
       ELSE IF PatchState(job[q].user) = "live" THEN Goto(q, "archive")
       ELSE Answer(q, "done")

PatchInsert(q) ==
    /\ pc[q] = "insertPatch"
    /\ IF VersionTaken(reg[q].record, reg[q].next)
       THEN Refuse(q)
       ELSE /\ InsertVersion(q, NewVersion(q))
            /\ IF PatchState(job[q].user) = "live" THEN Goto(q, "archive")
               ELSE Answer(q, "done")

-----------------------------------------------------------------------------
(* POST .../accept: AcceptVersion.                                          *)

StartAccept(q) == Start(q, AcceptJob, "loadAccept")

(* AcceptVersion, RejectVersion and RetractVersion look the version up by   *)
(* the id as it stood in the URL, which only a meta `_id` can match.        *)
Addressed(j) == {d \in DOMAIN versions : /\ j.id = MetaId(versions[d].record)
                                         /\ versions[d].version = j.number}

Pending(j) == {d \in Addressed(j) : versions[d].state = "submitted"}

AcceptLoad(q) ==
    /\ pc[q] = "loadAccept"
    /\ UNCHANGED store
    /\ IF \E d \in Pending(job[q]) : versions[d].base # NoVersion
       THEN Goto(q, "decide")
       ELSE Answer(q, "refused")

Merged(fields, submitted, current, base) ==
    Derived(Target(submitted, base, fields), submitted, current, base)

(* The meta record, the version current now and the submission's base: the  *)
(* submission goes live as it is when all of it is accepted and nothing was *)
(* published since; otherwise a version is derived from the current one.    *)
(* The submission is the one loaded; all else is of the record found now.   *)
AcceptDecide(q) ==
    /\ pc[q] = "decide"
    /\ UNCHANGED store
    /\ IF GetMeta(job[q].id) = {}
       THEN Answer(q, "refused")
       ELSE \E r \in GetMeta(job[q].id) :
              \E s \in Addressed(job[q]) :
                LET current == GetVersion(r, meta[r].current)
                    base    == GetVersion(r, versions[s].base)
                    whole   == /\ job[q].fields = None
                               /\ versions[s].base = meta[r].current
                IN  IF current = {} \/ (~whole /\ base = {})
                    THEN Answer(q, "refused")
                    ELSE IF whole
                    THEN Remember(q, "unseat", Located(r, job[q].number))
                    ELSE \E c \in current, b \in base :
                           Remember(q, "numberDerived",
                             [Located(r, NoVersion) EXCEPT
                                !.content = Merged(job[q].fields,
                                  versions[s].content, versions[c].content,
                                  versions[b].content),
                                !.author = versions[s].submittedBy,
                                !.reviewedBy = job[q].user])

AcceptPromote(q) ==
    /\ pc[q] = "promote"
    /\ setVersionState(reg[q].record, job[q].number,
         LAMBDA v : [v EXCEPT !.state = "live", !.reviewedBy = job[q].user])
    /\ Goto(q, "pointAccept")

AcceptNumber(q) ==
    /\ pc[q] = "numberDerived"
    /\ UNCHANGED store
    /\ \E n \in nextVersionNumber(reg[q].record) :
         Remember(q, "insertDerived", [reg[q] EXCEPT !.next = n])

DerivedVersion(q) ==
    [record |-> reg[q].record, version |-> reg[q].next,
     content |-> reg[q].content, state |-> "live", base |-> reg[q].current,
     submittedBy |-> reg[q].author, reviewedBy |-> reg[q].reviewedBy,
     resulting |-> NoVersion]

AcceptInsert(q) ==
    /\ pc[q] = "insertDerived"
    /\ IF VersionTaken(reg[q].record, reg[q].next)
       THEN Refuse(q)
       ELSE InsertVersion(q, DerivedVersion(q)) /\ Goto(q, "archiveDerived")

AcceptClose(q) ==
    /\ pc[q] = "close"
    /\ setVersionState(reg[q].record, job[q].number,
         LAMBDA v : [v EXCEPT !.state = "partially_accepted",
                              !.reviewedBy = job[q].user,
                              !.resulting = reg[q].next])
    /\ Answer(q, "done")

-----------------------------------------------------------------------------
(* POST .../reject and .../retract: RejectVersion, RetractVersion. The      *)
(* second operation does not look at the state again.                       *)

StartReject(q)  == Start(q, RejectJob, "loadReject")
StartRetract(q) == Start(q, RetractJob, "loadRetract")

RejectLoad(q) ==
    /\ pc[q] = "loadReject"
    /\ UNCHANGED store
    /\ IF Pending(job[q]) = {}
       THEN Answer(q, "refused")
       ELSE Remember(q, "reject", [NoReg EXCEPT !.record = job[q].id.of])

RejectMark(q) ==
    /\ pc[q] = "reject"
    /\ setVersionState(reg[q].record, job[q].number,
         LAMBDA v : [v EXCEPT !.state = "rejected", !.reviewedBy = job[q].user])
    /\ Answer(q, "done")

(* Variant: any writer may withdraw a submission.                           *)
RetractLoadUnchecked(q) ==
    /\ pc[q] = "loadRetract"
    /\ UNCHANGED store
    /\ IF Pending(job[q]) # {}
       THEN Remember(q, "retract", [NoReg EXCEPT !.record = job[q].id.of])
       ELSE Answer(q, "refused")

RetractLoad(q) ==
    /\ pc[q] = "loadRetract"
    /\ UNCHANGED store
    /\ IF \E d \in Pending(job[q]) : versions[d].submittedBy = job[q].user
       THEN Remember(q, "retract", [NoReg EXCEPT !.record = job[q].id.of])
       ELSE Answer(q, "refused")

RetractMark(q) ==
    /\ pc[q] = "retract"
    /\ setVersionState(reg[q].record, job[q].number,
         LAMBDA v : [v EXCEPT !.state = "withdrawn"])
    /\ Answer(q, "done")

-----------------------------------------------------------------------------
(* POST .../current: SetCurrentVersion.                                     *)

StartSetCurrent(q) == Start(q, CurrentJob, "resolveTarget")

SetCurrentResolve(q) ==
    /\ pc[q] = "resolveTarget"
    /\ UNCHANGED store
    /\ IF GetMeta(job[q].id) = {}
       THEN Answer(q, "refused")
       ELSE \E r \in GetMeta(job[q].id) :
              Remember(q, "readTarget", Located(r, job[q].number))

SetCurrentRead(q) ==
    /\ pc[q] = "readTarget"
    /\ UNCHANGED store
    /\ IF GetVersion(reg[q].record, job[q].number) = {}
       THEN Answer(q, "refused")
       ELSE IF job[q].number = reg[q].current THEN Answer(q, "done")
       ELSE Goto(q, "rollback")

SetCurrentRestore(q) ==
    /\ pc[q] = "restore"
    /\ setVersionState(reg[q].record, job[q].number,
         LAMBDA v : [v EXCEPT !.state = "live"])
    /\ Goto(q, "pointTarget")

-----------------------------------------------------------------------------
(* Operations several handlers share, and the way a request ends early.     *)

(* Variants: an accepted submission is pointed to without being made live;  *)
(* so is the target of a rollback; archiving is retried for ever.           *)
AfterArchiveNoPromote == [archive |-> "pointPatch", unseat |-> "pointAccept",
                          archiveDerived |-> "pointDerived",
                          rollback |-> "restore"]
AfterArchiveNoRestore == [archive |-> "pointPatch", unseat |-> "promote",
                          archiveDerived |-> "pointDerived",
                          rollback |-> "pointTarget"]
AfterArchiveRetry == [archive |-> "archive", unseat |-> "promote",
                      archiveDerived |-> "pointDerived", rollback |-> "restore"]

(* The archiveVersion call of CreateVersion, AcceptVersion (both paths) and *)
(* SetCurrentVersion, and the step that follows it in each.                 *)
AfterArchive == [archive |-> "pointPatch", unseat |-> "promote",
                 archiveDerived |-> "pointDerived", rollback |-> "restore"]

(* Variant: the wrong number is archived.                                   *)
ArchiveNext(q) ==
    /\ pc[q] \in DOMAIN AfterArchive
    /\ archiveVersion(reg[q].record, reg[q].next)
    /\ Goto(q, AfterArchive[pc[q]])

ArchiveCurrent(q) ==
    /\ pc[q] \in DOMAIN AfterArchive
    /\ archiveVersion(reg[q].record, reg[q].current)
    /\ Goto(q, AfterArchive[pc[q]])

(* Their setMetaCurrentVersion calls. Only the derived path goes on.        *)
PointMeta(q) ==
    /\ pc[q] \in {"pointPatch", "pointAccept", "pointDerived", "pointTarget"}
    /\ setMetaCurrentVersion(reg[q].record, reg[q].next, job[q].user)
    /\ IF pc[q] = "pointDerived" THEN Goto(q, "close") ELSE Answer(q, "done")

(* A database error, the client going away (its context cancels the         *)
(* updates) or the replica dying: the steps not yet run never run. Every    *)
(* `if err != nil` return of models/versioning.go has this effect, whether  *)
(* or not the operation that reported the error had taken effect.           *)
Abort(q) ==
    /\ pc[q] \in Steps
    /\ aborts < MaxAborts
    /\ aborts' = aborts + 1
    /\ pc' = [pc EXCEPT ![q] = "aborted"]
    /\ job' = [job EXCEPT ![q] = NoJob]
    /\ reg' = [reg EXCEPT ![q] = NoReg]
    /\ UNCHANGED store

-----------------------------------------------------------------------------
Arrive(q) == \/ StartCreate(q) \/ StartPatch(q) \/ StartAccept(q)
             \/ StartReject(q) \/ StartRetract(q) \/ StartSetCurrent(q)

Serve(q) ==
    \/ CreateInsertMeta(q) \/ CreateInsertVersion(q)
    \/ PatchResolve(q) \/ PatchRead(q) \/ PatchBase(q)
    \/ PatchNumber(q) \/ PatchInsert(q)
    \/ AcceptLoad(q) \/ AcceptDecide(q) \/ AcceptPromote(q)
    \/ AcceptNumber(q) \/ AcceptInsert(q) \/ AcceptClose(q)
    \/ RejectLoad(q) \/ RejectMark(q) \/ RetractLoad(q) \/ RetractMark(q)
    \/ SetCurrentResolve(q) \/ SetCurrentRead(q) \/ SetCurrentRestore(q)
    \/ ArchiveCurrent(q) \/ PointMeta(q)

(* Every request of the behaviour has been answered.                        *)
Finished == InFlight = {} /\ (\A q \in Requests : pc[q] # "idle")

Next == \/ \E q \in Requests : Arrive(q) \/ Serve(q) \/ Abort(q)
        \/ Finished /\ UNCHANGED vars

Spec == Init /\ [][Next]_vars
=============================================================================
