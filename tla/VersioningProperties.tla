------------------------ MODULE VersioningProperties ------------------------
(***************************************************************************)
(* What the workflow of Versioning guarantees under every interleaving and *)
(* failure, what only holds of requests handled one at a time, and what    *)
(* the repository claims and concurrent requests break.                    *)
(***************************************************************************)
EXTENDS Versioning

-----------------------------------------------------------------------------
(* Types.                                                                   *)

JobFor(q) ==
    CASE pc[q] \in CreateSteps  -> job[q] \in CreateJob
      [] pc[q] \in PatchSteps   -> job[q] \in PatchJob
      [] pc[q] \in AcceptSteps  -> job[q] \in AcceptJob
      [] pc[q] \in RejectSteps  -> job[q] \in RejectJob
      [] pc[q] \in RetractSteps -> job[q] \in RetractJob
      [] pc[q] \in CurrentSteps -> job[q] \in CurrentJob
      [] OTHER                  -> job[q] = NoJob

ControlTypeOK ==
    /\ pc \in [Requests -> Steps \cup Answers \cup {"idle"}]
    /\ DOMAIN job = Requests
    /\ \A q \in Requests : JobFor(q)
    /\ reg \in [Requests -> Locals]
    /\ aborts \in 0 .. MaxAborts

(* Every document in the two collections is well formed, and a request at a *)
(* step of a handler carries that handler's input.                          *)
TypeOK == StoreTypeOK /\ ControlTypeOK

-----------------------------------------------------------------------------
(* Guaranteed whatever the interleaving and wherever requests end early.    *)

IsPublished(r, n) == \E d \in GetVersion(r, n) : versions[d].state # "submitted"

(* The version a meta record points to exists and is not awaiting review:   *)
(* GET /systems/:id never serves an unreviewed submission. The exception is *)
(* a record whose only version Create has not inserted (and, if the request *)
(* ended there, never will): GET answers 404.                               *)
CurrentPublished ==
    \A r \in DOMAIN meta :
        VersionsOf(r) # {} => IsPublished(r, meta[r].current)

Same(d, e, f) == versions[d].content[f] = versions[e].content[f]

(* A partially accepted submission names the version made from it: a later  *)
(* one by the same submitter that differs from the version it was derived   *)
(* from only in fields the submission changed and nobody else had changed,  *)
(* with the submitted values (AcceptVersion's derived copy and conflicts).  *)
PartialFaithful ==
    \A s \in DOMAIN versions : versions[s].state = "partially_accepted" =>
        \E d \in GetVersion(versions[s].record, versions[s].resulting) :
            /\ versions[d].version > versions[s].version
            /\ versions[d].submittedBy = versions[s].submittedBy
            /\ \A c \in GetVersion(versions[d].record, versions[d].base),
                  b \in GetVersion(versions[s].record, versions[s].base) :
                 \A f \in Fields : ~Same(d, c, f) => Same(d, s, f) /\ Same(c, b, f)

Names(q, d) == /\ job[q].id \in {MetaId(versions[d].record),
                                 SlugId(meta[versions[d].record].slug)}
               /\ job[q].number = versions[d].version

(* A version's state changes only by a request that names it, to            *)
(* "withdrawn" by its own submitter's, to anything else by a reviewer's;    *)
(* the exception is a decided version that is archived because another one  *)
(* is published, which decides no pending version as a side effect.         *)
DecidedByName ==
    [][\A d \in DOMAIN versions :
         /\ versions'[d].state # versions[d].state
         /\ versions[d].state = "submitted" \/ versions'[d].state # "archived"
         =>
           \E q \in InFlight :
             /\ job[q].op \in {"accept", "reject", "retract", "setCurrent"}
             /\ Names(q, d)
             /\ IF versions'[d].state = "withdrawn"
                THEN job[q].user = versions[d].submittedBy
                ELSE job[q].user \in Reviewers
      ]_vars

(* The abstract history of the store.                                       *)
Immutable(v) == [record |-> v.record, version |-> v.version,
                 content |-> v.content, base |-> v.base,
                 submittedBy |-> v.submittedBy]

History == INSTANCE SystemHistory WITH
    history <- [d \in DOMAIN versions |-> Immutable(versions[d])],
    pending <- {d \in DOMAIN versions : versions[d].state = "submitted"},
    current <- [r \in DOMAIN meta |-> meta[r].current]

(* The collections implement SystemHistory: versions are never lost,        *)
(* renumbered or rewritten, numbers have no gaps and no repeats, a decided  *)
(* version never becomes pending again, and the pointer moves only to       *)
(* decided versions of its own record.                                      *)
ImplementsHistory == History!Spec

(* A request that is refused (a 4xx answer that reports no failure) has     *)
(* stored no document of its own, whatever it raced with.                   *)
RefusedLeavesNothing ==
    \A q \in Requests :
        pc[q] = "refused" => q \notin DOMAIN meta \cup DOMAIN versions

(* A system without versions, its slug taken and GET answering 404, is only *)
(* ever the leftover of a creation that ended between its two inserts, or   *)
(* one under way.                                                           *)
VersionlessOnlyByCreate ==
    \A r \in DOMAIN meta :
        VersionsOf(r) = {} => r \in Requests /\ pc[r] \in {"insertFirst", "aborted"}

(* Whatever is published while a PATCH is under way, the version it stores  *)
(* is its body over one published version of the same system: every field   *)
(* the body leaves out comes from that version, never from a submission     *)
(* still under review, never from two versions, never from another system.  *)
(* (That it is the version it names as its base holds only of requests      *)
(* handled one at a time: CreateVersion reads the pointer again.)           *)
PatchCopiesPublished ==
    [][\A q \in Requests \cap (DOMAIN versions' \ DOMAIN versions) :
         job[q].op = "patch" =>
           \E d \in VersionsOf(versions'[q].record) :
             /\ versions[d].state # "submitted"
             /\ versions'[q].content = Overlay(versions[d].content, job[q].patch)
      ]_vars

(* An id in a URL names one system, or two when it is a system's `_id`, or  *)
(* one of its versions', and a slug is spelled like the system's `_id`: the *)
(* limit of 1 on GetMeta's query then hides one of them. However creations  *)
(* race, it names no second system otherwise, and never a third.            *)
NamesOf(r) == {MetaId(r)} \cup {DocId(d) : d \in VersionsOf(r)}

SpelledLike(r) == \E slug \in DOMAIN SpelledAs : SpelledAs[slug] = MetaId(r)

IdsNameOneOrTwo ==
    \A id \in Ids :
        Cardinality(ResolveMeta(id))
          <= IF \E r \in ObjectIds : id \in NamesOf(r) /\ SpelledLike(r) THEN 2 ELSE 1

-----------------------------------------------------------------------------
(* Concurrent publishing by PATCH alone, without failures.                  *)

(* The current version is live, except while a PATCH that has archived it   *)
(* is about to move the pointer: no interleaving of PATCHes leaves a system *)
(* whose current version is archived, and so missing from the listing.      *)
CurrentLiveOrBeingReplaced ==
    aborts = 0 =>
    \A r \in DOMAIN meta : \A d \in GetVersion(r, meta[r].current) :
        \/ versions[d].state = "live"
        \/ \E q \in InFlight : /\ pc[q] = "pointPatch"
                               /\ reg[q].record = r
                               /\ reg[q].current = meta[r].current

-----------------------------------------------------------------------------
(* One request at a time.                                                   *)

(* Without failures, between requests the listing shows each system once,   *)
(* in its current version.                                                  *)
AtRestOneLive ==
    aborts = 0 /\ InFlight = {} =>
        \A r \in DOMAIN meta :
            {d \in List : versions[d].record = r} = GetVersion(r, meta[r].current)

(* The version a publish, an accept or a rollback moves the pointer to is   *)
(* live by then, whatever state a failed request left it in: a system whose *)
(* current version was left archived is in the listing again (requests and  *)
(* failures one at a time). It does not say that the failure's other traces *)
(* go away: a version left live stays so until something archives it.       *)
PublishRepairs ==
    [][\A q \in Requests : PointMeta(q) =>
         \A d \in GetVersion(reg[q].record, reg[q].next) :
           versions[d].state = "live"
      ]_vars

(* When an accept moves the pointer, an accepted field whose value in the   *)
(* version being replaced differs from the submission's base keeps that     *)
(* value (AcceptVersion: conflicts are not silently overwritten).           *)
ConflictsNotOverwritten ==
    [][\A q \in Requests :
         PointMeta(q) /\ pc[q] \in {"pointAccept", "pointDerived"} =>
           LET r == reg[q].record IN
           \A old \in GetVersion(r, meta[r].current),
              new \in GetVersion(r, meta'[r].current),
              s   \in GetVersion(r, job[q].number) :
             \A b \in GetVersion(r, versions[s].base) :
               \A f \in Target(versions[s].content, versions[b].content,
                               job[q].fields) :
                 ~Same(old, b, f) => Same(new, old, f)
      ]_vars

-----------------------------------------------------------------------------
(* Progress.                                                                *)

(* A request the service has accepted is answered.                          *)
EveryRequestAnswered ==
    \A q \in Requests : pc[q] \in Steps ~> pc[q] \in Answers

(* Without failures, a version PATCH published does become current, even if *)
(* another request replaces it at once.                                     *)
PublishedBecomesCurrent ==
    \A q \in Requests :
        pc[q] = "archive" ~>
          aborts > 0 \/ \E r \in DOMAIN meta : q \in GetVersion(r, meta[r].current)

-----------------------------------------------------------------------------
(* Claims of the repository that concurrent requests break.                 *)

(* models/versioning.go: "RejectVersion marks a submitted version rejected".*)
(* A version that was published since it was found pending is not one.      *)
RejectsNoLiveVersion ==
    [][\A q \in Requests : RejectMark(q) =>
         \A d \in GetVersion(reg[q].record, job[q].number) :
           versions[d].state # "live"
      ]_vars

(* models/versioning.go, AcceptVersion: "normalize a system_id slug to the  *)
(* canonical _id". Accepting a pending version by slug is not refused.      *)
AcceptResolvesSlug ==
    [][\A q \in Requests :
         /\ pc[q] = "loadAccept"
         /\ \E d \in DOMAIN versions : /\ versions[d].state = "submitted"
                                       /\ Names(q, d)
         => pc'[q] # "refused"
      ]_vars
=============================================================================
