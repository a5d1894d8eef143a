------------------------------ MODULE Backfills ------------------------------
(***************************************************************************)
(* The two one-off commands that rewrite audit fields while the service    *)
(* runs: cmd/backfill-audit-fields, which stamps meta records that have no *)
(* updated_at, and cmd/backfill-canonical-user-ids, which replaces the     *)
(* identity provider's subjects by canonical user ids. Both read first and *)
(* write later, one operation at a time, may stop in between, and are run  *)
(* again.                                                                  *)
(*                                                                         *)
(* Of the documents only the audit trail is kept, and of the service's     *)
(* requests the operations that write or copy a part of it. A created      *)
(* record, and the version a request inserts, bear the request's name.     *)
(***************************************************************************)
EXTENDS Naturals, FiniteSets, Sequences

CONSTANTS Records,       \* meta records that exist at the start
          Seeds,         \* version documents that exist at the start
          Requests,      \* requests of the service, naming what they insert
          Users,         \* canonical user ids
          Subjects,      \* identity provider subjects
          System,        \* the "system" actor
          Unset,         \* an absent field
          CanonicalOf,   \* the subjects users-api can resolve -> user id
          SeedMeta, SeedVersion,   \* what is stored at the start
          MaxFailures,   \* bound: failed operations and killed commands
          MaxDryRuns     \* bound: runs without -apply

Actors == Users \cup Subjects \cup {System}

Meta == [createdBy : Actors, createdAt : Nat, updatedBy : Actors \cup {Unset},
         updatedAt : Nat, current : Seeds \cup Requests]
Version == [record : Records \cup Requests, pending : BOOLEAN, submittedBy : Actors,
            reviewedBy : Actors \cup {Unset}]

ASSUME BackfillAssumption ==
    /\ Subjects \cap (Users \cup {System, Unset}) = {}
    /\ Unset \notin Users \cup {System}
    /\ (Records \cup Seeds) \cap Requests = {}
    /\ DOMAIN CanonicalOf \subseteq Subjects
    /\ CanonicalOf \in [DOMAIN CanonicalOf -> Users]
    /\ SeedMeta \in [Records -> Meta] /\ SeedVersion \in [Seeds -> Version]
    /\ \A r \in Records :
         SeedMeta[r].updatedAt = 0 <=> SeedMeta[r].updatedBy = Unset
    /\ MaxFailures \in Nat /\ MaxDryRuns \in Nat

VARIABLES meta, versions,  \* the audit fields in the two collections
          clock,           \* the time of the last write
          pc, job, copy,   \* request -> next step, what was asked, who it copied
          stamper,         \* backfill-audit-fields: its local variables
          rewriter,        \* backfill-canonical-user-ids: its local variables
          failures, dryRuns

service == <<pc, job, copy>>
bounds  == <<failures, dryRuns>>
vars == <<meta, versions, clock, service, stamper, rewriter, bounds>>

Never == 0   \* Go's zero time, an absent updated_at

-----------------------------------------------------------------------------
(* The service. Whoever acts now has a canonical id.                        *)

Goto(q, step) == pc' = [pc EXCEPT ![q] = step] /\ UNCHANGED job
Quietly == UNCHANGED <<stamper, rewriter, bounds>>

(* An editor's or a submitter's PATCH, an accept of a whole submission or   *)
(* of some of its fields, a rejection, a rollback, a creation.              *)
Inserts  == {"patch", "submit", "derive", "create"}
Promotes == {"promote", "rollback"}
Decides  == {"promote", "derive", "reject"}

Start(q, j, step, trail) ==
    /\ pc[q] = "idle"
    /\ job' = [job EXCEPT ![q] = j] /\ pc' = [pc EXCEPT ![q] = step]
    /\ copy' = [copy EXCEPT ![q] = trail]
    /\ Quietly /\ UNCHANGED <<meta, versions, clock>>

(* The handler reads the version it is about, and so its trail ...          *)
Arrive(q) ==
    \E op \in {"patch", "submit", "rollback"} \cup Decides, d \in DOMAIN versions,
       user \in Users :
         LET current == meta[versions[d].record].current
         IN  /\ op \in {"patch", "submit"} => d = current
             /\ op = "rollback" => d # current
             /\ op \in Decides => versions[d].pending
             /\ Start(q, [op |-> op, of |-> d, user |-> user],
                      IF op \in Inserts THEN "insert" ELSE "review",
                      [submittedBy |-> versions[d].submittedBy,
                       reviewedBy |-> versions[d].reviewedBy])

(* ... or binds the body of a POST, whose reviewer nobody clears.           *)
Bind(q) ==
    \E user \in Users, reviewer \in Actors \cup {Unset} :
        Start(q, [op |-> "create", of |-> q, user |-> user], "enter",
              [submittedBy |-> user, reviewedBy |-> reviewer])

(* Create stamps the new meta record as created and updated ...             *)
Enter(q) ==
    LET record == [createdBy |-> job[q].user, createdAt |-> clock + 1,
                   updatedBy |-> job[q].user, updatedAt |-> clock + 1,
                   current |-> q]
    IN  /\ pc[q] = "enter"
        /\ clock' = clock + 1
        /\ meta' = [r \in DOMAIN meta \cup {q} |-> IF r = q THEN record ELSE meta[r]]
        /\ Goto(q, "insert")
        /\ Quietly /\ UNCHANGED <<versions, copy>>

(* ... and inserts its first version; CreateVersion a copy of the snapshot, *)
(* its review trail included; a field-wise AcceptVersion one that names the *)
(* submission's submitter.                                                  *)
Insert(q) ==
    LET j == job[q]
        doc == [record |-> IF j.op = "create" THEN q ELSE versions[j.of].record,
                pending |-> j.op = "submit",
                submittedBy |-> IF j.op = "derive" THEN copy[q].submittedBy
                                ELSE j.user,
                reviewedBy |-> IF j.op = "derive" THEN j.user
                               ELSE copy[q].reviewedBy]
    IN  /\ pc[q] = "insert"
        /\ versions' = [d \in DOMAIN versions \cup {q} |->
                          IF d = q THEN doc ELSE versions[d]]
        /\ Goto(q, IF j.op \in {"patch", "derive"} THEN "point" ELSE "done")
        /\ Quietly /\ UNCHANGED <<meta, clock, copy>>

(* setVersionState, with a reviewer (a whole accept, a rejection, the end   *)
(* of a field-wise accept) or without one (a rollback).                     *)
Review(q) ==
    /\ pc[q] = "review"
    /\ versions' = [versions EXCEPT
           ![job[q].of].reviewedBy = IF job[q].op \in Decides THEN job[q].user ELSE @,
           ![job[q].of].pending = FALSE]
    /\ Goto(q, IF job[q].op \in Promotes THEN "point" ELSE "done")
    /\ Quietly /\ UNCHANGED <<meta, clock, copy>>

(* setMetaCurrentVersion.                                                   *)
Point(q) ==
    LET r == versions[job[q].of].record
        new == IF job[q].op \in Promotes THEN job[q].of ELSE q
    IN  /\ pc[q] = "point"
        /\ clock' = clock + 1
        /\ meta' = [meta EXCEPT ![r].current = new, ![r].updatedAt = clock + 1,
                                ![r].updatedBy = job[q].user]
        /\ Goto(q, IF job[q].op = "derive" THEN "review" ELSE "done")
        /\ Quietly /\ UNCHANGED <<versions, copy>>

Serve(q) == Enter(q) \/ Insert(q) \/ Review(q) \/ Point(q)

-----------------------------------------------------------------------------
Fail == failures < MaxFailures /\ failures' = failures + 1 /\ UNCHANGED dryRuns

(* The -apply flag of a new run.                                            *)
Flag(apply) ==
    /\ apply \/ dryRuns < MaxDryRuns
    /\ dryRuns' = IF apply THEN dryRuns ELSE dryRuns + 1
    /\ UNCHANGED failures

(* cmd/backfill-audit-fields.                                               *)

StamperOff == [on |-> FALSE, apply |-> FALSE, todo |-> {}]

StamperOnly == UNCHANGED <<versions, clock, service, rewriter>>

StamperList(apply) ==
    /\ ~stamper.on
    /\ Flag(apply)
    /\ stamper' = [on |-> TRUE, apply |-> apply,
                   todo |-> {[record |-> r, by |-> meta[r].createdBy,
                              at |-> meta[r].createdAt] :
                             r \in {s \in DOMAIN meta : meta[s].updatedAt = Never}}]
    /\ StamperOnly /\ UNCHANGED meta

(* Variant: an unknown creation time is mirrored as it is.                  *)
StampAsCreated(t) == t.at

(* The creation time, or now when it is unknown.                            *)
StampAt(t) == IF t.at = Never THEN clock ELSE t.at

StamperUpdate ==
    /\ stamper.on
    /\ \E t \in stamper.todo :
         /\ stamper' = [stamper EXCEPT !.todo = @ \ {t}]
         /\ IF stamper.apply
            THEN meta' = [meta EXCEPT
                   ![t.record].updatedBy = t.by, ![t.record].updatedAt = StampAt(t),
                   ![t.record].createdAt = IF t.at = Never THEN StampAt(t) ELSE @]
            ELSE UNCHANGED meta
    /\ StamperOnly /\ UNCHANGED bounds

StamperEnds ==
    /\ stamper.on /\ stamper.todo = {}
    /\ stamper' = StamperOff
    /\ StamperOnly /\ UNCHANGED <<meta, bounds>>

StamperDies ==
    /\ stamper.on
    /\ Fail
    /\ stamper' = StamperOff
    /\ StamperOnly /\ UNCHANGED meta

-----------------------------------------------------------------------------
(* cmd/backfill-canonical-user-ids.                                         *)

(* Variant: reviewers are left out.                                         *)
TargetsButReviewers == <<"createdBy", "updatedBy", "submittedBy">>

Targets == <<"createdBy", "updatedBy", "submittedBy", "reviewedBy">>

MetaFields == {"createdBy", "updatedBy"}

isSubjectShaped(v) == v \in Subjects

FieldValues(f) == IF f \in MetaFields THEN {meta[r][f] : r \in DOMAIN meta}
                  ELSE {versions[d][f] : d \in DOMAIN versions}

planRewrites(subjects) ==
    [s \in subjects |-> IF s \in DOMAIN CanonicalOf THEN CanonicalOf[s] ELSE System]

(* step: off, distinct, resolve or update; target: how far in Targets; plan *)
(* and left: the rewrites, and those to do for this target.                 *)
NoPlan == [s \in {} |-> System]
RewriterOff == [step |-> "off", apply |-> FALSE, target |-> 1, found |-> {},
                plan |-> NoPlan, left |-> {}]

RewriterOnly == UNCHANGED <<clock, service, stamper>>
Reading == UNCHANGED <<meta, versions>>

RewriterStart(apply) ==
    /\ rewriter.step = "off"
    /\ Flag(apply)
    /\ rewriter' = [RewriterOff EXCEPT !.step = "distinct", !.apply = apply]
    /\ RewriterOnly /\ Reading

(* Distinct on one target; nothing to do when none has a subject.           *)
RewriterDistinct ==
    LET found == rewriter.found \cup
          {v \in FieldValues(Targets[rewriter.target]) : isSubjectShaped(v)}
    IN  /\ rewriter.step = "distinct"
        /\ rewriter' =
             IF rewriter.target < Len(Targets)
             THEN [rewriter EXCEPT !.found = found, !.target = @ + 1]
             ELSE IF found = {} THEN RewriterOff
             ELSE [rewriter EXCEPT !.found = found, !.target = 1, !.step = "resolve"]
        /\ RewriterOnly /\ Reading /\ UNCHANGED bounds

RewriterResolve ==
    /\ rewriter.step = "resolve"
    /\ rewriter' = [rewriter EXCEPT !.step = "update", !.left = rewriter.found,
                                    !.plan = planRewrites(rewriter.found)]
    /\ RewriterOnly /\ Reading /\ UNCHANGED bounds

(* Variant: every subject of the field is replaced.                         *)
ReplacesAny(v, s) == isSubjectShaped(v)

Replaces(v, s) == v = s

(* UpdateMany: one subject in one target, on the documents it gets to.      *)
Rewrite(s, hit) ==
    LET f == Targets[rewriter.target]
        New(id, doc) == IF id \in hit /\ Replaces(doc[f], s)
                        THEN [doc EXCEPT ![f] = rewriter.plan[s]] ELSE doc
    IN  IF ~rewriter.apply THEN Reading
        ELSE IF f \in MetaFields
        THEN meta' = [r \in DOMAIN meta |-> New(r, meta[r])] /\ UNCHANGED versions
        ELSE /\ versions' = [d \in DOMAIN versions |-> New(d, versions[d])]
             /\ UNCHANGED meta

(* The subjects of a target are taken in any order (a Go map's).            *)
RewriterUpdate ==
    /\ rewriter.step = "update"
    /\ \E s \in rewriter.left :
         /\ rewriter' = [rewriter EXCEPT !.left = @ \ {s}]
         /\ Rewrite(s, DOMAIN meta \cup DOMAIN versions)
    /\ RewriterOnly /\ UNCHANGED bounds

RewriterNextTarget ==
    /\ rewriter.step = "update" /\ rewriter.left = {}
    /\ rewriter' = IF rewriter.target < Len(Targets)
                   THEN [rewriter EXCEPT !.target = @ + 1, !.left = rewriter.found]
                   ELSE RewriterOff
    /\ RewriterOnly /\ Reading /\ UNCHANGED bounds

(* A failed operation, users-api failing included, ends the run; an update  *)
(* may have reached some of its documents by then.                          *)
RewriterDies ==
    /\ rewriter.step # "off"
    /\ Fail
    /\ rewriter' = RewriterOff
    /\ \/ Reading
       \/ /\ rewriter.step = "update"
          /\ \E s \in rewriter.left, hit \in SUBSET (DOMAIN meta \cup DOMAIN versions) :
               Rewrite(s, hit)
    /\ RewriterOnly

-----------------------------------------------------------------------------
Init ==
    /\ meta = SeedMeta /\ versions = SeedVersion
    /\ clock = 1
    /\ pc = [q \in Requests |-> "idle"]
    /\ job = [q \in Requests |-> [op |-> "none"]]
    /\ copy = [q \in Requests |-> [submittedBy |-> System, reviewedBy |-> Unset]]
    /\ stamper = StamperOff /\ rewriter = RewriterOff
    /\ failures = 0 /\ dryRuns = 0

Stamper == StamperList(TRUE) \/ StamperUpdate \/ StamperEnds
Rewriter == \/ RewriterStart(TRUE) \/ RewriterDistinct \/ RewriterResolve
            \/ RewriterUpdate \/ RewriterNextTarget

Next == \/ \E q \in Requests : Arrive(q) \/ Bind(q) \/ Serve(q)
        \/ Stamper \/ StamperList(FALSE) \/ StamperDies
        \/ Rewriter \/ RewriterStart(FALSE) \/ RewriterDies

Spec == Init /\ [][Next]_vars

(* The commands are run with -apply until a run finds nothing to do.        *)
FairSpec == /\ Spec
            /\ WF_vars(Stamper) /\ WF_vars(Rewriter)
            /\ \A q \in Requests : WF_vars(Serve(q))

-----------------------------------------------------------------------------
(* Properties.                                                              *)

(* The trail keeps its shape: an absent updated_at goes with an absent      *)
(* updated_by, and every value is an actor.                                 *)
BackfillTypeOK ==
    /\ DOMAIN meta \subseteq Records \cup Requests
    /\ meta \in [DOMAIN meta -> Meta]
    /\ DOMAIN versions \subseteq Seeds \cup Requests
    /\ versions \in [DOMAIN versions -> Version]
    /\ \A r \in DOMAIN meta : meta[r].updatedAt = Never <=> meta[r].updatedBy = Unset
    /\ rewriter.found \subseteq Subjects

(* v became w by nothing but the rewriting of a subject: to its own user,   *)
(* or to "system" when users-api does not know it.                          *)
SamePerson(v, w) ==
    \/ w = v
    \/ v \in DOMAIN CanonicalOf /\ w = CanonicalOf[v]
    \/ v \in Subjects \ DOMAIN CanonicalOf /\ w = System

(* Who created a system and who submitted a version stays the same person   *)
(* whatever runs at the same time and wherever a run ends; a canonical id   *)
(* is never touched (planRewrites, isSubjectShaped).                        *)
ProvenanceKept ==
    [][/\ \A r \in DOMAIN meta : SamePerson(meta[r].createdBy, meta'[r].createdBy)
       /\ \A d \in DOMAIN versions :
            SamePerson(versions[d].submittedBy, versions'[d].submittedBy)
      ]_vars

(* Both commands, run again and again, finish their work although the       *)
(* service copies trails it read before a rewrite and although each may     *)
(* undo a part of the other's: every record is stamped ...                  *)
StampedInTheEnd == <>[](\A r \in DOMAIN meta : meta[r].updatedAt # Never)

(* ... and no subject is left in any of the four fields.                    *)
Fields == {"createdBy", "updatedBy", "submittedBy", "reviewedBy"}

CanonicalInTheEnd == <>[](\A f \in Fields : FieldValues(f) \cap Subjects = {})
=============================================================================
