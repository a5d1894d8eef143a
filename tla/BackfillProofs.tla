---------------------------- MODULE BackfillProofs ----------------------------
(***************************************************************************)
(* The backfills keep the trail's shape and never make anyone else the     *)
(* creator of a system or the submitter of a version, for any number of    *)
(* records, requests, failures and runs. What a command carries from its   *)
(* reads to its writes is what the proof is about: the rewriter's plan is  *)
(* one for subjects only, and stays that of what it found.                 *)
(***************************************************************************)
EXTENDS Backfills, TLAPS

Asked  == [op : {"patch", "submit", "rollback", "create"} \cup Decides,
           of : Seeds \cup Requests, user : Users]
Copied == [submittedBy : Actors, reviewedBy : Actors \cup {Unset}]
Todo   == [record : Records \cup Requests, by : Actors, at : Nat]

Plans     == {planRewrites(S) : S \in SUBSET Subjects}
Rewriters == [step : {"off", "distinct", "resolve", "update"},
              apply : BOOLEAN, target : 1 .. 4, found : SUBSET Subjects,
              plan : Plans, left : SUBSET Subjects]

(* What the multi-field writes leave behind.                                *)
Reviewed(v, who) == [v EXCEPT !.reviewedBy = who, !.pending = FALSE]
Pointed(m, new, at, by) ==
    [m EXCEPT !.current = new, !.updatedAt = at, !.updatedBy = by]
Stamped(m, t) ==
    [m EXCEPT !.updatedBy = t.by, !.updatedAt = StampAt(t),
              !.createdAt = IF t.at = Never THEN StampAt(t) ELSE @]

Scanned(w, S) == [w EXCEPT !.found = S, !.target = @ + 1]
Found(w, S)   == [w EXCEPT !.found = S, !.target = 1, !.step = "resolve"]
Planned(w)    == [w EXCEPT !.step = "update", !.left = w.found,
                           !.plan = planRewrites(w.found)]
Advanced(w)   == [w EXCEPT !.target = @ + 1, !.left = w.found]

(* A request in flight, unless it creates, was asked about a version that   *)
(* exists, and has inserted nothing before its insert.                      *)
RequestsOK ==
    /\ DOMAIN pc = Requests /\ DOMAIN job = Requests
    /\ copy \in [Requests -> Copied]
    /\ \A q \in Requests :
         /\ pc[q] \in {"idle", "enter"} => q \notin DOMAIN meta
         /\ pc[q] \in {"idle", "enter", "insert"} => q \notin DOMAIN versions
         /\ pc[q] \in {"enter", "insert", "review", "point"} => job[q] \in Asked
         /\ pc[q] = "enter" => job[q].op = "create"
         /\ pc[q] = "insert" /\ job[q].op # "create" =>
              job[q].of \in DOMAIN versions
         /\ pc[q] \in {"review", "point"} => job[q].of \in DOMAIN versions

CommandsOK ==
    /\ stamper \in [on : BOOLEAN, apply : BOOLEAN, todo : SUBSET Todo]
    /\ rewriter \in Rewriters
    /\ rewriter.step = "update" =>
         /\ rewriter.left \subseteq rewriter.found
         /\ rewriter.plan = planRewrites(rewriter.found)

Inv == /\ BackfillTypeOK /\ RequestsOK /\ CommandsOK
       /\ clock \in Nat \ {0}

Kept ==
    /\ \A r \in DOMAIN meta : SamePerson(meta[r].createdBy, meta'[r].createdBy)
    /\ \A d \in DOMAIN versions :
         SamePerson(versions[d].submittedBy, versions'[d].submittedBy)

-----------------------------------------------------------------------------
LEMMA TargetFields ==
  /\ Len(Targets) = 4
  /\ \A n \in 1 .. 4 : \/ Targets[n] \in MetaFields
                       \/ Targets[n] \in {"submittedBy", "reviewedBy"}
                            /\ Targets[n] \notin MetaFields
  BY DEF Targets, MetaFields

LEMMA PlanTypes ==
  ASSUME NEW S \in SUBSET Subjects, NEW s \in S
  PROVE  /\ planRewrites(S)[s] \in Users \cup {System}
         /\ SamePerson(s, planRewrites(S)[s])
  BY BackfillAssumption DEF planRewrites, SamePerson

(* A command that is not running.                                           *)
LEMMA OffType ==
  /\ StamperOff \in [on : BOOLEAN, apply : BOOLEAN, todo : SUBSET Todo]
  /\ RewriterOff \in Rewriters
  /\ RewriterOff.step = "off" /\ RewriterOff.found = {}
  <1>1. NoPlan = planRewrites({})
    BY DEF NoPlan, planRewrites
  <1>2. NoPlan \in Plans
    BY <1>1 DEF Plans
  <1> QED
    BY <1>2 DEF StamperOff, RewriterOff, Rewriters

LEMMA InitInv == Init => Inv
  <1> SUFFICES ASSUME Init PROVE Inv
    OBVIOUS
  <1> USE BackfillAssumption DEF Init
  <1>1. BackfillTypeOK
    BY DEF BackfillTypeOK, RewriterOff, Never
  <1>2. RequestsOK
    <2>1. copy \in [Requests -> Copied]
      BY DEF Copied, Actors
    <2> QED
      BY <2>1 DEF RequestsOK
  <1>3. CommandsOK
    BY OffType DEF CommandsOK, RewriterOff
  <1> QED
    BY <1>1, <1>2, <1>3 DEF Inv

-----------------------------------------------------------------------------
(* The service.                                                             *)

LEMMA StartInv ==
  ASSUME Inv, NEW q \in Requests, NEW j \in Asked, NEW trail \in Copied,
         NEW step \in {"enter", "insert", "review"}, Start(q, j, step, trail),
         j.op # "create" => j.of \in DOMAIN versions,
         step = "enter" => j.op = "create", j.op = "create" => step = "enter"
  PROVE  Inv' /\ Kept
  <1> USE DEF Inv, Quietly, bounds
  <1>1. UNCHANGED <<meta, versions, clock, stamper, rewriter>>
    BY DEF Start
  <1>2. Kept
    BY <1>1 DEF Kept, SamePerson
  <1>3. RequestsOK'
    BY <1>1 DEF RequestsOK, Start
  <1> QED
    BY <1>1, <1>2, <1>3 DEF BackfillTypeOK, CommandsOK, Rewriters

LEMMA ArriveInv ==
  ASSUME Inv, NEW q \in Requests, Arrive(q)
  PROVE  Inv' /\ Kept
  <1>1. PICK op \in {"patch", "submit", "rollback"} \cup Decides,
             d \in DOMAIN versions, user \in Users :
          Start(q, [op |-> op, of |-> d, user |-> user],
                IF op \in Inserts THEN "insert" ELSE "review",
                [submittedBy |-> versions[d].submittedBy,
                 reviewedBy |-> versions[d].reviewedBy])
    BY DEF Arrive
  <1>2. versions[d] \in Version /\ d \in Seeds \cup Requests
    BY DEF Inv, BackfillTypeOK
  <1> DEFINE j == [op |-> op, of |-> d, user |-> user]
             step == IF op \in Inserts THEN "insert" ELSE "review"
             trail == [submittedBy |-> versions[d].submittedBy,
                       reviewedBy |-> versions[d].reviewedBy]
  <1>3. /\ j \in Asked /\ j.op # "create" /\ j.of \in DOMAIN versions
        /\ step \in {"enter", "insert", "review"} /\ step # "enter"
        /\ trail \in Copied /\ Start(q, j, step, trail)
    BY <1>1, <1>2 DEF Asked, Copied, Version, Decides
  <1> HIDE DEF j, step, trail
  <1> QED
    BY <1>3, StartInv

LEMMA BindInv ==
  ASSUME Inv, NEW q \in Requests, Bind(q)
  PROVE  Inv' /\ Kept
  <1>1. PICK user \in Users, reviewer \in Actors \cup {Unset} :
          Start(q, [op |-> "create", of |-> q, user |-> user], "enter",
                [submittedBy |-> user, reviewedBy |-> reviewer])
    BY DEF Bind
  <1> DEFINE j == [op |-> "create", of |-> q, user |-> user]
             trail == [submittedBy |-> user, reviewedBy |-> reviewer]
  <1>2. /\ j \in Asked /\ j.op = "create" /\ trail \in Copied
        /\ Start(q, j, "enter", trail)
    BY <1>1 DEF Asked, Copied, Actors, Decides
  <1> HIDE DEF j, trail
  <1> QED
    BY <1>2, StartInv

LEMMA EnterInv ==
  ASSUME Inv, NEW q \in Requests, Enter(q)
  PROVE  Inv' /\ Kept
  <1> USE DEF Inv, Quietly, Goto, bounds
  <1>1. UNCHANGED <<versions, stamper, rewriter, job, copy>>
    BY DEF Enter
  <1>2. /\ pc[q] = "enter" /\ pc' = [pc EXCEPT ![q] = "insert"]
        /\ q \notin DOMAIN versions /\ q \notin DOMAIN meta
        /\ job[q] \in Asked /\ job[q].op = "create"
        /\ clock' = clock + 1 /\ clock' \in Nat \ {0}
    BY DEF Enter, RequestsOK
  <1>3. PICK record :
          /\ meta' = [r \in DOMAIN meta \cup {q} |->
                        IF r = q THEN record ELSE meta[r]]
          /\ record \in Meta /\ record.updatedAt # Never
          /\ record.updatedBy # Unset
    <2>1. job[q].user \in Users /\ job[q].user # Unset
      BY <1>2, BackfillAssumption DEF Asked
    <2> DEFINE record == [createdBy |-> job[q].user, createdAt |-> clock + 1,
                          updatedBy |-> job[q].user, updatedAt |-> clock + 1,
                          current |-> q]
    <2>2. record \in Meta /\ record.updatedAt # Never /\ record.updatedBy # Unset
      BY <1>2, <2>1 DEF Meta, Actors, Never
    <2>3. meta' = [r \in DOMAIN meta \cup {q} |-> IF r = q THEN record ELSE meta[r]]
      BY DEF Enter
    <2> QED
      BY <2>2, <2>3
  <1>4. /\ DOMAIN meta' = DOMAIN meta \cup {q}
        /\ \A r \in DOMAIN meta : meta'[r] = meta[r]
        /\ meta'[q] = record
    BY <1>2, <1>3
  <1>5. Kept
    BY <1>1, <1>4 DEF Kept, SamePerson
  <1>6. BackfillTypeOK'
    BY <1>1, <1>3, <1>4 DEF BackfillTypeOK
  <1>7. RequestsOK'
    BY <1>1, <1>2, <1>4 DEF RequestsOK
  <1> QED
    BY <1>1, <1>2, <1>5, <1>6, <1>7 DEF CommandsOK

LEMMA InsertInv ==
  ASSUME Inv, NEW q \in Requests, Insert(q)
  PROVE  Inv' /\ Kept
  <1> USE DEF Inv, Quietly, Goto, bounds
  <1>1. UNCHANGED <<meta, clock, stamper, rewriter, job, copy>>
    BY DEF Insert
  <1>2. /\ pc[q] = "insert"
        /\ \/ pc' = [pc EXCEPT ![q] = "done"]
           \/ pc' = [pc EXCEPT ![q] = "point"] /\ job[q].op # "create"
        /\ q \notin DOMAIN versions /\ job[q] \in Asked
        /\ job[q].op # "create" => job[q].of \in DOMAIN versions
    BY DEF Insert, RequestsOK
  <1>3. PICK doc :
          /\ versions' = [d \in DOMAIN versions \cup {q} |->
                            IF d = q THEN doc ELSE versions[d]]
          /\ doc \in Version
    <2>1. copy[q] \in Copied
      BY DEF RequestsOK
    <2>2. /\ job[q].user \in Actors
          /\ copy[q].submittedBy \in Actors
          /\ copy[q].reviewedBy \in Actors \cup {Unset}
      BY <1>2, <2>1 DEF Copied, Asked, Actors
    <2> DEFINE j == job[q]
               record == IF j.op = "create" THEN q ELSE versions[j.of].record
               pending == j.op = "submit"
               by == IF j.op = "derive" THEN copy[q].submittedBy ELSE j.user
               reviewer == IF j.op = "derive" THEN j.user ELSE copy[q].reviewedBy
               doc == [record |-> record, pending |-> pending,
                       submittedBy |-> by, reviewedBy |-> reviewer]
    <2>3. versions' = [d \in DOMAIN versions \cup {q} |->
                         IF d = q THEN doc ELSE versions[d]]
      BY DEF Insert
    <2>4. record \in Records \cup Requests
      <3>1. CASE j.op = "create"
        BY <3>1
      <3>2. CASE j.op # "create"
        <4>1. versions[j.of] \in Version
          BY <1>2, <3>2 DEF BackfillTypeOK
        <4> QED
          BY <3>2, <4>1 DEF Version
      <3> QED
        BY <3>1, <3>2
    <2>5. by \in Actors /\ reviewer \in Actors \cup {Unset} /\ pending \in BOOLEAN
      BY <2>2
    <2> HIDE DEF record, pending, by, reviewer
    <2>6. doc \in Version
      BY <2>4, <2>5 DEF Version
    <2> QED
      BY <2>3, <2>6
  <1>4. /\ DOMAIN versions' = DOMAIN versions \cup {q}
        /\ \A d \in DOMAIN versions : versions'[d] = versions[d]
    BY <1>2, <1>3
  <1>5. Kept
    BY <1>1, <1>4 DEF Kept, SamePerson
  <1>6. BackfillTypeOK'
    BY <1>1, <1>3, <1>4 DEF BackfillTypeOK
  <1>7. RequestsOK'
    BY <1>1, <1>2, <1>4 DEF RequestsOK
  <1> QED
    BY <1>1, <1>5, <1>6, <1>7 DEF CommandsOK

LEMMA ReviewInv ==
  ASSUME Inv, NEW q \in Requests, Review(q)
  PROVE  Inv' /\ Kept
  <1> USE DEF Inv, Quietly, Goto, bounds
  <1>1. UNCHANGED <<meta, clock, stamper, rewriter, job, copy>>
    BY DEF Review
  <1>2. /\ pc[q] = "review"
        /\ \E step \in {"point", "done"} : pc' = [pc EXCEPT ![q] = step]
        /\ job[q] \in Asked /\ job[q].of \in DOMAIN versions
    BY DEF Review, RequestsOK
  <1>3. ASSUME NEW v \in Version, NEW who \in Actors \cup {Unset}
        PROVE  /\ Reviewed(v, who) \in Version
               /\ Reviewed(v, who).submittedBy = v.submittedBy
    BY DEF Reviewed, Version
  <1>4. /\ DOMAIN versions' = DOMAIN versions
        /\ \A d \in DOMAIN versions :
             \/ versions'[d] = versions[d]
             \/ versions'[d] = Reviewed(versions[d], job[q].user)
             \/ versions'[d] = Reviewed(versions[d], versions[d].reviewedBy)
        /\ versions' = [d \in DOMAIN versions |-> versions'[d]]
    BY DEF Review, Reviewed
  <1>5. \A d \in DOMAIN versions :
          /\ versions'[d] \in Version
          /\ versions'[d].submittedBy = versions[d].submittedBy
    <2>1. job[q].user \in Actors \cup {Unset}
      BY <1>2 DEF Asked, Actors
    <2>2. \A d \in DOMAIN versions :
            versions[d] \in Version /\ versions[d].reviewedBy \in Actors \cup {Unset}
      BY DEF BackfillTypeOK, Version
    <2> HIDE DEF Version, Inv
    <2>3. ASSUME NEW d \in DOMAIN versions
          PROVE  /\ versions'[d] \in Version
                 /\ versions'[d].submittedBy = versions[d].submittedBy
      <3>1. CASE versions'[d] = versions[d]
        BY <2>2, <3>1
      <3>2. CASE versions'[d] = Reviewed(versions[d], job[q].user)
        BY <1>3, <2>1, <2>2, <3>2
      <3>3. CASE versions'[d] = Reviewed(versions[d], versions[d].reviewedBy)
        BY <1>3, <2>2, <3>3
      <3> QED
        BY <1>4, <3>1, <3>2, <3>3
    <2> QED
      BY <2>3
  <1>6. Kept
    BY <1>1, <1>5 DEF Kept, SamePerson
  <1>7. BackfillTypeOK'
    <2>1. versions' \in [DOMAIN versions' -> Version]
      BY <1>4, <1>5
    <2> QED
      BY <1>1, <1>4, <2>1 DEF BackfillTypeOK
  <1>8. RequestsOK'
    BY <1>1, <1>2, <1>4 DEF RequestsOK
  <1> QED
    BY <1>1, <1>6, <1>7, <1>8 DEF CommandsOK

LEMMA PointInv ==
  ASSUME Inv, NEW q \in Requests, Point(q)
  PROVE  Inv' /\ Kept
  <1> USE DEF Inv, Quietly, Goto, bounds
  <1>1. UNCHANGED <<versions, stamper, rewriter, job, copy>>
    BY DEF Point
  <1>2. /\ pc[q] = "point"
        /\ \E step \in {"review", "done"} : pc' = [pc EXCEPT ![q] = step]
        /\ job[q] \in Asked /\ job[q].of \in DOMAIN versions
        /\ job[q].user \in Users /\ job[q].of \in Seeds \cup Requests
        /\ clock' = clock + 1 /\ clock' \in Nat \ {0}
    <2>1. pc[q] = "point" /\ clock' = clock + 1
      BY DEF Point
    <2>2. \E step \in {"review", "done"} : pc' = [pc EXCEPT ![q] = step]
      BY DEF Point
    <2>3. job[q] \in Asked /\ job[q].of \in DOMAIN versions
      BY <2>1 DEF RequestsOK
    <2>4. job[q].user \in Users /\ job[q].of \in Seeds \cup Requests
      BY <2>3 DEF Asked
    <2>5. clock' \in Nat \ {0}
      BY <2>1
    <2> QED
      BY <2>1, <2>2, <2>3, <2>4, <2>5
  <1> DEFINE r == versions[job[q].of].record
             new == IF job[q].op \in Promotes THEN job[q].of ELSE q
  <1>3. /\ new \in Seeds \cup Requests
        /\ meta' = [meta EXCEPT ![r].current = new, ![r].updatedAt = clock + 1,
                                ![r].updatedBy = job[q].user]
    BY <1>2 DEF Point
  <1>4. \A s \in DOMAIN meta :
          /\ meta'[s] \in Meta
          /\ meta'[s].createdBy = meta[s].createdBy
          /\ meta'[s].updatedAt = Never <=> meta'[s].updatedBy = Unset
    <2>1. ASSUME NEW m \in Meta, NEW at \in Nat, NEW by \in Users,
                 NEW v \in Seeds \cup Requests
          PROVE  /\ Pointed(m, v, at, by) \in Meta
                 /\ Pointed(m, v, at, by).createdBy = m.createdBy
                 /\ Pointed(m, v, at, by).updatedAt = at
                 /\ Pointed(m, v, at, by).updatedBy = by
      BY DEF Pointed, Meta, Actors
    <2>2. clock + 1 \in Nat /\ clock + 1 # Never /\ job[q].user # Unset
      BY <1>2, BackfillAssumption DEF Never
    <2>3. meta \in [DOMAIN meta -> Meta]
      BY DEF BackfillTypeOK
    <2>4. \A s \in DOMAIN meta :
            \/ meta'[s] = meta[s]
            \/ meta'[s] = Pointed(meta[s], new, clock + 1, job[q].user)
      BY <1>3, <2>3 DEF Pointed
    <2>5. \A s \in DOMAIN meta : meta[s].updatedAt = Never <=> meta[s].updatedBy = Unset
      BY DEF BackfillTypeOK
    <2> HIDE DEF Meta, Inv, r, new
    <2>6. ASSUME NEW s \in DOMAIN meta
          PROVE  /\ meta'[s] \in Meta
                 /\ meta'[s].createdBy = meta[s].createdBy
                 /\ meta'[s].updatedAt = Never <=> meta'[s].updatedBy = Unset
      <3>1. CASE meta'[s] = meta[s]
        BY <2>3, <2>5, <3>1
      <3>2. CASE meta'[s] = Pointed(meta[s], new, clock + 1, job[q].user)
        <4>1. meta[s] \in Meta
          BY <2>3
        <4>2. /\ meta'[s] \in Meta /\ meta'[s].createdBy = meta[s].createdBy
              /\ meta'[s].updatedAt = clock + 1
              /\ meta'[s].updatedBy = job[q].user
          BY <1>2, <1>3, <2>1, <2>2, <3>2, <4>1
        <4> QED
          BY <2>2, <4>2
      <3> QED
        BY <2>4, <3>1, <3>2
    <2> QED
      BY <2>6
  <1>5. meta' \in [DOMAIN meta -> Meta]
    BY <1>3, <1>4 DEF BackfillTypeOK
  <1>6. Kept
    BY <1>1, <1>4 DEF Kept, SamePerson
  <1>7. RequestsOK'
    <2>1. DOMAIN meta' = DOMAIN meta
      BY <1>5
    <2> QED
      BY <1>1, <1>2, <2>1 DEF RequestsOK
  <1> QED
    BY <1>1, <1>2, <1>4, <1>5, <1>6, <1>7 DEF BackfillTypeOK, CommandsOK, Rewriters

-----------------------------------------------------------------------------
(* backfill-audit-fields.                                                   *)

LEMMA StampType ==
  ASSUME Inv, NEW t \in Todo, NEW m \in Meta
  PROVE  /\ Stamped(m, t) \in Meta /\ Stamped(m, t).createdBy = m.createdBy
         /\ Stamped(m, t).updatedAt # Never /\ Stamped(m, t).updatedBy # Unset
  <1>1. t.by \in Actors /\ t.at \in Nat
    BY DEF Todo
  <1>2. StampAt(t) \in Nat /\ StampAt(t) # Never
    BY <1>1 DEF StampAt, Never, Inv
  <1>3. t.by # Unset
    BY <1>1, BackfillAssumption DEF Actors
  <1> QED
    BY <1>1, <1>2, <1>3 DEF Stamped, Meta

LEMMA StampInv ==
  ASSUME Inv, StamperUpdate
  PROVE  Inv' /\ Kept
  <1> USE DEF Inv, StamperOnly, bounds
  <1>1. UNCHANGED <<versions, clock, service, rewriter>>
    BY DEF StamperUpdate
  <1>2. PICK t \in stamper.todo :
          /\ stamper' = [stamper EXCEPT !.todo = @ \ {t}]
          /\ IF stamper.apply
             THEN meta' = [meta EXCEPT
                    ![t.record].updatedBy = t.by, ![t.record].updatedAt = StampAt(t),
                    ![t.record].createdAt = IF t.at = Never THEN StampAt(t) ELSE @]
             ELSE UNCHANGED meta
    BY DEF StamperUpdate
  <1>3. t \in Todo /\ stamper' \in [on : BOOLEAN, apply : BOOLEAN, todo : SUBSET Todo]
    BY <1>2 DEF CommandsOK
  <1>4. ASSUME NEW s \in DOMAIN meta
        PROVE  /\ meta'[s] \in Meta
               /\ meta'[s].createdBy = meta[s].createdBy
               /\ meta'[s].updatedAt = Never <=> meta'[s].updatedBy = Unset
    <2>1. /\ meta[s] \in Meta
          /\ meta[s].updatedAt = Never <=> meta[s].updatedBy = Unset
      BY DEF BackfillTypeOK
    <2>2. \/ meta'[s] = meta[s]
          \/ meta'[s] = Stamped(meta[s], t)
      BY <1>2 DEF BackfillTypeOK, Stamped
    <2> HIDE DEF Inv, Meta, Todo
    <2>3. CASE meta'[s] = meta[s]
      BY <2>1, <2>3
    <2>4. CASE meta'[s] = Stamped(meta[s], t)
      BY <1>3, <2>1, <2>4, StampType
    <2> QED
      BY <2>2, <2>3, <2>4
  <1>5. meta' \in [DOMAIN meta -> Meta]
    BY <1>2, <1>4 DEF BackfillTypeOK
  <1>6. Kept
    BY <1>1, <1>4 DEF Kept, SamePerson
  <1>7. BackfillTypeOK'
    BY <1>1, <1>4, <1>5 DEF BackfillTypeOK
  <1>8. RequestsOK'
    <2>1. DOMAIN meta' = DOMAIN meta
      BY <1>5
    <2> QED
      BY <1>1, <2>1 DEF RequestsOK, service
  <1> QED
    BY <1>1, <1>3, <1>6, <1>7, <1>8 DEF CommandsOK

LEMMA StamperInv ==
  ASSUME Inv, \/ \E apply \in BOOLEAN : StamperList(apply)
              \/ StamperEnds \/ StamperDies
  PROVE  Inv' /\ Kept
  <1> USE DEF Inv, StamperOnly
  <1>1. UNCHANGED <<meta, versions, clock, service, rewriter>>
    BY DEF StamperList, StamperEnds, StamperDies
  <1>2. stamper' \in [on : BOOLEAN, apply : BOOLEAN, todo : SUBSET Todo]
    <2>1. ASSUME NEW apply \in BOOLEAN, StamperList(apply)
          PROVE  stamper' \in [on : BOOLEAN, apply : BOOLEAN, todo : SUBSET Todo]
      <3>1. \A r \in DOMAIN meta : [record |-> r, by |-> meta[r].createdBy,
                                at |-> meta[r].createdAt] \in Todo
        BY DEF BackfillTypeOK, Meta, Todo
      <3>2. stamper'.todo \subseteq Todo
        BY <2>1, <3>1 DEF StamperList
      <3> QED
        BY <2>1, <3>2 DEF StamperList
    <2>2. ASSUME StamperEnds \/ StamperDies
          PROVE  stamper' \in [on : BOOLEAN, apply : BOOLEAN, todo : SUBSET Todo]
      <3>1. stamper' = StamperOff
        BY <2>2 DEF StamperEnds, StamperDies
      <3> QED
        BY <3>1, OffType
    <2> QED
      BY <2>1, <2>2
  <1>3. Kept
    BY <1>1 DEF Kept, SamePerson
  <1> QED
    BY <1>1, <1>2, <1>3 DEF BackfillTypeOK, RequestsOK, CommandsOK, service

-----------------------------------------------------------------------------
(* backfill-canonical-user-ids.                                             *)

(* One subject in one field, wherever the update gets to.                   *)
LEMMA RewriteKeeps ==
  ASSUME Inv, rewriter.step = "update", NEW s \in rewriter.left, NEW hit,
         Rewrite(s, hit)
  PROVE  /\ Kept
         /\ meta' \in [DOMAIN meta -> Meta]
         /\ \A r \in DOMAIN meta :
              meta'[r].updatedAt = Never <=> meta'[r].updatedBy = Unset
         /\ DOMAIN versions' = DOMAIN versions
         /\ versions' \in [DOMAIN versions -> Version]
  <1> DEFINE f == Targets[rewriter.target]
             x == rewriter.plan[s]
             New(id, doc) == IF id \in hit /\ doc[f] = s
                             THEN [doc EXCEPT ![f] = x] ELSE doc
  <1>1. /\ x \in Users \cup {System} /\ SamePerson(s, x) /\ x # Unset
        /\ s \in Subjects
    <2>1. /\ rewriter.plan = planRewrites(rewriter.found)
          /\ s \in rewriter.found /\ rewriter.found \in SUBSET Subjects
      BY DEF Inv, CommandsOK, Rewriters
    <2> QED
      BY <2>1, PlanTypes, BackfillAssumption
  <1>2. \/ f \in MetaFields
        \/ f \in {"submittedBy", "reviewedBy"} /\ f \notin MetaFields
    BY TargetFields DEF Inv, CommandsOK, Rewriters
  <1>3. /\ meta \in [DOMAIN meta -> Meta] /\ versions \in [DOMAIN versions -> Version]
        /\ \A r \in DOMAIN meta : meta[r].updatedAt = Never <=> meta[r].updatedBy = Unset
    BY DEF Inv, BackfillTypeOK
  <1>4. CASE UNCHANGED <<meta, versions>>
    BY <1>3, <1>4 DEF Kept, SamePerson
  <1>5. CASE /\ f \in MetaFields
             /\ meta' = [r \in DOMAIN meta |-> New(r, meta[r])] /\ UNCHANGED versions
    <2>1. ASSUME NEW m \in Meta, NEW g \in MetaFields, m[g] = s
          PROVE  LET n == [m EXCEPT ![g] = x]
                 IN  /\ n \in Meta /\ SamePerson(m.createdBy, n.createdBy)
                     /\ n.updatedAt = m.updatedAt
                     /\ n.updatedBy = Unset <=> m.updatedBy = Unset
      <3>1. s # Unset
        BY <1>1, BackfillAssumption
      <3>2. CASE g = "createdBy"
        BY <1>1, <2>1, <3>2 DEF Meta, Actors
      <3>3. CASE g = "updatedBy"
        BY <1>1, <2>1, <3>1, <3>3 DEF Meta, Actors, SamePerson
      <3> QED
        BY <3>2, <3>3 DEF MetaFields
    <2>2. ASSUME NEW r \in DOMAIN meta
          PROVE  /\ meta'[r] \in Meta
                 /\ SamePerson(meta[r].createdBy, meta'[r].createdBy)
                 /\ meta'[r].updatedAt = Never <=> meta'[r].updatedBy = Unset
      <3>1. meta'[r] = New(r, meta[r]) /\ meta[r] \in Meta
        BY <1>3, <1>5
      <3>2. CASE r \in hit /\ meta[r][f] = s
        <4>1. meta'[r] = [meta[r] EXCEPT ![f] = x]
          BY <3>1, <3>2
        <4> HIDE DEF f, x
        <4> QED
          BY <1>3, <1>5, <2>1, <3>1, <3>2, <4>1
      <3>3. CASE ~(r \in hit /\ meta[r][f] = s)
        BY <1>3, <3>1, <3>3 DEF SamePerson
      <3> QED
        BY <3>2, <3>3
    <2>3. meta' \in [DOMAIN meta -> Meta]
      BY <1>5, <2>2
    <2> QED
      BY <1>3, <1>5, <2>2, <2>3 DEF Kept, SamePerson
  <1>6. CASE /\ f \notin MetaFields
             /\ versions' = [d \in DOMAIN versions |-> New(d, versions[d])]
             /\ UNCHANGED meta
    <2>1. ASSUME NEW v \in Version, NEW g \in {"submittedBy", "reviewedBy"}, v[g] = s
          PROVE  LET n == [v EXCEPT ![g] = x]
                 IN  n \in Version /\ SamePerson(v.submittedBy, n.submittedBy)
      <3>1. CASE g = "submittedBy"
        BY <1>1, <2>1, <3>1 DEF Version, Actors
      <3>2. CASE g = "reviewedBy"
        BY <1>1, <2>1, <3>2 DEF Version, Actors, SamePerson
      <3> QED
        BY <3>1, <3>2
    <2>2. ASSUME NEW d \in DOMAIN versions
          PROVE  /\ versions'[d] \in Version
                 /\ SamePerson(versions[d].submittedBy, versions'[d].submittedBy)
      <3>1. versions'[d] = New(d, versions[d]) /\ versions[d] \in Version
        BY <1>3, <1>6
      <3>2. CASE d \in hit /\ versions[d][f] = s
        <4>1. versions'[d] = [versions[d] EXCEPT ![f] = x]
          BY <3>1, <3>2
        <4> HIDE DEF f, x
        <4> QED
          BY <1>2, <1>6, <2>1, <3>1, <3>2, <4>1
      <3>3. CASE ~(d \in hit /\ versions[d][f] = s)
        BY <3>1, <3>3 DEF SamePerson
      <3> QED
        BY <3>2, <3>3
    <2>3. DOMAIN versions' = DOMAIN versions
            /\ versions' \in [DOMAIN versions -> Version]
      BY <1>6, <2>2
    <2> QED
      BY <1>3, <1>6, <2>2, <2>3 DEF Kept, SamePerson
  <1>7. \/ UNCHANGED <<meta, versions>>
        \/ /\ f \in MetaFields
           /\ meta' = [r \in DOMAIN meta |-> New(r, meta[r])] /\ UNCHANGED versions
        \/ /\ f \notin MetaFields
           /\ versions' = [d \in DOMAIN versions |-> New(d, versions[d])]
           /\ UNCHANGED meta
    BY DEF Rewrite, Reading, Replaces
  <1> QED
    BY <1>4, <1>5, <1>6, <1>7

LEMMA RewriterUpdateInv ==
  ASSUME Inv, RewriterUpdate
  PROVE  Inv' /\ Kept
  <1> USE DEF Inv, RewriterOnly
  <1>1. PICK s \in rewriter.left :
          /\ rewriter' = [rewriter EXCEPT !.left = @ \ {s}]
          /\ Rewrite(s, DOMAIN meta \cup DOMAIN versions)
    BY DEF RewriterUpdate
  <1>2. rewriter.step = "update" /\ UNCHANGED <<clock, service, stamper>>
    BY DEF RewriterUpdate
  <1>3. /\ Kept /\ meta' \in [DOMAIN meta -> Meta]
        /\ \A r \in DOMAIN meta :
             meta'[r].updatedAt = Never <=> meta'[r].updatedBy = Unset
        /\ DOMAIN versions' = DOMAIN versions
        /\ versions' \in [DOMAIN versions -> Version]
    BY <1>1, <1>2, RewriteKeeps
  <1>4. CommandsOK'
    <2>1. /\ rewriter \in Rewriters /\ rewriter.left \subseteq rewriter.found
          /\ rewriter.plan = planRewrites(rewriter.found)
      BY <1>2 DEF CommandsOK
    <2>2. /\ rewriter'.left \subseteq rewriter.left
          /\ rewriter'.found = rewriter.found /\ rewriter'.plan = rewriter.plan
      BY <1>1, <2>1 DEF Rewriters
    <2>3. rewriter' \in Rewriters
      BY <1>1, <2>1 DEF Rewriters
    <2> QED
      BY <1>2, <2>1, <2>2, <2>3 DEF CommandsOK
  <1>5. BackfillTypeOK'
    BY <1>3, <1>4 DEF BackfillTypeOK, CommandsOK, Rewriters
  <1>6. RequestsOK'
    BY <1>2, <1>3 DEF RequestsOK, service
  <1> QED
    BY <1>2, <1>3, <1>4, <1>5, <1>6

(* A killed run forgets everything; its last update got somewhere.          *)
LEMMA RewriterDiesInv ==
  ASSUME Inv, RewriterDies
  PROVE  Inv' /\ Kept
  <1> USE DEF Inv, RewriterOnly
  <1>1. /\ rewriter' = RewriterOff /\ UNCHANGED <<clock, service, stamper>>
        /\ \/ Reading
           \/ /\ rewriter.step = "update"
              /\ \E s \in rewriter.left,
                    hit \in SUBSET (DOMAIN meta \cup DOMAIN versions) : Rewrite(s, hit)
    BY DEF RewriterDies
  <1>2. /\ Kept /\ meta' \in [DOMAIN meta -> Meta]
        /\ \A r \in DOMAIN meta :
             meta'[r].updatedAt = Never <=> meta'[r].updatedBy = Unset
        /\ DOMAIN versions' = DOMAIN versions
        /\ versions' \in [DOMAIN versions -> Version]
    <2>1. CASE Reading
      BY <2>1 DEF Reading, Kept, SamePerson, BackfillTypeOK
    <2> QED
      BY <1>1, <2>1, RewriteKeeps
  <1>3. CommandsOK'
    BY <1>1, OffType DEF CommandsOK
  <1>4. BackfillTypeOK'
    BY <1>2, <1>3 DEF BackfillTypeOK, CommandsOK, Rewriters
  <1>5. RequestsOK'
    BY <1>1, <1>2 DEF RequestsOK, service
  <1> QED
    BY <1>1, <1>2, <1>3, <1>4, <1>5

LEMMA RewriterMoves ==
  ASSUME NEW w \in Rewriters, NEW S \in SUBSET Subjects
  PROVE  /\ w.target < 4 => /\ Scanned(w, S) \in Rewriters
                            /\ Scanned(w, S).step = w.step
         /\ Found(w, S) \in Rewriters /\ Found(w, S).step = "resolve"
         /\ Planned(w) \in Rewriters /\ Planned(w).left = Planned(w).found
         /\ Planned(w).plan = planRewrites(Planned(w).found)
         /\ w.target < 4 => Advanced(w) \in Rewriters
         /\ Advanced(w).left = Advanced(w).found
         /\ Advanced(w).plan = w.plan /\ Advanced(w).found = w.found
  <1>1. w.found \in SUBSET Subjects /\ planRewrites(w.found) \in Plans
    BY DEF Rewriters, Plans
  <1>2. w.target < 4 => w.target + 1 \in 1 .. 4
    BY DEF Rewriters
  <1>3. /\ w.target < 4 => Scanned(w, S) \in Rewriters
        /\ Scanned(w, S).step = w.step
    BY <1>2 DEF Scanned, Rewriters
  <1>4. Found(w, S) \in Rewriters /\ Found(w, S).step = "resolve"
    <2>1. 1 \in 1 .. 4 /\ "resolve" \in {"off", "distinct", "resolve", "update"}
      OBVIOUS
    <2>2. Found(w, S) \in Rewriters
      BY <2>1 DEF Found, Rewriters
    <2>3. Found(w, S).step = "resolve"
      BY DEF Found, Rewriters
    <2> QED
      BY <2>2, <2>3
  <1>5. /\ Planned(w) \in Rewriters /\ Planned(w).left = Planned(w).found
        /\ Planned(w).plan = planRewrites(Planned(w).found)
    <2>1. Planned(w) \in Rewriters
      <3> DEFINE plan == planRewrites(w.found)
      <3>1. plan \in Plans
        BY <1>1
      <3> HIDE DEF plan
      <3>2. [w EXCEPT !.step = "update", !.left = w.found, !.plan = plan]
              \in Rewriters
        BY <1>1, <3>1 DEF Rewriters
      <3> QED
        BY <3>2 DEF Planned, plan
    <2>2. /\ Planned(w).found = w.found /\ Planned(w).left = w.found
          /\ Planned(w).plan = planRewrites(w.found)
      <3> DEFINE plan == planRewrites(w.found)
      <3> HIDE DEF plan
      <3>1. LET n == [w EXCEPT !.step = "update", !.left = w.found, !.plan = plan]
            IN  n.found = w.found /\ n.left = w.found /\ n.plan = plan
        BY DEF Rewriters
      <3> QED
        BY <3>1 DEF Planned, plan
    <2> QED
      BY <2>1, <2>2
  <1>6. /\ w.target < 4 => Advanced(w) \in Rewriters
        /\ Advanced(w).left = Advanced(w).found
        /\ Advanced(w).plan = w.plan /\ Advanced(w).found = w.found
    BY <1>1, <1>2 DEF Advanced, Rewriters
  <1> QED
    BY <1>3, <1>4, <1>5, <1>6

LEMMA RewriterReadsInv ==
  ASSUME Inv, \/ \E apply \in BOOLEAN : RewriterStart(apply)
              \/ RewriterDistinct \/ RewriterResolve \/ RewriterNextTarget
  PROVE  Inv' /\ Kept
  <1> USE DEF Inv, RewriterOnly, Reading
  <1>1. UNCHANGED <<meta, versions, clock, service, stamper>>
    BY DEF RewriterStart, RewriterDistinct, RewriterResolve, RewriterNextTarget
  <1>2. Kept
    BY <1>1 DEF Kept, SamePerson
  <1>3. CommandsOK'
    <2>1. \/ rewriter' = RewriterOff
          \/ rewriter' \in Rewriters /\ rewriter'.step # "update"
          \/ rewriter' \in Rewriters /\ rewriter'.left \subseteq rewriter'.found
               /\ rewriter'.plan = planRewrites(rewriter'.found)
      <3>1. ASSUME NEW apply \in BOOLEAN, RewriterStart(apply)
            PROVE  rewriter' \in Rewriters /\ rewriter'.step # "update"
        BY <3>1, OffType DEF RewriterStart, Rewriters
      <3>2. ASSUME RewriterDistinct, rewriter' # RewriterOff
            PROVE  rewriter' \in Rewriters /\ rewriter'.step # "update"
        <4> DEFINE found == rewriter.found \cup
              {v \in FieldValues(Targets[rewriter.target]) : isSubjectShaped(v)}
        <4>1. found \in SUBSET Subjects
          BY DEF isSubjectShaped, CommandsOK, Rewriters
        <4>2. /\ rewriter.step = "distinct"
              /\ \/ /\ rewriter.target < 4
                    /\ rewriter' = Scanned(rewriter, found)
                 \/ rewriter' = Found(rewriter, found)
          BY <3>2, TargetFields DEF RewriterDistinct, Scanned, Found
        <4> HIDE DEF found
        <4>3. rewriter \in Rewriters
          BY DEF CommandsOK
        <4> QED
          BY <4>1, <4>2, <4>3, RewriterMoves
      <3>3. ASSUME RewriterResolve
            PROVE  /\ rewriter' \in Rewriters
                   /\ rewriter'.left \subseteq rewriter'.found
                   /\ rewriter'.plan = planRewrites(rewriter'.found)
        <4>1. rewriter \in Rewriters /\ rewriter' = Planned(rewriter)
          BY <3>3 DEF CommandsOK, RewriterResolve, Planned
        <4> QED
          BY <4>1, RewriterMoves
      <3>4. ASSUME RewriterNextTarget, rewriter' # RewriterOff
            PROVE  /\ rewriter' \in Rewriters
                   /\ rewriter'.left \subseteq rewriter'.found
                   /\ rewriter'.plan = planRewrites(rewriter'.found)
        <4>1. /\ rewriter \in Rewriters /\ rewriter.target < 4
              /\ rewriter' = Advanced(rewriter)
              /\ rewriter.plan = planRewrites(rewriter.found)
          BY <3>4, TargetFields DEF RewriterNextTarget, CommandsOK, Advanced
        <4> QED
          BY <4>1, RewriterMoves
      <3> QED
        BY <3>1, <3>2, <3>3, <3>4
    <2> QED
      BY <1>1, <2>1, OffType DEF CommandsOK
  <1>4. BackfillTypeOK'
    BY <1>1, <1>3 DEF BackfillTypeOK, CommandsOK, Rewriters
  <1> QED
    BY <1>1, <1>2, <1>3, <1>4 DEF RequestsOK, service

-----------------------------------------------------------------------------
LEMMA StepInv ==
  ASSUME Inv, [Next]_vars
  PROVE  Inv' /\ [Kept]_vars
  <1>1. CASE UNCHANGED vars
    BY <1>1 DEF vars, service, bounds, Inv, BackfillTypeOK, RequestsOK, CommandsOK
  <1>2. CASE \E q \in Requests : Arrive(q) \/ Bind(q) \/ Serve(q)
    BY <1>2, ArriveInv, BindInv, EnterInv, InsertInv, ReviewInv, PointInv DEF Serve
  <1>3. CASE Stamper \/ StamperList(FALSE) \/ StamperDies
    BY <1>3, StampInv, StamperInv DEF Stamper
  <1>4. CASE Rewriter \/ RewriterStart(FALSE) \/ RewriterDies
    BY <1>4, RewriterUpdateInv, RewriterDiesInv, RewriterReadsInv DEF Rewriter
  <1> QED
    BY <1>1, <1>2, <1>3, <1>4 DEF Next

(* Whatever the commands and the service write, in any order and however    *)
(* many runs are killed, the audit trail keeps its shape: an absent         *)
(* updated_at goes with an absent updated_by, and every value is an actor.  *)
THEOREM TrailShapeKept == Spec => []BackfillTypeOK
  <1>1. Inv => BackfillTypeOK
    BY DEF Inv
  <1>2. Inv /\ [Next]_vars => Inv'
    BY StepInv
  <1> QED
    BY <1>1, <1>2, InitInv, PTL DEF Spec

(* No write of a command that read earlier, and none of the service, makes  *)
(* anyone else the creator of a system or the submitter of a version.       *)
THEOREM ProvenanceAlwaysKept == Spec => ProvenanceKept
  <1>1. Inv /\ [Next]_vars => Inv' /\ [Kept]_vars
    BY StepInv
  <1>2. Spec => [][Kept]_vars
    BY <1>1, InitInv, PTL DEF Spec
  <1> QED
    BY <1>2 DEF ProvenanceKept, Kept
=============================================================================
