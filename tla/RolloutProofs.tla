---------------------------- MODULE RolloutProofs ----------------------------
(***************************************************************************)
(* What the roll-out promises to those who already use slugs, for any      *)
(* number of records, replicas, operators and requests, and whatever fails *)
(* in between.                                                             *)
(***************************************************************************)
EXTENDS Rollout, FiniteSetTheorems, WellFoundedInduction, TLAPS

(* Nothing has a request's `_id` before the request inserts it.             *)
NotYet ==
    /\ DOMAIN pc = Requests
    /\ \A q \in Requests : pc[q] \in {"idle", "insertMeta"} =>
         q \notin DOMAIN current /\ q \notin DOMAIN slug

(* A new record's slug is the only one that is added.                       *)
LEMMA CreateStep ==
  ASSUME NotYet, NEW q \in Requests, CreateInsertMeta(q)
  PROVE  \/ UNCHANGED slug
         \/ /\ slug' = Put(slug, q, job[q].slug)
            /\ q \notin DOMAIN slug
            /\ ~SlugTaken(job[q].slug)
  BY DEF CreateInsertMeta, NotYet

(* The migration writes one record, that has no slug when it is written.    *)
LEMMA MigrateStep ==
  ASSUME NEW m \in Operators, MigrateUpdate(m)
  PROVE  \/ UNCHANGED slug
         \/ /\ slug' = Put(slug, tool[m].record, tool[m].id)
            /\ tool[m].record \in Missing
            /\ "slug" \in indexes =>
                 \A r \in DOMAIN slug \ {tool[m].record} : slug[r] # tool[m].id
  BY DEF MigrateUpdate, Matches

LEMMA OtherSteps ==
  ASSUME [Next]_vars,
         ~ \E q \in Requests : CreateInsertMeta(q),
         ~ \E m \in Operators : MigrateUpdate(m)
  PROVE  UNCHANGED slug
  <1> USE DEF store, requests, vars
  <1>1. CASE UNCHANGED vars
    BY <1>1
  <1>2. ASSUME NEW p \in Replicas, \/ Boot(p) \/ EnsureIndex(p)
               \/ EnsureIndexFails(p) \/ Crash(p) \/ Redeploy(p)
        PROVE  UNCHANGED slug
    BY <1>2 DEF Boot, EnsureIndex, EnsureIndexFails, Crash, Redeploy
  <1>3. ASSUME NEW q \in Requests,
               \/ StartCreate(q) \/ StartPatch(q) \/ CreateInsertVersion(q)
               \/ PatchRead(q) \/ PatchInsert(q) \/ PatchPoint(q)
        PROVE  UNCHANGED slug
    BY <1>3 DEF StartCreate, StartPatch, Arrive, CreateInsertVersion, PatchRead,
                PatchInsert, PatchPoint
  <1>4. ASSUME NEW m \in Operators,
               \/ MigrateList(m) \/ MigrateLoad(m) \/ MigrateComplete(m)
               \/ MigrateLoadFails(m) \/ MigrateDies(m)
        PROVE  UNCHANGED slug
    BY <1>4 DEF MigrateList, MigrateLoad, MigrateComplete, MigrateLoadFails,
                MigrateDies, Becomes
  <1> QED
    BY <1>1, <1>2, <1>3, <1>4 DEF Next, Serve, Migrate

LEMMA NotYetStep ==
  ASSUME NotYet, [Next]_vars
  PROVE  NotYet'
  <1> USE DEF store, requests, vars, Goto
  <1>1. CASE UNCHANGED <<pc, current, slug>>
    BY <1>1 DEF NotYet
  <1>2. ASSUME NEW q \in Requests,
               \/ StartCreate(q) \/ StartPatch(q) \/ CreateInsertVersion(q)
               \/ PatchRead(q) \/ PatchInsert(q)
        PROVE  NotYet'
    BY <1>2 DEF NotYet, StartCreate, StartPatch, Arrive, CreateInsertVersion,
                PatchRead, PatchInsert
  <1>3. ASSUME NEW q \in Requests, PatchPoint(q)
        PROVE  NotYet'
    BY <1>3 DEF NotYet, PatchPoint
  <1>4. ASSUME NEW q \in Requests, CreateInsertMeta(q)
        PROVE  NotYet'
    <2>1. \A p \in Requests \ {q} : pc'[p] = pc[p]
      BY <1>4 DEF NotYet, CreateInsertMeta
    <2>2. DOMAIN pc' = Requests /\ pc'[q] \in {"refused", "insertFirst"}
      BY <1>4 DEF NotYet, CreateInsertMeta
    <2>3. DOMAIN current' \subseteq DOMAIN current \cup {q}
            /\ DOMAIN slug' \subseteq DOMAIN slug \cup {q}
      BY <1>4 DEF Put, CreateInsertMeta
    <2> QED
      BY <2>1, <2>2, <2>3 DEF NotYet
  <1>5. ASSUME NEW m \in Operators, MigrateUpdate(m)
        PROVE  NotYet'
    <2>1. UNCHANGED <<pc, current>>
      BY <1>5 DEF MigrateUpdate, Becomes
    <2>2. DOMAIN slug' \subseteq DOMAIN slug \cup DOMAIN current
      <3> DEFINE r == tool[m].record
      <3>1. \/ UNCHANGED slug
            \/ slug' = Put(slug, r, tool[m].id) /\ r \in DOMAIN current
        BY <1>5, MigrateStep DEF Missing
      <3> HIDE DEF r
      <3> QED
        BY <3>1 DEF Put
    <2> QED
      BY <2>1, <2>2 DEF NotYet
  <1>6. ASSUME NEW p \in Replicas, \/ Boot(p) \/ EnsureIndex(p)
               \/ EnsureIndexFails(p) \/ Crash(p) \/ Redeploy(p)
        PROVE  UNCHANGED <<pc, current, slug>>
    BY <1>6 DEF Boot, EnsureIndex, EnsureIndexFails, Crash, Redeploy
  <1>7. ASSUME NEW m \in Operators,
               \/ MigrateList(m) \/ MigrateLoad(m) \/ MigrateComplete(m)
               \/ MigrateLoadFails(m) \/ MigrateDies(m)
        PROVE  UNCHANGED <<pc, current, slug>>
    BY <1>7 DEF MigrateList, MigrateLoad, MigrateComplete, MigrateLoadFails,
                MigrateDies, Becomes
  <1> QED
    BY <1>1, <1>2, <1>3, <1>4, <1>5, <1>6, <1>7 DEF Next, Serve, Migrate

LEMMA InitNotYet == Init => NotYet
  BY RolloutAssumption DEF Init, NotYet

(* A URL in use stays valid: a record that has a slug keeps it, however     *)
(* often and by however many operators the migration is run, whatever       *)
(* another run has read or is about to write, and with or without the index.*)
THEOREM SlugsAlwaysKept == Spec => SlugsKept
  <1> DEFINE Keeps == \A r \in DOMAIN slug : slug[r] # <<>> => slug'[r] = slug[r]
  <1>1. ASSUME NotYet, [Next]_vars
        PROVE  Keeps
    <2>1. CASE UNCHANGED slug
      BY <2>1
    <2>2. ASSUME NEW q \in Requests, CreateInsertMeta(q)
          PROVE  Keeps
      BY <1>1, <2>1, <2>2, CreateStep DEF Put
    <2>3. ASSUME NEW m \in Operators, MigrateUpdate(m)
          PROVE  Keeps
      BY <2>1, <2>3, MigrateStep DEF Put, Missing
    <2> QED
      BY <1>1, <2>1, <2>2, <2>3, OtherSteps
  <1>2. NotYet /\ [Next]_vars => NotYet' /\ [Keeps]_vars
    BY <1>1, NotYetStep
  <1>3. Spec => [][Keeps]_vars
    BY <1>2, InitNotYet, PTL DEF Spec
  <1> QED
    BY <1>3 DEF SlugsKept

-----------------------------------------------------------------------------
(* Types. A request's numbers come from the numbers it found, its record    *)
(* and the migration's from records that exist; nothing is ever deleted.    *)

Names == Seq(Words \cup {Punct})

RequestOK(q) ==
    /\ pc[q] = "idle" => job[q] = NoJob
    /\ pc[q] \in {"insertMeta", "insertFirst"} =>
         job[q] \in [op : {"create"}, slug : CreateSlugs, name : PatchNames]
    /\ pc[q] = "insertFirst" => q \in DOMAIN current
    /\ pc[q] \in {"read", "insert", "point"} =>
         job[q].record \in DOMAIN current /\ job[q].name \in PatchNames
    /\ pc[q] \in {"insert", "point"} => number[q] > 0

TypeInv ==
    /\ RolloutTypeOK
    /\ \A v \in versions : v.number \in Nat /\ v.name \in Names
    /\ DOMAIN pc = Requests /\ DOMAIN job = Requests
    /\ number \in [Requests -> Nat]
    /\ \A q \in Requests : RequestOK(q)
    /\ DOMAIN tool = Operators

LEMMA TypeInit == Init => TypeInv
  <1> SUFFICES ASSUME Init PROVE TypeInv
    OBVIOUS
  <1> USE RolloutAssumption DEF Init
  <1>1. RolloutTypeOK
    BY DEF RolloutTypeOK, Ended, Between, Doc, AllIndexes, Running
  <1>2. \A v \in versions : v.number \in Nat /\ v.name \in Names
    BY DEF Doc, Names
  <1>3. \A q \in Requests : RequestOK(q)
    BY DEF RequestOK
  <1> QED
    BY <1>1, <1>2, <1>3 DEF TypeInv

LEMMA StartupTypes ==
  ASSUME TypeInv, NEW p \in Replicas,
         \/ Boot(p) \/ EnsureIndex(p) \/ EnsureIndexFails(p)
         \/ Crash(p) \/ Redeploy(p)
  PROVE  TypeInv'
  <1> USE DEF store, requests, At
  <1>1. UNCHANGED <<current, slug, versions, pc, job, number, tool>>
    BY DEF Boot, EnsureIndex, EnsureIndexFails, Crash, Redeploy
  <1>2. \/ UNCHANGED indexes
        \/ \E i \in DOMAIN IndexOrder : indexes' = indexes \cup {IndexOrder[i]}
    BY DEF Boot, EnsureIndex, EnsureIndexFails, Crash, Redeploy
  <1>3. indexes' \subseteq AllIndexes
    <2>1. indexes \subseteq AllIndexes
      BY DEF TypeInv, RolloutTypeOK
    <2>2. \A i \in DOMAIN IndexOrder : IndexOrder[i] \in AllIndexes
      BY DEF IndexOrder, AllIndexes
    <2> QED
      BY <1>2, <2>1, <2>2
  <1>4. \E step \in AllIndexes \cup {"down", "serving"} : At(p, step)
    <2>1. CASE EnsureIndex(p)
      <3>1. PICK i \in DOMAIN IndexOrder :
              \/ At(p, IF i = Len(IndexOrder) THEN "serving" ELSE IndexOrder[i + 1])
              \/ At(p, "serving")
        BY <2>1 DEF EnsureIndex
      <3>2. (IF i = Len(IndexOrder) THEN "serving" ELSE IndexOrder[i + 1])
              \in AllIndexes \cup {"serving"}
        BY DEF IndexOrder, AllIndexes
      <3> HIDE DEF At
      <3> QED
        BY <3>1, <3>2
    <2>2. CASE Boot(p) \/ EnsureIndexFails(p) \/ Crash(p) \/ Redeploy(p)
      BY <2>2 DEF Boot, EnsureIndexFails, Crash, Redeploy, AllIndexes
    <2> QED
      BY <2>1, <2>2
  <1>5. replica' \in [Replicas -> AllIndexes \cup {"down", "serving"}]
    BY <1>4 DEF TypeInv, RolloutTypeOK
  <1>6. RolloutTypeOK'
    BY <1>1, <1>3, <1>5 DEF TypeInv, RolloutTypeOK
  <1> QED
    BY <1>1, <1>6 DEF TypeInv, RequestOK

(* A record, once there, stays, and so does what the others rely on.        *)
LEMMA RequestsStay ==
  ASSUME TypeInv, NEW q \in Requests, DOMAIN current \subseteq DOMAIN current',
         DOMAIN pc' = Requests, DOMAIN job' = Requests,
         number' \in [Requests -> Nat],
         \A p \in Requests \ {q} :
           pc'[p] = pc[p] /\ job'[p] = job[p] /\ number'[p] = number[p],
         RequestOK(q)'
  PROVE  \A p \in Requests : RequestOK(p)'
  BY DEF TypeInv, RequestOK

LEMMA StoreTypes ==
  ASSUME TypeInv, UNCHANGED <<indexes, replica, tool>>,
         DOMAIN current \subseteq DOMAIN current',
         DOMAIN current' \subseteq Legacy \cup Requests,
         DOMAIN slug' \subseteq DOMAIN current',
         \A r \in DOMAIN current' : current'[r] \in Nat \ {0},
         \A v \in versions' : /\ v.record \in DOMAIN current' /\ v.number > 0
                              /\ v.number \in Nat /\ v.name \in Names
  PROVE  /\ RolloutTypeOK'
         /\ \A v \in versions' : v.number \in Nat /\ v.name \in Names
         /\ DOMAIN tool' = Operators
  <1>1. RolloutTypeOK'
    BY DEF TypeInv, RolloutTypeOK
  <1> QED
    BY <1>1 DEF TypeInv

LEMMA ArriveTypes ==
  ASSUME TypeInv, NEW q \in Requests, StartCreate(q) \/ StartPatch(q)
  PROVE  TypeInv'
  <1> USE DEF store
  <1>1. /\ UNCHANGED <<current, slug, versions, indexes, replica, number, tool>>
        /\ \/ /\ pc' = [pc EXCEPT ![q] = "insertMeta"]
              /\ \E j \in [op : {"create"}, slug : CreateSlugs, name : PatchNames] :
                   job' = [job EXCEPT ![q] = j]
           \/ /\ pc' = [pc EXCEPT ![q] = "read"]
              /\ \E j \in [op : {"patch"}, record : DOMAIN current, name : PatchNames] :
                   job' = [job EXCEPT ![q] = j]
    BY DEF StartCreate, StartPatch, Arrive, Goto
  <1>2. RequestOK(q)'
    BY <1>1 DEF TypeInv, RequestOK
  <1>3. /\ DOMAIN pc' = Requests /\ DOMAIN job' = Requests
        /\ \A p \in Requests \ {q} : pc'[p] = pc[p] /\ job'[p] = job[p]
    BY <1>1 DEF TypeInv
  <1>4. \A p \in Requests : RequestOK(p)'
    BY <1>1, <1>2, <1>3, RequestsStay DEF TypeInv
  <1>5. /\ RolloutTypeOK'
        /\ \A v \in versions' : v.number \in Nat /\ v.name \in Names
        /\ DOMAIN tool' = Operators
    BY <1>1, StoreTypes DEF TypeInv, RolloutTypeOK
  <1> QED
    BY <1>1, <1>3, <1>4, <1>5 DEF TypeInv

LEMMA GotoTypes ==
  ASSUME TypeInv, NEW q \in Requests, NEW step, Goto(q, step), UNCHANGED job,
         number' \in [Requests -> Nat],
         \A p \in Requests \ {q} : number'[p] = number[p],
         DOMAIN current \subseteq DOMAIN current', RequestOK(q)'
  PROVE  /\ DOMAIN pc' = Requests /\ DOMAIN job' = Requests
         /\ \A p \in Requests : RequestOK(p)'
  <1>1. /\ DOMAIN pc' = Requests /\ DOMAIN job' = Requests
        /\ \A p \in Requests \ {q} : pc'[p] = pc[p] /\ job'[p] = job[p]
    BY DEF Goto, TypeInv
  <1> QED
    BY <1>1, RequestsStay DEF TypeInv

LEMMA CreateTypes ==
  ASSUME TypeInv, NEW q \in Requests,
         CreateInsertMeta(q) \/ CreateInsertVersion(q)
  PROVE  TypeInv'
  <1>1. UNCHANGED <<indexes, replica, job, number, tool>>
    BY DEF CreateInsertMeta, CreateInsertVersion
  <1>2. /\ DOMAIN current \subseteq DOMAIN current'
        /\ DOMAIN current' \subseteq DOMAIN current \cup {q}
        /\ DOMAIN slug' \subseteq DOMAIN current'
        /\ \A r \in DOMAIN current' : current'[r] \in Nat \ {0}
    <2>1. CASE CreateInsertMeta(q)
      <3>1. \/ UNCHANGED <<current, slug>>
            \/ current' = Put(current, q, 1) /\ slug' = Put(slug, q, job[q].slug)
        BY <2>1 DEF CreateInsertMeta
      <3> QED
        BY <3>1 DEF Put, TypeInv, RolloutTypeOK
    <2>2. CASE CreateInsertVersion(q)
      BY <2>2 DEF CreateInsertVersion, TypeInv, RolloutTypeOK
    <2> QED
      BY <2>1, <2>2
  <1>3. \A v \in versions' : /\ v.record \in DOMAIN current' /\ v.number > 0
                             /\ v.number \in Nat /\ v.name \in Names
    <2>1. CASE CreateInsertMeta(q)
      BY <1>2, <2>1 DEF CreateInsertMeta, TypeInv, RolloutTypeOK
    <2>2. CASE CreateInsertVersion(q)
      <3>1. q \in DOMAIN current /\ job[q].name \in Names
        BY <2>2, RolloutAssumption DEF CreateInsertVersion, TypeInv, RequestOK, Names
      <3> QED
        BY <1>2, <2>2, <3>1 DEF CreateInsertVersion, Doc, TypeInv, RolloutTypeOK
    <2> QED
      BY <2>1, <2>2
  <1>4. \E step \in {"refused", "insertFirst", "done"} :
          Goto(q, step) /\ (step = "insertFirst" => q \in DOMAIN current')
    BY DEF CreateInsertMeta, CreateInsertVersion, Put
  <1>5. pc[q] \in {"insertMeta", "insertFirst"}
    BY DEF CreateInsertMeta, CreateInsertVersion
  <1>6. RequestOK(q)'
    BY <1>1, <1>4, <1>5 DEF Goto, TypeInv, RequestOK
  <1>7. /\ RolloutTypeOK'
        /\ \A v \in versions' : v.number \in Nat /\ v.name \in Names
        /\ DOMAIN tool' = Operators
    BY <1>1, <1>2, <1>3, StoreTypes DEF TypeInv, RolloutTypeOK
  <1>8. /\ DOMAIN pc' = Requests /\ DOMAIN job' = Requests
        /\ \A p \in Requests : RequestOK(p)'
    BY <1>1, <1>2, <1>4, <1>6, GotoTypes DEF TypeInv
  <1> QED
    BY <1>1, <1>7, <1>8 DEF TypeInv

LEMMA PatchTypes ==
  ASSUME TypeInv, NEW q \in Requests,
         PatchRead(q) \/ PatchInsert(q) \/ PatchPoint(q)
  PROVE  TypeInv'
  <1> USE DEF store
  <1> DEFINE r == job[q].record
  <1>1. UNCHANGED <<slug, indexes, replica, job, tool>>
    BY DEF PatchRead, PatchInsert, PatchPoint
  <1>2. /\ pc[q] \in {"read", "insert", "point"} /\ r \in DOMAIN current
        /\ job[q].name \in PatchNames /\ job[q].name \in Names
        /\ pc[q] \in {"insert", "point"} => number[q] > 0
    BY RolloutAssumption
       DEF PatchRead, PatchInsert, PatchPoint, TypeInv, RequestOK, Names
  <1>3. DOMAIN current' = DOMAIN current
        /\ \A s \in DOMAIN current' : current'[s] \in Nat \ {0}
    <2>1. CASE UNCHANGED current
      BY <2>1 DEF TypeInv, RolloutTypeOK
    <2>2. CASE PatchPoint(q)
      <3>1. number[q] \in Nat \ {0} /\ current' = [current EXCEPT ![r] = number[q]]
        BY <1>2, <2>2 DEF PatchPoint, TypeInv
      <3> QED
        BY <3>1 DEF TypeInv, RolloutTypeOK
    <2> QED
      BY <2>1, <2>2 DEF PatchRead, PatchInsert
  <1>4. \A v \in versions' : /\ v.record \in DOMAIN current' /\ v.number > 0
                             /\ v.number \in Nat /\ v.name \in Names
    <2>1. CASE UNCHANGED versions
      BY <1>3, <2>1 DEF TypeInv, RolloutTypeOK
    <2>2. CASE PatchInsert(q)
      <3>1. number[q] \in Nat /\ number[q] > 0
        BY <1>2, <2>2 DEF PatchInsert, TypeInv
      <3>2. versions' \subseteq versions \cup {Doc(q, r, number[q], job[q].name)}
        BY <2>2 DEF PatchInsert
      <3> QED
        BY <1>2, <1>3, <3>1, <3>2 DEF Doc, TypeInv, RolloutTypeOK
    <2> QED
      BY <2>1, <2>2 DEF PatchRead, PatchPoint
  <1>5. /\ number' \in [Requests -> Nat]
        /\ \A p \in Requests \ {q} : number'[p] = number[p]
        /\ \E step \in {"refused", "insert", "point", "done"} :
             Goto(q, step) /\ (step \in {"insert", "point"} => number'[q] > 0)
    <2>1. CASE PatchRead(q)
      <3>1. \/ UNCHANGED number /\ Goto(q, "refused")
            \/ \E v \in versions : /\ number' = [number EXCEPT ![q] = v.number + 1]
                                   /\ Goto(q, "insert")
        BY <2>1 DEF PatchRead
      <3> QED
        BY <3>1 DEF TypeInv
    <2>2. CASE PatchInsert(q)
      BY <1>2, <2>2 DEF PatchInsert, TypeInv
    <2>3. CASE PatchPoint(q)
      BY <2>3 DEF PatchPoint, TypeInv
    <2> QED
      BY <2>1, <2>2, <2>3
  <1>6. RequestOK(q)'
    BY <1>1, <1>2, <1>3, <1>5 DEF Goto, TypeInv, RequestOK
  <1>7. /\ RolloutTypeOK'
        /\ \A v \in versions' : v.number \in Nat /\ v.name \in Names
        /\ DOMAIN tool' = Operators
    BY <1>1, <1>3, <1>4, StoreTypes DEF TypeInv, RolloutTypeOK
  <1>8. /\ DOMAIN pc' = Requests /\ DOMAIN job' = Requests
        /\ \A p \in Requests : RequestOK(p)'
    BY <1>1, <1>3, <1>5, <1>6, GotoTypes
  <1> QED
    BY <1>1, <1>5, <1>7, <1>8 DEF TypeInv

LEMMA MigrateTypes ==
  ASSUME TypeInv, NEW m \in Operators,
         Migrate(m) \/ MigrateLoadFails(m) \/ MigrateDies(m)
  PROVE  TypeInv'
  <1> USE DEF requests, Running
  <1>1. UNCHANGED <<current, versions, indexes, replica, pc, job, number>>
    BY DEF Migrate, MigrateList, MigrateLoad, MigrateUpdate, MigrateComplete,
           MigrateLoadFails, MigrateDies, Becomes
  <1>2. DOMAIN slug' \subseteq DOMAIN current
    <2>1. CASE UNCHANGED slug
      BY <2>1 DEF TypeInv, RolloutTypeOK
    <2>2. CASE MigrateUpdate(m)
      <3> DEFINE r == tool[m].record
      <3>1. \/ UNCHANGED slug
            \/ slug' = Put(slug, r, tool[m].id) /\ r \in DOMAIN current
        BY <2>2, MigrateStep DEF Missing
      <3>2. DOMAIN slug \subseteq DOMAIN current
        BY DEF TypeInv, RolloutTypeOK
      <3> HIDE DEF r
      <3> QED
        BY <3>1, <3>2 DEF Put
    <2> QED
      BY <2>1, <2>2 DEF Migrate, MigrateList, MigrateLoad, MigrateComplete,
                        MigrateLoadFails, MigrateDies
  <1>3. \E t : /\ Becomes(m, t)
               /\ t.step \in Running \cup {"off", "complete", "failed"}
               /\ \A x \in t.todo : x[1] \in DOMAIN current
    <2>1. CASE MigrateList(m)
      <3> DEFINE t == Between("scan", {<<r, current[r]>> : r \in Missing},
                              {slug[r] : r \in DOMAIN current \ Missing})
      <3>1. /\ t.step = "scan"
            /\ \A x \in t.todo : x[1] \in DOMAIN current
        BY DEF Between, Missing
      <3> QED
        BY <2>1, <3>1 DEF MigrateList
    <2>2. CASE MigrateLoad(m) \/ MigrateLoadFails(m)
      <3>1. PICK x \in tool[m].todo :
              \/ Becomes(m, Skipped(tool[m], x))
              \/ \E v \in versions : Becomes(m, Chosen(tool[m], x, v.name))
        BY <2>2 DEF MigrateLoad, MigrateLoadFails
      <3>2. /\ Skipped(tool[m], x).step = "scan"
            /\ Skipped(tool[m], x).todo \subseteq tool[m].todo
        BY DEF Skipped, Between
      <3>3. \A v \in versions : /\ Chosen(tool[m], x, v.name).step = "update"
                                /\ Chosen(tool[m], x, v.name).todo \subseteq tool[m].todo
        BY DEF Chosen
      <3> QED
        BY <3>1, <3>2, <3>3 DEF TypeInv, RolloutTypeOK
    <2>3. CASE MigrateUpdate(m)
      <3>1. \/ \E taken : Becomes(m, NextRecord(tool[m], taken))
            \/ Becomes(m, Ended("failed"))
        BY <2>3 DEF MigrateUpdate
      <3>2. /\ \A taken : /\ NextRecord(tool[m], taken).step = "scan"
                          /\ NextRecord(tool[m], taken).todo = tool[m].todo
            /\ Ended("failed").step = "failed" /\ Ended("failed").todo = {}
        BY DEF NextRecord, Ended, Between
      <3> QED
        BY <3>1, <3>2 DEF TypeInv, RolloutTypeOK
    <2>4. CASE MigrateComplete(m) \/ MigrateDies(m)
      BY <2>4 DEF MigrateComplete, MigrateDies, Ended, Between
    <2> QED
      BY <2>1, <2>2, <2>3, <2>4 DEF Migrate
  <1>4. /\ DOMAIN tool' = Operators
        /\ \A n \in Operators :
             /\ tool'[n].step \in Running \cup {"off", "complete", "failed"}
             /\ \A x \in tool'[n].todo : x[1] \in DOMAIN current
    <2>1. PICK t : /\ tool' = [tool EXCEPT ![m] = t]
                   /\ t.step \in Running \cup {"off", "complete", "failed"}
                   /\ \A x \in t.todo : x[1] \in DOMAIN current
      BY <1>3 DEF Becomes
    <2> QED
      BY <2>1 DEF TypeInv, RolloutTypeOK
  <1>5. RolloutTypeOK'
    BY <1>1, <1>2, <1>4 DEF TypeInv, RolloutTypeOK
  <1> QED
    BY <1>1, <1>4, <1>5 DEF TypeInv, RequestOK

LEMMA TypeStep ==
  ASSUME TypeInv, [Next]_vars
  PROVE  TypeInv'
  <1>1. CASE UNCHANGED vars
    BY <1>1 DEF vars, store, requests, TypeInv, RolloutTypeOK, RequestOK
  <1> QED
    BY <1>1, StartupTypes, ArriveTypes, CreateTypes, PatchTypes, MigrateTypes
       DEF Next, Serve

(* Pointers and version numbers are positive and belong to records that     *)
(* exist, as do the records a run of the migration still has to do, however *)
(* replicas, operators and requests overtake each other.                    *)
THEOREM RolloutTypeCorrect == Spec => []RolloutTypeOK
  <1>1. TypeInv => RolloutTypeOK
    BY DEF TypeInv
  <1> QED
    BY <1>1, TypeInit, TypeStep, PTL DEF Spec

-----------------------------------------------------------------------------
(* The suffixes. Of the slug itself and -2, -3, ... one more is tried than  *)
(* there are slugs taken, so one of them is free.                           *)

LEMMA LeastExists ==
  ASSUME NEW T, T \subseteq Nat, T # {}
  PROVE  \E n \in T : \A k \in T : n <= k
  <1> DEFINE R == OpToRel(<, Nat)
  <1>1. PICK n \in T : \A k \in T : ~ (<<k, n>> \in R)
    <2>1. IsWellFoundedOn(R, Nat)
      BY NatLessThanWellFounded
    <2> HIDE DEF R
    <2> QED
      BY <2>1, WFMin
  <1>2. \A k \in T : ~ (k < n)
    BY <1>1 DEF OpToRel
  <1> QED
    BY <1>2

Limit == Cardinality(Legacy \cup Requests) + 2

LEMMA LimitType == Limit \in Nat
  <1>1. IsFiniteSet(Legacy \cup Requests)
    BY RolloutAssumption, FS_Union
  <1>2. Cardinality(Legacy \cup Requests) \in Nat
    BY <1>1, FS_CardinalityType
  <1> QED
    BY <1>2 DEF Limit

(* A suffix ends the slug, so different numerals make different slugs, and  *)
(* all are longer than the slug without one.                                *)
LEMMA SuffixedShape ==
  ASSUME NEW S, NEW base \in Seq(S), NEW k \in Nat
  PROVE  LET stem == IF base = <<>> THEN <<"">> ELSE base
         IN  /\ Len(stem) \in Nat /\ Len(stem) >= Len(base)
             /\ Len(Suffixed(base, k)) = Len(stem) + 1
             /\ Suffixed(base, k)[Len(stem) + 1] = Numeral(k)
  <1> DEFINE stem == IF base = <<>> THEN <<"">> ELSE base
             last == Numeral(k)
             T == S \cup {"", last}
             dash == ""
  <1>1. S \subseteq T /\ last \in T /\ dash \in T
    OBVIOUS
  <1> HIDE DEF T, last, dash
  <1>2. base \in Seq(T) /\ Len(base) \in Nat
    BY <1>1
  <1>3. <<last>> \in Seq(T) /\ <<dash>> \in Seq(T) /\ Len(<<dash>>) = 1
    BY <1>1
  <1>4. stem \in Seq(T) /\ Len(stem) \in Nat /\ Len(stem) >= Len(base)
    <2>1. CASE base = <<>>
      <3>1. stem = <<dash>> /\ Len(base) = 0
        BY <2>1 DEF dash
      <3> HIDE DEF stem
      <3> QED
        BY <1>3, <3>1
    <2>2. CASE base # <<>>
      <3>1. stem = base
        BY <2>2
      <3> HIDE DEF stem
      <3> QED
        BY <1>2, <3>1
    <2> QED
      BY <2>1, <2>2
  <1>5. Suffixed(base, k) = stem \o <<last>>
    BY DEF Suffixed, last
  <1> HIDE DEF stem
  <1>6. /\ Len(stem \o <<last>>) = Len(stem) + 1
        /\ (stem \o <<last>>)[Len(stem) + 1] = last
    BY <1>1, <1>4
  <1> QED
    BY <1>4, <1>5, <1>6 DEF stem, last

LEMMA CandidatesDiffer ==
  ASSUME NEW S, NEW base \in Seq(S),
         NEW m \in 1 .. Limit, NEW n \in 1 .. Limit, m # n
  PROVE  Candidate(base, m) # Candidate(base, n)
  <1> DEFINE stem == IF base = <<>> THEN <<"">> ELSE base
             L == Len(stem)
             M == Len(base)
  <1>0. m \in Nat /\ n \in Nat /\ M \in Nat
    BY LimitType
  <1>1. /\ L \in Nat /\ L >= M
        /\ Len(Suffixed(base, m)) = L + 1 /\ Len(Suffixed(base, n)) = L + 1
        /\ Suffixed(base, m)[L + 1] = Numeral(m)
        /\ Suffixed(base, n)[L + 1] = Numeral(n)
    BY <1>0, SuffixedShape
  <1>2. Len(base) = M
    OBVIOUS
  <1> HIDE DEF L, M
  <1>3. CASE m = 1 \/ n = 1
    BY <1>0, <1>1, <1>2, <1>3 DEF Candidate
  <1>4. CASE m # 1 /\ n # 1
    <2>1. Numeral(m) # Numeral(n)
      <3>1. \A i, j \in 2 .. Limit : Numeral(i) = Numeral(j) => i = j
        BY NumeralsDiffer DEF Limit
      <3>2. m \in 2 .. Limit /\ n \in 2 .. Limit
        BY <1>0, <1>4, LimitType
      <3> QED
        BY <3>1, <3>2
    <2>2. Suffixed(base, m) # Suffixed(base, n)
      BY <1>1, <2>1
    <2> QED
      BY <1>4, <2>2 DEF Candidate
  <1> QED
    BY <1>3, <1>4

LEMMA FreshSlugFree ==
  ASSUME NEW S, NEW base \in Seq(S), NEW taken, IsFiniteSet(taken),
         Cardinality(taken) < Limit
  PROVE  /\ FreshSlug(base, taken) \notin taken
         /\ \E k \in Nat : FreshSlug(base, taken) = Candidate(base, k)
  <1> DEFINE N == Cardinality(taken) + 1
             free == {n \in 1 .. N : Candidate(base, n) \notin taken}
  <1>1. N \in Nat /\ 1 <= N /\ N <= Limit /\ Cardinality(taken) < N
    <2>1. Cardinality(taken) \in Nat /\ Limit \in Nat
      BY FS_CardinalityType, LimitType
    <2> QED
      BY <2>1
  <1>2. free # {}
    <2> SUFFICES ASSUME free = {} PROVE FALSE
      OBVIOUS
    <2> DEFINE f == [n \in 1 .. N |-> Candidate(base, n)]
    <2>1. f \in [1 .. N -> taken]
      OBVIOUS
    <2>2. IsFiniteSet(1 .. N) /\ Cardinality(1 .. N) = N
      <3> HIDE DEF N
      <3>1. IsFiniteSet(1 .. N) /\ Cardinality(1 .. N) = IF 1 > N THEN 0 ELSE N - 1 + 1
        BY <1>1, FS_Interval
      <3> QED
        BY <1>1, <3>1
    <2>3. Cardinality(taken) < Cardinality(1 .. N)
      BY <1>1, <2>2
    <2>4. PICK x \in 1 .. N, y \in 1 .. N : x # y /\ f[x] = f[y]
      <3> DEFINE I == 1 .. N
      <3>1. f \in [I -> taken] /\ IsFiniteSet(I) /\ Cardinality(taken) < Cardinality(I)
        BY <2>1, <2>2, <2>3
      <3> HIDE DEF f, I
      <3>2. \E x, y \in I : x # y /\ f[x] = f[y]
        BY <3>1, FS_PigeonHole
      <3> QED
        BY <3>2 DEF I
    <2>5. x \in 1 .. Limit /\ y \in 1 .. Limit
      <3> HIDE DEF N
      <3> QED
        BY <1>1, <2>4, LimitType
    <2> QED
      BY <2>4, <2>5, CandidatesDiffer
  <1>3. PICK n \in free : \A k \in free : n <= k
    <2>1. free \subseteq Nat
      BY <1>1
    <2> HIDE DEF free
    <2> QED
      BY <1>2, <2>1, LeastExists
  <1>4. \E k \in free : FreshSlug(base, taken) = Candidate(base, k)
    <2> DEFINE first == CHOOSE k \in free : \A j \in free : k <= j
    <2>1. first \in free
      BY <1>3
    <2>2. FreshSlug(base, taken) = Candidate(base, first)
      BY DEF FreshSlug
    <2> QED
      BY <2>1, <2>2
  <1> QED
    BY <1>1, <1>4

LEMMA slugifyType ==
  ASSUME NEW name \in Names
  PROVE  \E S : slugify(name) \in Seq(S)
  <1> DEFINE kept == {i \in DOMAIN name : name[i] # Punct}
             S == {slugify(name)[k] : k \in 1 .. Cardinality(kept)}
  <1>1. IsFiniteSet(kept)
    <2>1. DOMAIN name = 1 .. Len(name) /\ Len(name) \in Nat
      BY DEF Names
    <2>2. IsFiniteSet(DOMAIN name)
      BY <2>1, FS_Interval
    <2> QED
      BY <2>2, FS_Subset
  <1>2. Cardinality(kept) \in Nat
    BY <1>1, FS_CardinalityType
  <1>3. slugify(name) = [k \in 1 .. Cardinality(kept) |-> slugify(name)[k]]
    BY DEF slugify
  <1> DEFINE f == slugify(name)
  <1>4. f = [k \in 1 .. Cardinality(kept) |-> f[k]]
        /\ \A k \in 1 .. Cardinality(kept) : f[k] \in S
    BY <1>3
  <1> HIDE DEF kept, f, S
  <1>5. f \in [1 .. Cardinality(kept) -> S]
    BY <1>4
  <1>6. f \in Seq(S)
    BY <1>2, <1>5
  <1> QED
    BY <1>6 DEF f

-----------------------------------------------------------------------------
(* The bookkeeping of a run.                                                *)

InUse == {slug[r] : r \in DOMAIN slug}

(* What is taken is in use, and the slug chosen is not taken.               *)
Booked(m) ==
    /\ tool[m].taken \subseteq InUse \cup {<<>>}
    /\ tool[m].step = "update" => tool[m].id \notin tool[m].taken

(* What is in use is taken, as long as nobody else hands out slugs.         *)
Covered(m) ==
    tool[m].step \in Running =>
      \A r \in DOMAIN slug : slug[r] # <<>> => slug[r] \in tool[m].taken

(* A name without letters or digits slugifies to "", which counts as none.  *)
DistinctButEmpty ==
    \A r, s \in DOMAIN slug : slug[r] = slug[s] => r = s \/ slug[r] = <<>>

SlugInv ==
    /\ TypeInv /\ NotYet
    /\ \A m \in Operators : Booked(m)
    /\ Undisturbed => DistinctButEmpty /\ \A m \in Operators : Covered(m)

(* How a run's variables can change.                                        *)
Lists(t) ==
    /\ t.step = "scan" /\ t.taken = {slug[r] : r \in DOMAIN current \ Missing}
    /\ UNCHANGED slug

Chooses(m, t) ==
    /\ tool[m].step \in Running /\ t.step \in Running
    /\ t.taken = tool[m].taken
    /\ t.step = "update" =>
         \E v \in versions : t.id = FreshSlug(slugify(v.name), t.taken)
    /\ UNCHANGED slug

Writes(m, t) ==
    /\ tool[m].step = "update" /\ tool[m].record \in Missing
    /\ slug' = Put(slug, tool[m].record, tool[m].id)
    /\ t.step = "scan" /\ t.taken = tool[m].taken \cup {tool[m].id}

Stops(t) == t.step \in {"complete", "failed"} /\ t.taken = {} /\ UNCHANGED slug

LEMMA RunSteps ==
  ASSUME NEW m \in Operators,
         Migrate(m) \/ MigrateLoadFails(m) \/ MigrateDies(m)
  PROVE  \E t : /\ tool' = [tool EXCEPT ![m] = t]
                /\ Lists(t) \/ Chooses(m, t) \/ Writes(m, t) \/ Stops(t)
  <1> USE DEF Becomes, Running
  <1>1. CASE MigrateList(m)
    <2> DEFINE t == Between("scan", {<<r, current[r]>> : r \in Missing},
                            {slug[r] : r \in DOMAIN current \ Missing})
    <2>1. Lists(t)
      BY <1>1 DEF MigrateList, Between, Lists
    <2> QED
      BY <1>1, <2>1 DEF MigrateList
  <1>2. CASE MigrateLoad(m) \/ MigrateLoadFails(m)
    <2>1. PICK x \in tool[m].todo :
            \/ Becomes(m, Skipped(tool[m], x))
            \/ \E v \in versions : Becomes(m, Chosen(tool[m], x, v.name))
      BY <1>2 DEF MigrateLoad, MigrateLoadFails
    <2>2. tool[m].step = "scan" /\ UNCHANGED slug
      BY <1>2 DEF MigrateLoad, MigrateLoadFails
    <2>3. Chooses(m, Skipped(tool[m], x))
      BY <2>2 DEF Skipped, Between, Chooses
    <2>4. \A v \in versions : Chooses(m, Chosen(tool[m], x, v.name))
      BY <2>2 DEF Chosen, Chooses
    <2> QED
      BY <2>1, <2>3, <2>4
  <1>3. CASE MigrateUpdate(m)
    <2> DEFINE taken == tool[m].taken
               id == tool[m].id
    <2>1. \/ Becomes(m, NextRecord(tool[m], taken)) /\ UNCHANGED slug
          \/ Becomes(m, Ended("failed")) /\ UNCHANGED slug
          \/ /\ tool[m].record \in Missing
             /\ slug' = Put(slug, tool[m].record, id)
             /\ Becomes(m, NextRecord(tool[m], taken \cup {id}))
      BY <1>3 DEF MigrateUpdate, Matches
    <2>2. tool[m].step = "update"
      BY <1>3 DEF MigrateUpdate
    <2>3. UNCHANGED slug => Chooses(m, NextRecord(tool[m], taken))
      BY <2>2 DEF NextRecord, Between, Chooses
    <2>4. UNCHANGED slug => Stops(Ended("failed"))
      BY DEF Ended, Between, Stops
    <2>5. tool[m].record \in Missing /\ slug' = Put(slug, tool[m].record, id)
            => Writes(m, NextRecord(tool[m], taken \cup {id}))
      BY <2>2 DEF NextRecord, Between, Writes
    <2> QED
      BY <2>1, <2>3, <2>4, <2>5
  <1>4. CASE MigrateComplete(m) \/ MigrateDies(m)
    <2>1. PICK step \in {"complete", "failed"} :
            Becomes(m, Ended(step)) /\ UNCHANGED slug
      BY <1>4 DEF MigrateComplete, MigrateDies
    <2>2. Stops(Ended(step))
      BY <2>1 DEF Ended, Between, Stops
    <2> QED
      BY <2>1, <2>2
  <1> QED
    BY <1>1, <1>2, <1>3, <1>4 DEF Migrate

(* No other step touches a run's variables, and only a create a slug.       *)
LEMMA ServiceSteps ==
  ASSUME NotYet, [Next]_vars,
         ~ \E m \in Operators :
             Migrate(m) \/ MigrateLoadFails(m) \/ MigrateDies(m)
  PROVE  /\ UNCHANGED tool
         /\ \/ UNCHANGED slug
            \/ \E q \in Requests : /\ pc[q] = "insertMeta" /\ UNCHANGED job
                                   /\ slug' = Put(slug, q, job[q].slug)
                                   /\ q \notin DOMAIN slug
  <1> USE DEF vars, store, requests
  <1>1. CASE UNCHANGED vars
    BY <1>1
  <1>2. ASSUME NEW p \in Replicas, \/ Boot(p) \/ EnsureIndex(p)
               \/ EnsureIndexFails(p) \/ Crash(p) \/ Redeploy(p)
        PROVE  UNCHANGED <<slug, tool>>
    BY <1>2 DEF Boot, EnsureIndex, EnsureIndexFails, Crash, Redeploy
  <1>3. ASSUME NEW q \in Requests,
               \/ StartCreate(q) \/ StartPatch(q) \/ CreateInsertVersion(q)
               \/ PatchRead(q) \/ PatchInsert(q) \/ PatchPoint(q)
        PROVE  UNCHANGED <<slug, tool>>
    BY <1>3 DEF StartCreate, StartPatch, Arrive, CreateInsertVersion, PatchRead,
                PatchInsert, PatchPoint
  <1>4. ASSUME NEW q \in Requests, CreateInsertMeta(q)
        PROVE  /\ UNCHANGED <<tool, job>> /\ pc[q] = "insertMeta"
               /\ \/ UNCHANGED slug
                  \/ slug' = Put(slug, q, job[q].slug) /\ q \notin DOMAIN slug
    BY <1>4, CreateStep DEF CreateInsertMeta
  <1> QED
    BY <1>1, <1>2, <1>3, <1>4 DEF Next, Serve

(* So a run always finds a free suffix among those that it tries.           *)
LEMMA TakenFinite ==
  ASSUME TypeInv, NEW m \in Operators, Booked(m)
  PROVE  IsFiniteSet(tool[m].taken) /\ Cardinality(tool[m].taken) < Limit
  <1> DEFINE f == [r \in DOMAIN slug |-> slug[r]]
             all == Legacy \cup Requests
             some == InUse \cup {<<>>}
             D == DOMAIN slug
  <1>1. IsFiniteSet(all) /\ Cardinality(all) \in Nat /\ Limit = Cardinality(all) + 2
    BY RolloutAssumption, FS_Union, FS_CardinalityType DEF Limit
  <1>2. D \in SUBSET all
    BY DEF TypeInv, RolloutTypeOK
  <1>3. f \in Surjection(D, InUse)
    BY DEF Surjection, InUse
  <1>4. tool[m].taken \in SUBSET some
    BY DEF Booked
  <1> HIDE DEF f, all, some, D
  <1>5. IsFiniteSet(D) /\ Cardinality(D) \in Nat /\ Cardinality(D) <= Cardinality(all)
    BY <1>1, <1>2, FS_Subset, FS_CardinalityType
  <1>6. IsFiniteSet(InUse) /\ Cardinality(InUse) <= Cardinality(D)
    BY <1>3, <1>5, FS_Surjection
  <1>7. Cardinality(InUse) \in Nat
    BY <1>6, FS_CardinalityType
  <1>8. /\ IsFiniteSet(some) /\ Cardinality(some) \in Nat
        /\ Cardinality(some) <= Cardinality(InUse) + 1
    <2>1. /\ IsFiniteSet(some)
          /\ Cardinality(some) = IF <<>> \in InUse THEN Cardinality(InUse)
                                 ELSE Cardinality(InUse) + 1
      BY <1>6, FS_AddElement DEF some
    <2> QED
      BY <1>7, <2>1
  <1>9. /\ IsFiniteSet(tool[m].taken) /\ Cardinality(tool[m].taken) \in Nat
        /\ Cardinality(tool[m].taken) <= Cardinality(some)
    BY <1>4, <1>8, FS_Subset, FS_CardinalityType
  <1> QED
    BY <1>1, <1>5, <1>6, <1>7, <1>8, <1>9

LEMMA ChosenFree ==
  ASSUME TypeInv, NEW m \in Operators, Booked(m), NEW v \in versions
  PROVE  FreshSlug(slugify(v.name), tool[m].taken) \notin tool[m].taken
  <1>1. v.name \in Names
    BY DEF TypeInv
  <1>2. PICK S : slugify(v.name) \in Seq(S)
    BY <1>1, slugifyType
  <1> QED
    BY <1>2, TakenFinite, FreshSlugFree

(* A slug, once there, stays in use.                                        *)
LEMMA PutKeeps ==
  ASSUME NEW x, NEW y, slug' = Put(slug, x, y), x \notin DOMAIN slug \/ slug[x] = <<>>
  PROVE  /\ DOMAIN slug' = DOMAIN slug \cup {x} /\ slug'[x] = y
         /\ \A r \in DOMAIN slug \ {x} : slug'[r] = slug[r]
         /\ InUse \subseteq InUse' \cup {<<>>}
         /\ y \in InUse'
  <1> DEFINE new == Put(slug, x, y)
  <1>1. /\ DOMAIN new = DOMAIN slug \cup {x} /\ new[x] = y
        /\ \A r \in DOMAIN slug \ {x} : new[r] = slug[r]
    BY DEF Put
  <1>2. slug' = new
    OBVIOUS
  <1> HIDE DEF new
  <1>3. /\ DOMAIN slug' = DOMAIN slug \cup {x} /\ slug'[x] = y
        /\ \A r \in DOMAIN slug \ {x} : slug'[r] = slug[r]
    BY <1>1, <1>2
  <1>4. \A r \in DOMAIN slug : (r = x /\ slug[r] = <<>>) \/ slug[r] \in InUse'
    BY <1>3 DEF InUse
  <1> QED
    BY <1>3, <1>4 DEF InUse

LEMMA BookedStep ==
  ASSUME SlugInv, [Next]_vars
  PROVE  \A m \in Operators : Booked(m)'
  <1>1. InUse \subseteq InUse' \cup {<<>>}
    <2>1. CASE UNCHANGED slug
      BY <2>1 DEF InUse
    <2>2. CASE \E x, y : /\ slug' = Put(slug, x, y)
                         /\ x \notin DOMAIN slug \/ slug[x] = <<>>
      BY <2>2, PutKeeps
    <2>3. ASSUME NEW m \in Operators,
                 Migrate(m) \/ MigrateLoadFails(m) \/ MigrateDies(m)
          PROVE  InUse \subseteq InUse' \cup {<<>>}
      BY <2>1, <2>2, <2>3, RunSteps DEF Lists, Chooses, Writes, Stops, Missing
    <2> QED
      BY <2>1, <2>2, <2>3, ServiceSteps DEF SlugInv
  <1>2. ASSUME NEW n \in Operators, tool'[n] = tool[n]
        PROVE  Booked(n)'
    BY <1>1, <1>2 DEF SlugInv, Booked
  <1>3. CASE UNCHANGED tool
    BY <1>2, <1>3
  <1>4. ASSUME NEW m \in Operators,
               Migrate(m) \/ MigrateLoadFails(m) \/ MigrateDies(m)
        PROVE  \A n \in Operators : Booked(n)'
    <2>1. PICK t : /\ tool' = [tool EXCEPT ![m] = t]
                   /\ Lists(t) \/ Chooses(m, t) \/ Writes(m, t) \/ Stops(t)
      BY <1>4, RunSteps
    <2>2. tool'[m] = t /\ \A n \in Operators \ {m} : tool'[n] = tool[n]
      BY <2>1 DEF SlugInv, TypeInv
    <2>3. CASE Lists(t)
      <3>1. t.taken \subseteq InUse' /\ t.step # "update"
        BY <2>3 DEF Lists, Missing, InUse, SlugInv, TypeInv, RolloutTypeOK
      <3> QED
        BY <1>2, <2>2, <3>1 DEF Booked
    <2>4. CASE Chooses(m, t)
      <3>1. t.taken \subseteq InUse' \cup {<<>>}
        BY <1>1, <2>4 DEF Chooses, SlugInv, Booked
      <3>2. t.step = "update" => t.id \notin t.taken
        BY <2>4, ChosenFree DEF Chooses, SlugInv
      <3> QED
        BY <1>2, <2>2, <3>1, <3>2 DEF Booked
    <2>5. CASE Writes(m, t)
      <3>1. tool[m].id \in InUse'
        BY <2>5, PutKeeps DEF Writes, Missing
      <3>2. t.taken \subseteq InUse' \cup {<<>>} /\ t.step # "update"
        BY <1>1, <2>5, <3>1 DEF Writes, SlugInv, Booked
      <3> QED
        BY <1>2, <2>2, <3>2 DEF Booked
    <2>6. CASE Stops(t)
      BY <1>2, <2>2, <2>6 DEF Booked, Stops
    <2> QED
      BY <2>1, <2>3, <2>4, <2>5, <2>6
  <1> QED
    BY <1>3, <1>4, ServiceSteps DEF SlugInv

(* A second operator or a create, once there, is not forgotten.             *)
LEMMA UndisturbedBefore ==
  ASSUME SlugInv, [Next]_vars, Undisturbed'
  PROVE  Undisturbed
  <1>1. \A m \in Operators : tool'[m].step = "off" => tool[m].step = "off"
    <2>1. ASSUME NEW m \in Operators,
                 Migrate(m) \/ MigrateLoadFails(m) \/ MigrateDies(m)
          PROVE  \A n \in Operators : tool'[n].step = "off" => tool[n].step = "off"
      <3>1. PICK t : tool' = [tool EXCEPT ![m] = t] /\ t.step # "off"
        BY <2>1, RunSteps DEF Lists, Chooses, Writes, Stops, Running
      <3> QED
        BY <3>1 DEF SlugInv, TypeInv
    <2> QED
      BY <2>1, ServiceSteps DEF SlugInv
  <1>2. \A q \in Requests : job[q].op = "create" => job'[q].op = "create"
    <2> USE DEF vars, requests
    <2>1. CASE UNCHANGED job
      BY <2>1
    <2>2. ASSUME NEW q \in Requests, StartCreate(q) \/ StartPatch(q)
          PROVE  \A p \in Requests : job[p].op = "create" => job'[p].op = "create"
      <3>1. pc[q] = "idle" /\ \E j : job' = [job EXCEPT ![q] = j]
        BY <2>2 DEF StartCreate, StartPatch, Arrive
      <3>2. job[q].op = "none"
        BY <3>1 DEF SlugInv, TypeInv, RequestOK, NoJob
      <3> QED
        BY <3>1, <3>2 DEF SlugInv, TypeInv
    <2>3. ASSUME NEW q \in Requests, Serve(q)
          PROVE  UNCHANGED job
      BY <2>3 DEF Serve, CreateInsertMeta, CreateInsertVersion, PatchRead,
                  PatchInsert, PatchPoint
    <2>4. ASSUME NEW p \in Replicas, \/ Boot(p) \/ EnsureIndex(p)
                 \/ EnsureIndexFails(p) \/ Crash(p) \/ Redeploy(p)
          PROVE  UNCHANGED job
      BY <2>4 DEF Boot, EnsureIndex, EnsureIndexFails, Crash, Redeploy
    <2>5. ASSUME NEW m \in Operators,
                 Migrate(m) \/ MigrateLoadFails(m) \/ MigrateDies(m)
          PROVE  UNCHANGED job
      BY <2>5 DEF Migrate, MigrateList, MigrateLoad, MigrateUpdate,
                  MigrateComplete, MigrateLoadFails, MigrateDies, Becomes
    <2> QED
      BY <2>1, <2>2, <2>3, <2>4, <2>5 DEF Next
  <1> QED
    BY <1>1, <1>2 DEF Undisturbed

(* A run that is alone gives no record a slug that another one has.         *)
LEMMA AloneStep ==
  ASSUME SlugInv, [Next]_vars, Undisturbed'
  PROVE  DistinctButEmpty' /\ \A m \in Operators : Covered(m)'
  <1>1. /\ Undisturbed /\ DistinctButEmpty
        /\ \A m \in Operators : Covered(m)
    BY UndisturbedBefore DEF SlugInv
  <1>2. UNCHANGED slug => DistinctButEmpty'
    BY <1>1 DEF DistinctButEmpty
  <1>3. ASSUME UNCHANGED slug, NEW n \in Operators, tool'[n] = tool[n]
        PROVE  Covered(n)'
    BY <1>1, <1>3 DEF Covered
  <1>4. ASSUME NEW m \in Operators,
               Migrate(m) \/ MigrateLoadFails(m) \/ MigrateDies(m)
        PROVE  DistinctButEmpty' /\ \A n \in Operators : Covered(n)'
    <2>1. PICK t : /\ tool' = [tool EXCEPT ![m] = t]
                   /\ Lists(t) \/ Chooses(m, t) \/ Writes(m, t) \/ Stops(t)
      BY <1>4, RunSteps
    <2>2. tool'[m] = t /\ \A n \in Operators \ {m} : tool'[n] = tool[n]
      BY <2>1 DEF SlugInv, TypeInv
    <2>3. CASE Lists(t)
      <3>1. \A r \in DOMAIN slug : slug[r] # <<>> => slug[r] \in t.taken
        BY <2>3 DEF Lists, Missing, SlugInv, TypeInv, RolloutTypeOK
      <3>2. UNCHANGED slug
        BY <2>3 DEF Lists
      <3> QED
        BY <1>2, <1>3, <2>2, <3>1, <3>2 DEF Covered
    <2>4. CASE Chooses(m, t)
      <3>1. Covered(m)'
        BY <1>1, <2>2, <2>4 DEF Covered, Chooses
      <3> QED
        BY <1>2, <1>3, <2>2, <2>4, <3>1 DEF Chooses
    <2>5. CASE Writes(m, t)
      <3> DEFINE x == tool[m].record
                 y == tool[m].id
      <3>1. /\ tool[m].step = "update" /\ t.taken = tool[m].taken \cup {y}
            /\ slug' = Put(slug, x, y)
            /\ x \notin DOMAIN slug \/ slug[x] = <<>>
        BY <2>5 DEF Writes, Missing
      <3>2. /\ y \notin tool[m].taken
            /\ \A r \in DOMAIN slug : slug[r] # <<>> => slug[r] \in tool[m].taken
        BY <1>1, <3>1 DEF SlugInv, Booked, Covered, Running
      <3>3. \A n \in Operators \ {m} : tool[n].step = "off"
        BY <1>1, <3>1 DEF Undisturbed
      <3> HIDE DEF x, y
      <3>4. /\ DOMAIN slug' = DOMAIN slug \cup {x} /\ slug'[x] = y
            /\ \A r \in DOMAIN slug \ {x} : slug'[r] = slug[r]
        BY <3>1, PutKeeps
      <3>5. DistinctButEmpty'
        BY <1>1, <3>2, <3>4 DEF DistinctButEmpty
      <3>6. Covered(m)'
        BY <2>2, <3>1, <3>2, <3>4 DEF Covered
      <3>7. \A n \in Operators \ {m} : Covered(n)'
        BY <2>2, <3>3 DEF Covered, Running
      <3> QED
        BY <3>5, <3>6, <3>7
    <2>6. CASE Stops(t)
      <3>1. Covered(m)'
        BY <2>2, <2>6 DEF Covered, Stops, Running
      <3> QED
        BY <1>2, <1>3, <2>2, <2>6, <3>1 DEF Stops
    <2> QED
      BY <2>1, <2>3, <2>4, <2>5, <2>6
  <1>5. ASSUME NEW q \in Requests, pc[q] = "insertMeta", UNCHANGED job
        PROVE  FALSE
    <2>1. job'[q].op = "create"
      BY <1>5 DEF SlugInv, TypeInv, RequestOK
    <2> QED
      BY <2>1 DEF Undisturbed
  <1> QED
    BY <1>2, <1>3, <1>4, <1>5, ServiceSteps DEF SlugInv

(* The slugs that some records have at the start differ.                    *)
LegacyDistinct ==
    \A r, s \in DOMAIN LegacySlug : LegacySlug[r] = LegacySlug[s] => r = s

LEMMA SlugInit ==
  ASSUME LegacyDistinct, Init
  PROVE  SlugInv
  <1>1. \A m \in Operators : tool[m].step = "off" /\ tool[m].taken = {}
    BY DEF Init, Ended, Between
  <1>2. DistinctButEmpty
    BY DEF LegacyDistinct, DistinctButEmpty, Init
  <1> QED
    BY <1>1, <1>2, TypeInit, InitNotYet DEF SlugInv, Booked, Covered, Running

LEMMA SlugStep ==
  ASSUME SlugInv, [Next]_vars
  PROVE  SlugInv'
  BY TypeStep, NotYetStep, BookedStep, AloneStep DEF SlugInv

(* One operator's runs, wherever they end and however often they are begun  *)
(* again, give no two records the same slug, nor one that was in use,       *)
(* without the index; but a name without letters or digits gets "", which   *)
(* the next run does not count as taken: two records may hold that until    *)
(* one of them gets another.                                                *)
THEOREM OperatorAlwaysDistinct ==
  ASSUME LegacyDistinct
  PROVE  Spec => [](Undisturbed => DistinctButEmpty)
  <1>1. Init => SlugInv
    BY SlugInit
  <1>2. SlugInv /\ [Next]_vars => SlugInv'
    BY SlugStep
  <1>3. SlugInv => (Undisturbed => DistinctButEmpty)
    BY DEF SlugInv
  <1> QED
    BY <1>1, <1>2, <1>3, PTL DEF Spec

-----------------------------------------------------------------------------
(* With a letter or digit in every name nobody ever gets the slug "".       *)

NamesHaveSlugs ==
    /\ \A r \in Legacy : slugify(LegacyName[r]) # <<>>
    /\ \A name \in PatchNames : slugify(name) # <<>>

Slugged ==
    /\ \A v \in versions : slugify(v.name) # <<>>
    /\ \A m \in Operators : tool[m].step = "update" => tool[m].id # <<>>
    /\ \A r \in DOMAIN slug : slug[r] # <<>>

LEMMA ChosenNotEmpty ==
  ASSUME TypeInv, NEW m \in Operators, Booked(m), NEW v \in versions,
         slugify(v.name) # <<>>
  PROVE  FreshSlug(slugify(v.name), tool[m].taken) # <<>>
  <1> DEFINE base == slugify(v.name)
             taken == tool[m].taken
  <1>1. v.name \in Names
    BY DEF TypeInv
  <1>2. PICK S : base \in Seq(S)
    BY <1>1, slugifyType
  <1>3. IsFiniteSet(taken) /\ Cardinality(taken) < Limit
    BY TakenFinite
  <1>4. base # <<>>
    OBVIOUS
  <1> HIDE DEF base, taken
  <1>5. PICK k \in Nat : FreshSlug(base, taken) = Candidate(base, k)
    BY <1>2, <1>3, FreshSlugFree
  <1>6. k = 1 => FreshSlug(base, taken) # <<>>
    BY <1>4, <1>5 DEF Candidate
  <1>7. ASSUME k # 1
        PROVE  FreshSlug(base, taken) # <<>>
    <2>1. Candidate(base, k) = Suffixed(base, k)
      BY <1>7 DEF Candidate
    <2> DEFINE L == Len(IF base = <<>> THEN <<"">> ELSE base)
    <2>2. L \in Nat /\ Len(Suffixed(base, k)) = L + 1
      BY <1>2, SuffixedShape
    <2> HIDE DEF L
    <2>3. Suffixed(base, k) # <<>>
      BY <2>2
    <2> QED
      BY <1>5, <2>1, <2>3
  <1> QED
    BY <1>6, <1>7 DEF base, taken

LEMMA NamesStep ==
  ASSUME TypeInv, [Next]_vars
  PROVE  \A v \in versions' : v \in versions \/ v.name \in PatchNames
  <1> USE DEF vars, store, requests
  <1>1. ASSUME NEW q \in Requests, CreateInsertVersion(q) \/ PatchInsert(q)
        PROVE  \A v \in versions' : v \in versions \/ v.name \in PatchNames
    BY <1>1 DEF CreateInsertVersion, PatchInsert, Doc, TypeInv, RequestOK
  <1>2. ASSUME NEW q \in Requests,
               \/ StartCreate(q) \/ StartPatch(q) \/ CreateInsertMeta(q)
               \/ PatchRead(q) \/ PatchPoint(q)
        PROVE  UNCHANGED versions
    BY <1>2 DEF StartCreate, StartPatch, Arrive, CreateInsertMeta, PatchRead,
                PatchPoint
  <1>3. ASSUME NEW p \in Replicas, \/ Boot(p) \/ EnsureIndex(p)
               \/ EnsureIndexFails(p) \/ Crash(p) \/ Redeploy(p)
        PROVE  UNCHANGED versions
    BY <1>3 DEF Boot, EnsureIndex, EnsureIndexFails, Crash, Redeploy
  <1>4. ASSUME NEW m \in Operators,
               Migrate(m) \/ MigrateLoadFails(m) \/ MigrateDies(m)
        PROVE  UNCHANGED versions
    BY <1>4 DEF Migrate, MigrateList, MigrateLoad, MigrateUpdate,
                MigrateComplete, MigrateLoadFails, MigrateDies, Becomes
  <1> QED
    BY <1>1, <1>2, <1>3, <1>4 DEF Next, Serve

LEMMA SluggedStep ==
  ASSUME NamesHaveSlugs, SlugInv, Slugged, [Next]_vars
  PROVE  Slugged'
  <1>1. \A v \in versions' : slugify(v.name) # <<>>
    BY NamesStep DEF SlugInv, Slugged, NamesHaveSlugs
  <1>2. ASSUME NEW x, NEW y, y # <<>>, slug' = Put(slug, x, y)
        PROVE  \A r \in DOMAIN slug' : slug'[r] # <<>>
    <2> DEFINE new == Put(slug, x, y)
    <2>1. /\ DOMAIN new = DOMAIN slug \cup {x} /\ new[x] = y
          /\ \A r \in DOMAIN slug \ {x} : new[r] = slug[r]
      BY DEF Put
    <2>2. slug' = new
      BY <1>2
    <2> HIDE DEF new
    <2> QED
      BY <1>2, <2>1, <2>2 DEF Slugged
  <1>3. UNCHANGED slug => \A r \in DOMAIN slug' : slug'[r] # <<>>
    BY DEF Slugged
  <1>4. ASSUME NEW m \in Operators,
               Migrate(m) \/ MigrateLoadFails(m) \/ MigrateDies(m)
        PROVE  /\ \A n \in Operators : tool'[n].step = "update" => tool'[n].id # <<>>
               /\ \A r \in DOMAIN slug' : slug'[r] # <<>>
    <2>1. PICK t : /\ tool' = [tool EXCEPT ![m] = t]
                   /\ Lists(t) \/ Chooses(m, t) \/ Writes(m, t) \/ Stops(t)
      BY <1>4, RunSteps
    <2>2. tool'[m] = t /\ \A n \in Operators \ {m} : tool'[n] = tool[n]
      BY <2>1 DEF SlugInv, TypeInv
    <2>3. t.step = "update" => t.id # <<>>
      BY <2>1, ChosenNotEmpty
         DEF Lists, Chooses, Writes, Stops, SlugInv, Slugged
    <2>4. \A r \in DOMAIN slug' : slug'[r] # <<>>
      BY <1>2, <1>3, <2>1 DEF Lists, Chooses, Writes, Stops, Slugged
    <2> QED
      BY <2>2, <2>3, <2>4 DEF Slugged
  <1>5. ASSUME NEW q \in Requests, pc[q] = "insertMeta"
        PROVE  job[q].slug # <<>>
    BY <1>5, RolloutAssumption DEF SlugInv, TypeInv, RequestOK, AlnumSlug
  <1>6. CASE ~ \E m \in Operators :
               Migrate(m) \/ MigrateLoadFails(m) \/ MigrateDies(m)
    <2>1. UNCHANGED tool /\ \A r \in DOMAIN slug' : slug'[r] # <<>>
      BY <1>2, <1>3, <1>5, <1>6, ServiceSteps DEF SlugInv
    <2> QED
      BY <1>1, <2>1 DEF Slugged
  <1>7. CASE \E m \in Operators :
               Migrate(m) \/ MigrateLoadFails(m) \/ MigrateDies(m)
    BY <1>1, <1>4, <1>7 DEF Slugged
  <1> QED
    BY <1>6, <1>7

LEMMA SluggedInit ==
  ASSUME NamesHaveSlugs, Init
  PROVE  Slugged
  <1>1. \A v \in versions : \E r \in Legacy : v.name = LegacyName[r]
    BY DEF Init, Doc
  <1>2. \A m \in Operators : tool[m].step = "off"
    BY DEF Init, Ended, Between
  <1>3. \A r \in DOMAIN slug : slug[r] # <<>>
    BY RolloutAssumption DEF Init, AlnumSlug
  <1> QED
    BY <1>1, <1>2, <1>3 DEF NamesHaveSlugs, Slugged

(* If every name has a letter or digit, one operator's runs, however they   *)
(* end, give each record a slug of its own, PATCHes and restarts meanwhile  *)
(* and all, and with no index to refuse a second one.                       *)
THEOREM SlugsAlwaysDistinct ==
  ASSUME LegacyDistinct, NamesHaveSlugs
  PROVE  Spec => []SlugsDistinct
  <1>1. Init => SlugInv /\ Slugged
    BY SlugInit, SluggedInit
  <1>2. SlugInv /\ Slugged /\ [Next]_vars => SlugInv' /\ Slugged'
    BY SlugStep, SluggedStep
  <1>3. SlugInv /\ Slugged => SlugsDistinct
    BY DEF SlugInv, Slugged, DistinctButEmpty, SlugsDistinct
  <1> QED
    BY <1>1, <1>2, <1>3, PTL DEF Spec
=============================================================================
