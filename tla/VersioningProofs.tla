-------------------------- MODULE VersioningProofs --------------------------
(***************************************************************************)
(* Theorems about the editorial workflow, for every value of the           *)
(* constants: any number of requests, users, slugs, contents and aborts.   *)
(***************************************************************************)
EXTENDS VersioningProperties, TLAPS

-----------------------------------------------------------------------------
(* Types. The store and the request bookkeeping are treated apart: each     *)
(* database operation keeps the first, each control operator the second.    *)

(* Types alone are not inductive: the number a request inserts or points to *)
(* must have been computed or asked for.                                    *)
NumberedSteps ==
    {"insertPatch", "archive", "pointPatch", "unseat", "promote",
     "pointAccept", "insertDerived", "archiveDerived", "pointDerived", "close",
     "readTarget", "rollback", "restore", "pointTarget"}

NextKnown == \A q \in Requests : pc[q] \in NumberedSteps => reg[q].next # 0

LEMMA NoRegType == NoReg \in Locals
  BY SeedAssumption DEF NoReg, Locals, ObjectIds, NoVersion

(* The jobs carry values of the types the store needs.                      *)
LEMMA JobTypes ==
  /\ \A j \in CreateJob : /\ j.user \in Users /\ j.slug \in Slugs
                          /\ j.body.content \in Content
                          /\ j.body.reviewedBy \in Users \cup {None}
                          /\ j.body.resulting \in Nat
  /\ \A j \in PatchJob : j.user \in Users /\ j.patch \in Patch
  /\ \A j \in AcceptJob \cup RejectJob \cup RetractJob \cup CurrentJob :
       j.user \in Users /\ j.number \in Nat \ {0}
  BY WorkflowAssumption
  DEF CreateJob, PatchJob, AcceptJob, RejectJob, RetractJob, CurrentJob,
      Writers, Body

(* Which handler's input a request at each step carries.                    *)
LEMMA JobOfStep ==
  ASSUME ControlTypeOK, NEW q \in Requests
  PROVE  /\ pc[q] \in CreateSteps  => job[q] \in CreateJob
         /\ pc[q] \in PatchSteps   => job[q] \in PatchJob
         /\ pc[q] \in AcceptSteps  => job[q] \in AcceptJob
         /\ pc[q] \in RejectSteps  => job[q] \in RejectJob
         /\ pc[q] \in RetractSteps => job[q] \in RetractJob
         /\ pc[q] \in CurrentSteps => job[q] \in CurrentJob
  BY DEF ControlTypeOK, JobFor, CreateSteps, PatchSteps, AcceptSteps, RejectSteps,
         RetractSteps, CurrentSteps

(* Moving on to another step of the same handler keeps the bookkeeping.     *)
Handlers == {CreateSteps, PatchSteps, AcceptSteps, RejectSteps, RetractSteps,
             CurrentSteps}

LEMMA SameHandler ==
  ASSUME NEW S \in Handlers, NEW s \in S, NEW t \in S
  PROVE  t \in Steps /\ \A T \in Handlers : s \in T <=> t \in T
  BY DEF Handlers, Steps, CreateSteps, PatchSteps, AcceptSteps, RejectSteps,
         RetractSteps, CurrentSteps

LEMMA GotoType ==
  ASSUME ControlTypeOK, NEW q \in Requests, NEW S \in Handlers, pc[q] \in S,
         NEW step \in S, Goto(q, step)
  PROVE  ControlTypeOK'
  BY SameHandler DEF ControlTypeOK, Goto, JobFor, Handlers

LEMMA RememberType ==
  ASSUME ControlTypeOK, NEW q \in Requests, NEW S \in Handlers, pc[q] \in S,
         NEW step \in S, NEW locals \in Locals, Remember(q, step, locals)
  PROVE  ControlTypeOK'
  BY SameHandler DEF ControlTypeOK, Remember, JobFor, Handlers

LEMMA AnswerType ==
  ASSUME ControlTypeOK, NEW q \in Requests, NEW answer \in Answers,
         pc' = [pc EXCEPT ![q] = answer], job' = [job EXCEPT ![q] = NoJob],
         reg' = [reg EXCEPT ![q] = NoReg], aborts' \in 0 .. MaxAborts
  PROVE  ControlTypeOK'
  <1>1. answer \notin Steps
    BY DEF Answers, Steps, CreateSteps, PatchSteps, AcceptSteps, RejectSteps,
           RetractSteps, CurrentSteps
  <1>2. \A p \in Requests : JobFor(p)'
    BY <1>1 DEF ControlTypeOK, JobFor, Steps
  <1> QED
    BY <1>2, NoRegType DEF ControlTypeOK

(* A new request gets a job of the handler it starts in.                    *)
Handles(step, jobs) ==
    \/ step \in CreateSteps  /\ jobs = CreateJob
    \/ step \in PatchSteps   /\ jobs = PatchJob
    \/ step \in AcceptSteps  /\ jobs = AcceptJob
    \/ step \in RejectSteps  /\ jobs = RejectJob
    \/ step \in RetractSteps /\ jobs = RetractJob
    \/ step \in CurrentSteps /\ jobs = CurrentJob

LEMMA StartType ==
  ASSUME ControlTypeOK, NEW q \in Requests, NEW jobs, NEW step,
         Handles(step, jobs), Start(q, jobs, step)
  PROVE  ControlTypeOK' /\ UNCHANGED store
  <1>1. PICK j \in jobs : job' = [job EXCEPT ![q] = j]
    BY DEF Start
  <1>2. step \in Steps
    BY DEF Handles, Steps
  <1>3. JobFor(q)'
    BY <1>1 DEF ControlTypeOK, Start, JobFor, Handles, CreateSteps, PatchSteps,
       AcceptSteps, RejectSteps, RetractSteps, CurrentSteps
  <1>4. \A p \in Requests \ {q} : JobFor(p)'
    BY <1>1 DEF ControlTypeOK, Start, JobFor
  <1> QED
    BY <1>1, <1>2, <1>3, <1>4 DEF ControlTypeOK, Start

LEMMA InitType == Init => TypeOK
  <1> SUFFICES ASSUME Init PROVE TypeOK
    OBVIOUS
  <1>1. StoreTypeOK
    BY SeedAssumption
    DEF Init, StoreInit, StoreTypeOK, EntityMeta, GameSystemVersion,
        VersionState, ObjectIds, NoVersion
  <1>2. ControlTypeOK
    BY NoRegType, WorkflowAssumption
    DEF Init, ControlTypeOK, JobFor, CreateSteps, PatchSteps, AcceptSteps,
        RejectSteps, RetractSteps, CurrentSteps
  <1> QED
    BY <1>1, <1>2 DEF TypeOK

LEMMA ArriveType ==
  ASSUME ControlTypeOK, NEW q \in Requests, Arrive(q)
  PROVE  ControlTypeOK' /\ UNCHANGED store
  <1> USE DEF Handles, CreateSteps, PatchSteps, AcceptSteps, RejectSteps,
              RetractSteps, CurrentSteps
  <1>1. CASE StartCreate(q)
    BY <1>1, StartType DEF StartCreate
  <1>2. CASE StartPatch(q)
    BY <1>2, StartType DEF StartPatch
  <1>3. CASE StartAccept(q)
    BY <1>3, StartType DEF StartAccept
  <1>4. CASE StartReject(q)
    BY <1>4, StartType DEF StartReject
  <1>5. CASE StartRetract(q)
    BY <1>5, StartType DEF StartRetract
  <1>6. CASE StartSetCurrent(q)
    BY <1>6, StartType DEF StartSetCurrent
  <1> QED
    BY <1>1, <1>2, <1>3, <1>4, <1>5, <1>6 DEF Arrive

(* What the queries return.                                                 *)
LEMMA ReadTypes ==
  ASSUME StoreTypeOK
  PROVE  /\ \A id : \A r \in GetMeta(id) \cup ResolveMeta(id) :
              r \in DOMAIN meta
         /\ \A r \in DOMAIN meta :
              r \in ObjectIds /\ meta[r].current \in Nat \ {0}
         /\ \A r, n : \A d \in GetVersion(r, n) :
              d \in DOMAIN versions /\ versions[d] \in GameSystemVersion
         /\ \A r : \A n \in nextVersionNumber(r) : n \in Nat \ {0}
  BY DEF StoreTypeOK, EntityMeta, GameSystemVersion, GetMeta, ResolveMeta,
         GetVersion, VersionsOf, nextVersionNumber

LEMMA OverlayType ==
  ASSUME NEW c \in Content, NEW p \in Patch
  PROVE  Overlay(c, p) \in Content
  BY DEF Overlay, Content, Patch

LEMMA MergedType ==
  ASSUME NEW fields, NEW s \in Content, NEW c \in Content, NEW b \in Content
  PROVE  Merged(fields, s, c, b) \in Content
  BY DEF Merged, Derived, Content

(* The writes keep the documents well formed.                               *)
LEMMA InsertMetaType ==
  ASSUME StoreTypeOK, NEW id \in ObjectIds, NEW doc \in EntityMeta,
         InsertMeta(id, doc)
  PROVE  StoreTypeOK'
  BY DEF StoreTypeOK, InsertMeta

LEMMA InsertVersionType ==
  ASSUME StoreTypeOK, NEW id \in ObjectIds, NEW doc \in GameSystemVersion,
         InsertVersion(id, doc)
  PROVE  StoreTypeOK'
  BY DEF StoreTypeOK, InsertVersion

LEMMA ArchiveType ==
  ASSUME StoreTypeOK, NEW r, NEW n, archiveVersion(r, n)
  PROVE  StoreTypeOK'
  BY DEF StoreTypeOK, setVersionState, archiveVersion, GameSystemVersion,
         VersionState

LEMMA PointType ==
  ASSUME StoreTypeOK, NEW r, NEW n \in Nat \ {0}, NEW user \in Users,
         setMetaCurrentVersion(r, n, user)
  PROVE  StoreTypeOK'
  BY DEF StoreTypeOK, setMetaCurrentVersion, EntityMeta

LEMMA RefuseType ==
  ASSUME ControlTypeOK, NEW q \in Requests, NEW answer \in Answers,
         Answer(q, answer)
  PROVE  ControlTypeOK'
  BY AnswerType DEF Answer, ControlTypeOK

LEMMA UnchangedStoreType ==
  ASSUME StoreTypeOK, UNCHANGED store
  PROVE  StoreTypeOK'
  BY DEF StoreTypeOK, store

LEMMA LocatedType ==
  ASSUME StoreTypeOK, NEW r \in DOMAIN meta, NEW n \in Nat
  PROVE  Located(r, n) \in Locals
  BY ReadTypes, SeedAssumption DEF Located, Locals, NoVersion

LEMMA PatchType ==
  ASSUME TypeOK, NextKnown, NEW q \in Requests,
         \/ PatchResolve(q) \/ PatchRead(q) \/ PatchBase(q)
         \/ PatchNumber(q) \/ PatchInsert(q)
  PROVE  TypeOK'
  <1> USE DEF PatchSteps, Handlers, Answers
  <1> SUFFICES StoreTypeOK' /\ ControlTypeOK'
    BY DEF TypeOK
  <1> StoreTypeOK /\ ControlTypeOK
    BY DEF TypeOK
  <1> /\ reg[q] \in Locals
      /\ pc[q] \in PatchSteps => job[q] \in PatchJob
    BY JobOfStep DEF ControlTypeOK
  <1>1. CASE PatchResolve(q)
    <2>1. ASSUME NEW r \in ResolveMeta(job[q].id),
                 Remember(q, "read", Located(r, NoVersion))
          PROVE  ControlTypeOK'
      BY <1>1, <2>1, ReadTypes, LocatedType, RememberType
      DEF PatchResolve, NoVersion
    <2> QED
      BY <1>1, <2>1, RefuseType, UnchangedStoreType DEF PatchResolve
  <1>2. CASE PatchRead(q)
    <2>1. ASSUME NEW d \in GetVersion(reg[q].record, reg[q].current)
          PROVE  [reg[q] EXCEPT
                   !.content = Overlay(versions[d].content, job[q].patch),
                   !.reviewedBy = versions[d].reviewedBy,
                   !.resulting = versions[d].resulting] \in Locals
      <3>1. Overlay(versions[d].content, job[q].patch) \in Content
        BY <1>2, <2>1, ReadTypes, JobTypes, OverlayType
        DEF GameSystemVersion, PatchRead
      <3> QED
        BY <3>1, ReadTypes DEF Locals, GameSystemVersion
    <2> QED
      BY <1>2, <2>1, RefuseType, RememberType, UnchangedStoreType DEF PatchRead
  <1>3. CASE PatchBase(q)
    <2>1. ASSUME NEW r \in GetMeta(job[q].id)
          PROVE  [reg[q] EXCEPT !.record = r, !.current = meta[r].current]
                   \in Locals
      BY <2>1, ReadTypes DEF Locals
    <2> QED
      BY <1>3, <2>1, RefuseType, RememberType, UnchangedStoreType DEF PatchBase
  <1>4. CASE PatchNumber(q)
    <2>1. ASSUME NEW n \in nextVersionNumber(reg[q].record)
          PROVE  [reg[q] EXCEPT !.next = n] \in Locals
      BY <2>1, ReadTypes DEF Locals
    <2> QED
      BY <1>4, <2>1, RememberType, UnchangedStoreType DEF PatchNumber
  <1>5. CASE PatchInsert(q)
    <2>1. job[q].user \in Users
      BY <1>5, JobTypes DEF PatchInsert
    <2>2. CASE Refuse(q)
      BY <2>2, RefuseType, UnchangedStoreType DEF Refuse
    <2>3. CASE InsertVersion(q, NewVersion(q))
      <3>1. reg[q].next # 0
        BY <1>5 DEF PatchInsert, NextKnown, NumberedSteps
      <3>2. NewVersion(q) \in GameSystemVersion
        BY <2>1, <3>1 DEF NewVersion, GameSystemVersion, Locals, PatchState,
                          VersionState
      <3>3. StoreTypeOK'
        BY <2>3, <3>2, InsertVersionType DEF ObjectIds
      <3>4. Goto(q, "archive") \/ Answer(q, "done") \/ Answer(q, "refused")
        BY <1>5 DEF PatchInsert, Refuse
      <3> QED
        BY <1>5, <3>3, <3>4, GotoType, RefuseType DEF PatchInsert
    <2> QED
      BY <1>5, <2>2, <2>3 DEF PatchInsert
  <1> QED
    BY <1>1, <1>2, <1>3, <1>4, <1>5

LEMMA CreateType ==
  ASSUME TypeOK, NEW q \in Requests,
         CreateInsertMeta(q) \/ CreateInsertVersion(q)
  PROVE  TypeOK'
  <1> USE DEF CreateSteps, Handlers, Answers
  <1> SUFFICES StoreTypeOK' /\ ControlTypeOK'
    BY DEF TypeOK
  <1> StoreTypeOK /\ ControlTypeOK
    BY DEF TypeOK
  <1>1. pc[q] \in CreateSteps => job[q] \in CreateJob
    BY JobOfStep
  <1>2. CASE CreateInsertMeta(q)
    <2>1. [slug |-> job[q].slug, current |-> 1, updatedBy |-> job[q].user]
            \in EntityMeta
      BY <1>1, <1>2, JobTypes DEF CreateInsertMeta, EntityMeta
    <2>2. CASE Refuse(q)
      BY <2>2, RefuseType, UnchangedStoreType DEF Refuse
    <2>3. CASE InsertMeta(q, [slug |-> job[q].slug, current |-> 1,
                              updatedBy |-> job[q].user])
               /\ Goto(q, "insertFirst")
      BY <1>2, <2>1, <2>3, InsertMetaType, GotoType
      DEF CreateInsertMeta, ObjectIds
    <2> QED
      BY <1>2, <2>2, <2>3 DEF CreateInsertMeta
  <1>3. CASE CreateInsertVersion(q)
    <2>1. [record |-> q, version |-> 1, content |-> job[q].body.content,
           state |-> "live", base |-> NoVersion, submittedBy |-> job[q].user,
           reviewedBy |-> job[q].body.reviewedBy,
           resulting |-> job[q].body.resulting] \in GameSystemVersion
      BY <1>1, <1>3, JobTypes
      DEF CreateInsertVersion, GameSystemVersion, VersionState, NoVersion,
          ObjectIds
    <2> QED
      BY <1>3, <2>1, InsertVersionType, RefuseType, UnchangedStoreType
      DEF CreateInsertVersion, Refuse, ObjectIds
  <1> QED
    BY <1>2, <1>3

LEMMA AcceptType ==
  ASSUME TypeOK, NextKnown, NEW q \in Requests,
         \/ AcceptLoad(q) \/ AcceptDecide(q) \/ AcceptPromote(q)
         \/ AcceptNumber(q) \/ AcceptInsert(q) \/ AcceptClose(q)
  PROVE  TypeOK'
  <1> USE DEF AcceptSteps, Handlers, Answers
  <1> SUFFICES StoreTypeOK' /\ ControlTypeOK'
    BY DEF TypeOK
  <1> StoreTypeOK /\ ControlTypeOK
    BY DEF TypeOK
  <1> /\ reg[q] \in Locals
      /\ pc[q] \in AcceptSteps => job[q] \in AcceptJob
    BY JobOfStep DEF ControlTypeOK
  <1>0. pc[q] \in AcceptSteps => job[q].user \in Users /\ job[q].number \in Nat
    BY JobTypes
  <1>1. CASE AcceptLoad(q)
    BY <1>1, GotoType, RefuseType, UnchangedStoreType DEF AcceptLoad
  <1>2. CASE AcceptDecide(q)
    <2>0. \A s \in Addressed(job[q]) :
            s \in DOMAIN versions /\ versions[s] \in GameSystemVersion
      BY DEF Addressed, StoreTypeOK
    <2>1. ASSUME NEW r \in GetMeta(job[q].id),
                 NEW s \in Addressed(job[q]),
                 NEW c \in GetVersion(r, meta[r].current),
                 NEW b \in GetVersion(r, versions[s].base)
          PROVE  [Located(r, NoVersion) EXCEPT
                    !.content = Merged(job[q].fields, versions[s].content,
                                  versions[c].content, versions[b].content),
                    !.author = versions[s].submittedBy,
                    !.reviewedBy = job[q].user] \in Locals
      <3>1. Located(r, NoVersion) \in Locals
        BY <2>1, ReadTypes, LocatedType DEF NoVersion
      <3>2. Merged(job[q].fields, versions[s].content, versions[c].content,
                   versions[b].content) \in Content
        BY <2>0, <2>1, ReadTypes, MergedType DEF GameSystemVersion
      <3> QED
        BY <1>0, <1>2, <2>0, <2>1, <3>1, <3>2, ReadTypes
        DEF Locals, GameSystemVersion, AcceptDecide
    <2>2. ASSUME NEW r \in GetMeta(job[q].id)
          PROVE  Located(r, job[q].number) \in Locals
      BY <1>0, <1>2, <2>2, ReadTypes, LocatedType DEF AcceptDecide
    <2>3. CASE Answer(q, "refused")
      BY <1>2, <2>3, RefuseType, UnchangedStoreType DEF AcceptDecide
    <2>4. ASSUME NEW r \in GetMeta(job[q].id),
                 Remember(q, "unseat", Located(r, job[q].number))
          PROVE  ControlTypeOK'
      BY <1>2, <2>2, <2>4, RememberType DEF AcceptDecide
    <2>5. ASSUME NEW r \in GetMeta(job[q].id),
                 NEW s \in Addressed(job[q]),
                 NEW c \in GetVersion(r, meta[r].current),
                 NEW b \in GetVersion(r, versions[s].base),
                 Remember(q, "numberDerived",
                   [Located(r, NoVersion) EXCEPT
                      !.content = Merged(job[q].fields, versions[s].content,
                                    versions[c].content, versions[b].content),
                      !.author = versions[s].submittedBy,
                      !.reviewedBy = job[q].user])
          PROVE  ControlTypeOK'
      BY <1>2, <2>1, <2>5, RememberType DEF AcceptDecide
    <2> QED
      BY <1>2, <2>3, <2>4, <2>5, UnchangedStoreType DEF AcceptDecide
  <1>3. CASE AcceptPromote(q)
    <2>1. StoreTypeOK'
      <3>1. \A v \in GameSystemVersion :
              [v EXCEPT !.state = "live", !.reviewedBy = job[q].user]
                \in GameSystemVersion
        BY <1>0, <1>3 DEF AcceptPromote, GameSystemVersion, VersionState
      <3> QED
        BY <1>3, <3>1 DEF AcceptPromote, setVersionState, StoreTypeOK
    <2> QED
      BY <1>3, <2>1, GotoType DEF AcceptPromote
  <1>4. CASE AcceptNumber(q)
    <2>1. ASSUME NEW n \in nextVersionNumber(reg[q].record)
          PROVE  [reg[q] EXCEPT !.next = n] \in Locals
      BY <2>1, ReadTypes DEF Locals
    <2> QED
      BY <1>4, <2>1, RememberType, UnchangedStoreType DEF AcceptNumber
  <1>5. CASE AcceptInsert(q)
    <2>1. CASE Refuse(q)
      BY <2>1, RefuseType, UnchangedStoreType DEF Refuse
    <2>2. CASE InsertVersion(q, DerivedVersion(q))
      <3>1. reg[q].next # 0
        BY <1>5 DEF AcceptInsert, NextKnown, NumberedSteps
      <3>2. DerivedVersion(q) \in GameSystemVersion
        BY <3>1 DEF DerivedVersion, GameSystemVersion, Locals, VersionState,
                    NoVersion
      <3>3. StoreTypeOK'
        BY <2>2, <3>2, InsertVersionType DEF ObjectIds
      <3>4. Goto(q, "archiveDerived") \/ Answer(q, "refused")
        BY <1>5 DEF AcceptInsert, Refuse
      <3> QED
        BY <1>5, <3>3, <3>4, GotoType, RefuseType DEF AcceptInsert
    <2> QED
      BY <1>5, <2>1, <2>2 DEF AcceptInsert
  <1>6. CASE AcceptClose(q)
    <2>1. StoreTypeOK'
      <3>1. \A v \in GameSystemVersion :
              [v EXCEPT !.state = "partially_accepted",
                        !.reviewedBy = job[q].user,
                        !.resulting = reg[q].next] \in GameSystemVersion
        BY <1>0, <1>6 DEF AcceptClose, GameSystemVersion, VersionState, Locals
      <3> QED
        BY <1>6, <3>1 DEF AcceptClose, setVersionState, StoreTypeOK
    <2> QED
      BY <1>6, <2>1, RefuseType DEF AcceptClose
  <1> QED
    BY <1>1, <1>2, <1>3, <1>4, <1>5, <1>6

LEMMA DecisionType ==
  ASSUME TypeOK, NEW q \in Requests,
         RejectLoad(q) \/ RejectMark(q) \/ RetractLoad(q) \/ RetractMark(q)
  PROVE  TypeOK'
  <1> USE DEF RejectSteps, RetractSteps, Handlers, Answers
  <1> SUFFICES StoreTypeOK' /\ ControlTypeOK'
    BY DEF TypeOK
  <1> StoreTypeOK /\ ControlTypeOK
    BY DEF TypeOK
  <1>0. pc[q] \in RejectSteps => job[q].user \in Users
    BY JobOfStep, JobTypes
  <1>1. ASSUME Pending(job[q]) # {}
        PROVE  [NoReg EXCEPT !.record = job[q].id.of] \in Locals
    <2>1. PICK d \in DOMAIN versions : job[q].id = MetaId(versions[d].record)
      BY <1>1 DEF Pending, Addressed
    <2>2. versions[d].record \in ObjectIds
      BY DEF StoreTypeOK, GameSystemVersion
    <2>3. job[q].id.of \in ObjectIds
      BY <2>1, <2>2 DEF MetaId
    <2> QED
      BY <2>3, NoRegType DEF Locals
  <1>2. CASE RejectLoad(q)
    <2>1. CASE Remember(q, "reject", [NoReg EXCEPT !.record = job[q].id.of])
               /\ Pending(job[q]) # {}
      BY <1>1, <1>2, <2>1, RememberType, UnchangedStoreType DEF RejectLoad
    <2> QED
      BY <1>2, <2>1, RefuseType, UnchangedStoreType DEF RejectLoad
  <1>3. CASE RejectMark(q)
    <2>1. \A v \in GameSystemVersion :
            [v EXCEPT !.state = "rejected", !.reviewedBy = job[q].user]
              \in GameSystemVersion
      BY <1>0, <1>3 DEF RejectMark, GameSystemVersion, VersionState
    <2>2. StoreTypeOK'
      BY <1>3, <2>1 DEF RejectMark, setVersionState, StoreTypeOK
    <2> QED
      BY <1>3, <2>2, RefuseType DEF RejectMark
  <1>4. CASE RetractLoad(q)
    <2>1. CASE Remember(q, "retract", [NoReg EXCEPT !.record = job[q].id.of])
               /\ Pending(job[q]) # {}
      BY <1>1, <1>4, <2>1, RememberType, UnchangedStoreType DEF RetractLoad
    <2> QED
      BY <1>4, <2>1, RefuseType, UnchangedStoreType DEF RetractLoad
  <1>5. CASE RetractMark(q)
    <2>1. StoreTypeOK'
      BY <1>5 DEF RetractMark, setVersionState, StoreTypeOK, GameSystemVersion,
                  VersionState
    <2> QED
      BY <1>5, <2>1, RefuseType DEF RetractMark
  <1> QED
    BY <1>2, <1>3, <1>4, <1>5

LEMMA SetCurrentType ==
  ASSUME TypeOK, NEW q \in Requests,
         SetCurrentResolve(q) \/ SetCurrentRead(q) \/ SetCurrentRestore(q)
  PROVE  TypeOK'
  <1> USE DEF CurrentSteps, Handlers, Answers
  <1> SUFFICES StoreTypeOK' /\ ControlTypeOK'
    BY DEF TypeOK
  <1> StoreTypeOK /\ ControlTypeOK
    BY DEF TypeOK
  <1>1. CASE SetCurrentResolve(q)
    <2>1. job[q].number \in Nat
      BY <1>1, JobOfStep, JobTypes DEF SetCurrentResolve
    <2>2. ASSUME NEW r \in GetMeta(job[q].id),
                 Remember(q, "readTarget", Located(r, job[q].number))
          PROVE  ControlTypeOK'
      BY <1>1, <2>1, <2>2, ReadTypes, LocatedType, RememberType
      DEF SetCurrentResolve
    <2> QED
      BY <1>1, <2>2, RefuseType, UnchangedStoreType DEF SetCurrentResolve
  <1>2. CASE SetCurrentRead(q)
    BY <1>2, GotoType, RefuseType, UnchangedStoreType DEF SetCurrentRead
  <1>3. CASE SetCurrentRestore(q)
    <2>1. StoreTypeOK'
      BY <1>3 DEF SetCurrentRestore, setVersionState, StoreTypeOK,
                  GameSystemVersion, VersionState
    <2> QED
      BY <1>3, <2>1, GotoType DEF SetCurrentRestore
  <1> QED
    BY <1>1, <1>2, <1>3

LEMMA SharedType ==
  ASSUME TypeOK, NextKnown, NEW q \in Requests,
         ArchiveCurrent(q) \/ PointMeta(q) \/ Abort(q)
  PROVE  TypeOK'
  <1> USE DEF Handlers, Answers
  <1> SUFFICES StoreTypeOK' /\ ControlTypeOK'
    BY DEF TypeOK
  <1> StoreTypeOK /\ ControlTypeOK
    BY DEF TypeOK
  <1>1. CASE ArchiveCurrent(q)
    <2>1. ControlTypeOK'
      <3>1. CASE pc[q] = "archive"
        BY <1>1, <3>1, GotoType DEF ArchiveCurrent, AfterArchive, PatchSteps
      <3>2. CASE pc[q] \in {"unseat", "archiveDerived"}
        BY <1>1, <3>2, GotoType DEF ArchiveCurrent, AfterArchive, AcceptSteps
      <3>3. CASE pc[q] = "rollback"
        BY <1>1, <3>3, GotoType DEF ArchiveCurrent, AfterArchive, CurrentSteps
      <3> QED
        BY <1>1, <3>1, <3>2, <3>3 DEF ArchiveCurrent, AfterArchive
    <2> QED
      BY <1>1, <2>1, ArchiveType DEF ArchiveCurrent
  <1>2. CASE PointMeta(q)
    <2>1. job[q].user \in Users
      BY <1>2, JobOfStep, JobTypes
      DEF PointMeta, PatchSteps, AcceptSteps, CurrentSteps
    <2>2. reg[q].next \in Nat \ {0}
      BY <1>2 DEF PointMeta, NextKnown, NumberedSteps, ControlTypeOK, Locals
    <2>3. StoreTypeOK'
      BY <1>2, <2>1, <2>2, PointType DEF PointMeta
    <2>4. ControlTypeOK'
      BY <1>2, GotoType, RefuseType DEF PointMeta, AcceptSteps
    <2> QED
      BY <2>3, <2>4
  <1>3. CASE Abort(q)
    <2>1. aborts' \in 0 .. MaxAborts
      BY <1>3, WorkflowAssumption DEF Abort, ControlTypeOK
    <2> QED
      BY <1>3, <2>1, AnswerType, UnchangedStoreType DEF Abort
  <1> QED
    BY <1>1, <1>2, <1>3

(* The other half of the inductive invariant.                               *)
LEMMA NextKnownStep ==
  ASSUME TypeOK, NextKnown, [Next]_vars
  PROVE  NextKnown'
  <1> USE DEF NextKnown, NumberedSteps
  <1>1. CASE UNCHANGED vars
    BY <1>1 DEF vars, control
  <1> SUFFICES ASSUME NEW q \in Requests, Arrive(q) \/ Serve(q) \/ Abort(q)
               PROVE  NextKnown'
    BY <1>1 DEF Next
  <1> DOMAIN pc = Requests /\ DOMAIN reg = Requests
    BY DEF TypeOK, ControlTypeOK
  <1>2. ASSUME NEW step, step \notin NumberedSteps, pc' = [pc EXCEPT ![q] = step],
               reg' = reg \/ \E l : reg' = [reg EXCEPT ![q] = l]
        PROVE  NextKnown'
    BY <1>2
  <1>3. ASSUME NEW step, pc' = [pc EXCEPT ![q] = step], reg' = reg,
               pc[q] \in NumberedSteps
        PROVE  NextKnown'
    BY <1>3
  <1>4. ASSUME NEW l, l.next # 0, NEW step, pc' = [pc EXCEPT ![q] = step],
               reg' = [reg EXCEPT ![q] = l]
        PROVE  NextKnown'
    BY <1>4
  <1>5. \A r : \A n \in nextVersionNumber(r) : n # 0
    BY ReadTypes DEF TypeOK
  <1>6. job[q].number # 0 \/ pc[q] \notin AcceptSteps \cup CurrentSteps
    BY JobOfStep, JobTypes DEF TypeOK
  <1> HIDE DEF NextKnown
  <1> USE DEF Goto, Remember, Answer, Refuse
  <1>7. CASE Arrive(q)
    BY <1>2, <1>7
    DEF Arrive, StartCreate, StartPatch, StartAccept, StartReject,
        StartRetract, StartSetCurrent, Start
  <1>8. CASE \/ CreateInsertMeta(q) \/ CreateInsertVersion(q)
             \/ PatchResolve(q) \/ PatchRead(q) \/ PatchBase(q)
    BY <1>2, <1>8
    DEF CreateInsertMeta, CreateInsertVersion, PatchResolve, PatchRead,
        PatchBase
  <1>9. CASE PatchNumber(q) \/ AcceptNumber(q)
    <2>1. PICK n \in nextVersionNumber(reg[q].record) :
            /\ \E step : pc' = [pc EXCEPT ![q] = step]
            /\ reg' = [reg EXCEPT ![q] = [reg[q] EXCEPT !.next = n]]
      BY <1>9 DEF PatchNumber, AcceptNumber
    <2>2. [reg[q] EXCEPT !.next = n].next # 0
      BY <1>5 DEF TypeOK, ControlTypeOK, Locals
    <2> QED
      BY <1>4, <2>1, <2>2
  <1>10. CASE PatchInsert(q) \/ AcceptInsert(q)
    BY <1>2, <1>3, <1>10 DEF PatchInsert, AcceptInsert
  <1>11. CASE AcceptLoad(q) \/ AcceptClose(q) \/ RejectLoad(q) \/ RejectMark(q)
              \/ RetractLoad(q) \/ RetractMark(q)
    BY <1>2, <1>11 DEF AcceptLoad, AcceptClose, RejectLoad, RejectMark,
                       RetractLoad, RetractMark
  <1>12. CASE AcceptDecide(q) \/ SetCurrentResolve(q)
    <2>1. \A r : Located(r, job[q].number).next # 0
      BY <1>6, <1>12 DEF Located, AcceptDecide, SetCurrentResolve, AcceptSteps,
                         CurrentSteps
    <2> QED
      BY <1>2, <1>4, <1>12, <2>1 DEF AcceptDecide, SetCurrentResolve
  <1>13. CASE AcceptPromote(q) \/ SetCurrentRead(q) \/ SetCurrentRestore(q)
              \/ ArchiveCurrent(q)
    BY <1>2, <1>3, <1>13
    DEF AcceptPromote, SetCurrentRead, SetCurrentRestore, ArchiveCurrent,
        AfterArchive
  <1>14. CASE PointMeta(q) \/ Abort(q)
    BY <1>2, <1>3, <1>14 DEF PointMeta, Abort
  <1> QED
    BY <1>7, <1>8, <1>9, <1>10, <1>11, <1>12, <1>13, <1>14 DEF Serve

LEMMA NextType ==
  ASSUME TypeOK, NextKnown, [Next]_vars
  PROVE  TypeOK'
  <1>1. CASE UNCHANGED vars
    BY <1>1 DEF vars, store, control, TypeOK, StoreTypeOK, ControlTypeOK, JobFor
  <1>2. ASSUME NEW q \in Requests, Arrive(q)
        PROVE  TypeOK'
    BY <1>2, ArriveType, UnchangedStoreType DEF TypeOK
  <1>3. ASSUME NEW q \in Requests, Serve(q)
        PROVE  TypeOK'
    BY <1>3, CreateType, PatchType, AcceptType, DecisionType, SetCurrentType,
       SharedType DEF Serve
  <1>4. ASSUME NEW q \in Requests, Abort(q)
        PROVE  TypeOK'
    BY <1>4, SharedType
  <1> QED
    BY <1>1, <1>2, <1>3, <1>4 DEF Next

(* Every document the service stores is well formed and every request       *)
(* carries its handler's input: in particular a version number inserted or  *)
(* pointed to is positive, whatever requests race or end early.             *)
THEOREM TypeCorrect == Spec => []TypeOK
  <1>1. Init => TypeOK /\ NextKnown
    BY InitType DEF Init, NextKnown, NumberedSteps
  <1>2. TypeOK /\ NextKnown /\ [Next]_vars => TypeOK' /\ NextKnown'
    BY NextType, NextKnownStep
  <1> QED
    BY <1>1, <1>2, PTL DEF Spec
=============================================================================
