---------------------------- MODULE OutcomeProofs ----------------------------
(***************************************************************************)
(* What a request leaves behind when it does not succeed: nothing when it  *)
(* is refused, a system without versions only when a creation ended        *)
(* between its two inserts.                                                *)
(***************************************************************************)
EXTENDS HistoryProofs

AfterVersion == {"archive", "pointPatch", "archiveDerived", "pointDerived",
                 "close", "done", "aborted"}
AfterMeta    == {"insertFirst", "done", "aborted"}

(* A request that has stored a document is past every step that refuses.    *)
OwnDocuments ==
    \A q \in Requests : /\ q \in DOMAIN versions => pc[q] \in AfterVersion
                        /\ q \in DOMAIN meta => pc[q] \in AfterMeta

OutcomeInv == TypeOK /\ NextKnown /\ HistoryInv

LEMMA OutcomeInit ==
  ASSUME IdsApart
  PROVE  Init => OutcomeInv
  BY InitType, InitHistory DEF Init, NextKnown, NumberedSteps, OutcomeInv

LEMMA OutcomeStep ==
  ASSUME OutcomeInv, [Next]_vars
  PROVE  OutcomeInv'
  BY NextType, NextKnownStep, HistoryStep DEF OutcomeInv

Owns(q) == /\ q \in DOMAIN versions => pc[q] \in AfterVersion
           /\ q \in DOMAIN meta => pc[q] \in AfterMeta

(* Steps before a request stores anything, and those of requests that never *)
(* do, leave the sets of documents alone.                                   *)
LEMMA BeforeOwns ==
  ASSUME NEW q \in Requests, Owns(q),
         pc[q] \notin AfterVersion, pc[q] \notin AfterMeta,
         DOMAIN meta' = DOMAIN meta, DOMAIN versions' = DOMAIN versions
  PROVE  Owns(q)'
  BY DEF Owns

LEMMA QuietOwns ==
  ASSUME TypeOK, NEW q \in Requests, Owns(q),
         \/ Arrive(q) \/ PatchResolve(q) \/ PatchRead(q) \/ PatchBase(q)
         \/ PatchNumber(q) \/ AcceptLoad(q) \/ AcceptDecide(q) \/ AcceptNumber(q)
         \/ RejectLoad(q) \/ RetractLoad(q)
         \/ SetCurrentResolve(q) \/ SetCurrentRead(q)
         \/ AcceptPromote(q) \/ RejectMark(q) \/ RetractMark(q)
         \/ SetCurrentRestore(q)
  PROVE  Owns(q)'
  <1>1. pc[q] \notin AfterVersion /\ pc[q] \notin AfterMeta
    <2>1. pc[q] \in {"idle", "resolve", "read", "base", "numberPatch", "loadAccept",
                     "decide", "promote", "numberDerived", "loadReject", "reject",
                     "loadRetract", "retract", "resolveTarget", "readTarget",
                     "restore"}
      BY DEF Arrive, StartCreate, StartPatch, StartAccept, StartReject,
             StartRetract, StartSetCurrent, Start, PatchResolve, PatchRead,
             PatchBase, PatchNumber, AcceptLoad, AcceptDecide, AcceptPromote,
             AcceptNumber, RejectLoad, RejectMark, RetractLoad, RetractMark,
             SetCurrentResolve, SetCurrentRead, SetCurrentRestore
    <2> QED
      BY <2>1 DEF AfterVersion, AfterMeta
  <1>2. DOMAIN meta' = DOMAIN meta /\ DOMAIN versions' = DOMAIN versions
    <2>1. CASE UNCHANGED store
      BY <2>1 DEF store
    <2>2. CASE \/ AcceptPromote(q) \/ RejectMark(q) \/ RetractMark(q)
               \/ SetCurrentRestore(q)
      BY <2>2 DEF AcceptPromote, RejectMark, RetractMark, SetCurrentRestore,
                  setVersionState
    <2> QED
      BY <2>1, <2>2
      DEF Arrive, StartCreate, StartPatch, StartAccept, StartReject, StartRetract,
          StartSetCurrent, Start, PatchResolve, PatchRead, PatchBase, PatchNumber,
          AcceptLoad, AcceptDecide, AcceptNumber, RejectLoad, RetractLoad,
          SetCurrentResolve, SetCurrentRead
  <1> QED
    BY <1>1, <1>2, BeforeOwns

LEMMA InsertOwns ==
  ASSUME TypeOK, HistoryInv, NEW q \in Requests, Owns(q),
         \/ CreateInsertMeta(q) \/ CreateInsertVersion(q)
         \/ PatchInsert(q) \/ AcceptInsert(q)
  PROVE  Owns(q)'
  <1> q \in DOMAIN pc
    BY DEF TypeOK, ControlTypeOK
  <1> USE DEF Owns, AfterVersion, AfterMeta, Refuse, Answer, Goto, store
  <1>1. CASE CreateInsertMeta(q)
    BY <1>1 DEF CreateInsertMeta, InsertMeta
  <1>2. CASE CreateInsertVersion(q)
    BY <1>2, CreateIsFirst DEF HistoryInv, InsertVersion
  <1>3. CASE PatchInsert(q)
    BY <1>3 DEF PatchInsert, InsertVersion
  <1>4. CASE AcceptInsert(q)
    BY <1>4 DEF AcceptInsert, InsertVersion
  <1> QED
    BY <1>1, <1>2, <1>3, <1>4

LEMMA EndOwns ==
  ASSUME TypeOK, NEW q \in Requests, Owns(q),
         AcceptClose(q) \/ ArchiveCurrent(q) \/ PointMeta(q) \/ Abort(q)
  PROVE  Owns(q)'
  <1> q \in DOMAIN pc
    BY DEF TypeOK, ControlTypeOK
  <1> USE DEF Owns, AfterVersion, AfterMeta, Answer, Goto
  <1>1. CASE AcceptClose(q)
    BY <1>1 DEF AcceptClose, setVersionState
  <1>2. CASE ArchiveCurrent(q)
    <2>1. DOMAIN meta' = DOMAIN meta /\ DOMAIN versions' = DOMAIN versions
      BY <1>2 DEF ArchiveCurrent, archiveVersion, setVersionState
    <2>2. /\ pc[q] \in {"archive", "unseat", "archiveDerived", "rollback"}
          /\ pc[q] = "archive" => pc'[q] = "pointPatch"
          /\ pc[q] = "archiveDerived" => pc'[q] = "pointDerived"
      BY <1>2 DEF ArchiveCurrent, AfterArchive
    <2> QED
      BY <2>1, <2>2
  <1>3. CASE PointMeta(q)
    BY <1>3 DEF PointMeta, setMetaCurrentVersion
  <1>4. CASE Abort(q)
    BY <1>4 DEF Abort, store
  <1> QED
    BY <1>1, <1>2, <1>3, <1>4

LEMMA OwnsStep ==
  ASSUME OutcomeInv, OwnDocuments, [Next]_vars
  PROVE  OwnDocuments'
  <1>1. CASE UNCHANGED vars
    BY <1>1 DEF vars, store, control, OwnDocuments
  <1>2. ASSUME NEW q \in Requests, Arrive(q) \/ Serve(q) \/ Abort(q)
        PROVE  OwnDocuments'
    <2>1. Owns(q)'
      BY <1>2, QuietOwns, InsertOwns, EndOwns
      DEF OutcomeInv, OwnDocuments, Owns, Serve
    <2>2. ASSUME NEW p \in Requests \ {q}
          PROVE  Owns(p)'
      BY <1>2, <2>2, OthersStay, RequestKeeps
      DEF OutcomeInv, TypeOK, OwnDocuments, Owns, Kept, AddsOnly
    <2> QED
      BY <2>1, <2>2 DEF Owns, OwnDocuments
  <1> QED
    BY <1>1, <1>2 DEF Next

(* However requests race, one that answered 4xx has stored no document.     *)
THEOREM RefusedAlwaysLeavesNothing ==
  ASSUME IdsApart
  PROVE  Spec => []RefusedLeavesNothing
  <1>1. Init => OutcomeInv /\ OwnDocuments
    <2>1. Init => OwnDocuments
      BY SeedAssumption DEF Init, StoreInit, OwnDocuments
    <2> QED
      BY <2>1, OutcomeInit
  <1>2. OutcomeInv /\ OwnDocuments /\ [Next]_vars => OutcomeInv' /\ OwnDocuments'
    BY OutcomeStep, OwnsStep
  <1>3. OwnDocuments => RefusedLeavesNothing
    BY DEF OwnDocuments, RefusedLeavesNothing, AfterVersion, AfterMeta
  <1> QED
    BY <1>1, <1>2, <1>3, PTL DEF Spec

-----------------------------------------------------------------------------
(* Only the creation itself moves on from between its two inserts.          *)
LEMMA BetweenInserts ==
  ASSUME TypeOK, NEW q \in Requests, Arrive(q) \/ Serve(q) \/ Abort(q),
         pc[q] \in {"insertFirst", "aborted"}
  PROVE  CreateInsertVersion(q) \/ Abort(q)
  BY DEF Arrive, StartCreate, StartPatch, StartAccept, StartReject, StartRetract,
         StartSetCurrent, Start, Serve, CreateInsertMeta, PatchResolve, PatchRead,
         PatchBase, PatchNumber, PatchInsert, AcceptLoad, AcceptDecide,
         AcceptPromote, AcceptNumber, AcceptInsert, AcceptClose, RejectLoad,
         RejectMark, RetractLoad, RetractMark, SetCurrentResolve, SetCurrentRead,
         SetCurrentRestore, ArchiveCurrent, AfterArchive, PointMeta

(* A record appears only with the creation that inserts it.                 *)
LEMMA NewRecord ==
  ASSUME TypeOK, NEW q \in Requests, Arrive(q) \/ Serve(q) \/ Abort(q),
         DOMAIN meta' # DOMAIN meta
  PROVE  CreateInsertMeta(q) /\ pc'[q] = "insertFirst"
  <1> q \in DOMAIN pc
    BY DEF TypeOK, ControlTypeOK
  <1>1. CreateInsertMeta(q)
    BY DEF Arrive, StartCreate, StartPatch, StartAccept, StartReject, StartRetract,
           StartSetCurrent, Start, Serve, CreateInsertVersion, InsertVersion,
           PatchResolve, PatchRead, PatchBase, PatchNumber, PatchInsert, Refuse,
           AcceptLoad, AcceptDecide, AcceptPromote, AcceptNumber, AcceptInsert,
           AcceptClose, RejectLoad, RejectMark, RetractLoad, RetractMark,
           SetCurrentResolve, SetCurrentRead, SetCurrentRestore, ArchiveCurrent,
           archiveVersion, setVersionState, PointMeta, setMetaCurrentVersion,
           Abort, store
  <1> QED
    BY <1>1 DEF CreateInsertMeta, Refuse, Goto, store

LEMMA VersionlessStep ==
  ASSUME OutcomeInv, VersionlessOnlyByCreate, [Next]_vars
  PROVE  VersionlessOnlyByCreate'
  <1>1. CASE UNCHANGED vars
    BY <1>1 DEF vars, store, control, VersionlessOnlyByCreate, VersionsOf
  <1>2. ASSUME NEW q \in Requests, Arrive(q) \/ Serve(q) \/ Abort(q),
               NEW r \in DOMAIN meta', VersionsOf(r)' = {}
        PROVE  r \in Requests /\ pc'[r] \in {"insertFirst", "aborted"}
    <2>1. Grows /\ AddsOnly(q)
      BY <1>2, RequestKeeps DEF OutcomeInv, Kept
    <2>2. CASE r \notin DOMAIN meta
      BY <1>2, <2>1, <2>2, NewRecord DEF AddsOnly, OutcomeInv
    <2>3. CASE r \in DOMAIN meta
      <3>1. VersionsOf(r) = {}
        BY <1>2, <2>1, GrowsKeeps
      <3>2. r \in Requests /\ pc[r] \in {"insertFirst", "aborted"}
        BY <2>3, <3>1 DEF VersionlessOnlyByCreate
      <3>3. CASE r # q
        BY <1>2, <3>2, <3>3, OthersStay DEF OutcomeInv, TypeOK
      <3>4. CASE r = q
        <4>1. CreateInsertVersion(q) \/ Abort(q)
          BY <1>2, <3>2, <3>4, BetweenInserts DEF OutcomeInv
        <4>2. ~CreateInsertVersion(q)
          <5> SUFFICES ASSUME CreateInsertVersion(q) PROVE FALSE
            OBVIOUS
          <5>1. q \in VersionsOf(q)'
            <6>1. RequestInv(q)
              BY DEF OutcomeInv, HistoryInv
            <6> DEFINE doc == [record |-> q, version |-> 1,
                        content |-> job[q].body.content, state |-> "live",
                        base |-> NoVersion, submittedBy |-> job[q].user,
                        reviewedBy |-> job[q].body.reviewedBy,
                        resulting |-> job[q].body.resulting]
            <6>3. InsertVersion(q, doc)
              BY <6>1, CreateIsFirst
            <6>4. doc.record = q
              OBVIOUS
            <6> HIDE DEF doc
            <6>2. q \in DOMAIN versions' /\ versions'[q].record = q
              BY <6>3, <6>4 DEF InsertVersion
            <6> QED
              BY <6>2 DEF VersionsOf
          <5> QED
            BY <1>2, <3>4, <5>1
        <4> QED
          BY <3>2, <3>4, <4>1, <4>2 DEF Abort, OutcomeInv, TypeOK, ControlTypeOK
      <3> QED
        BY <3>3, <3>4
    <2> QED
      BY <2>2, <2>3
  <1> QED
    BY <1>1, <1>2 DEF Next, VersionlessOnlyByCreate

(* A system whose slug is taken and that has no version is one a creation   *)
(* left, or is still making: nothing else takes a system's versions away.   *)
THEOREM VersionlessAlwaysByCreate ==
  ASSUME IdsApart
  PROVE  Spec => []VersionlessOnlyByCreate
  <1>1. Init => OutcomeInv /\ VersionlessOnlyByCreate
    <2>1. Init => VersionlessOnlyByCreate
      BY DEF Init, StoreInit, VersionlessOnlyByCreate, VersionsOf
    <2> QED
      BY <2>1, OutcomeInit
  <1>2. OutcomeInv /\ VersionlessOnlyByCreate /\ [Next]_vars
          => OutcomeInv' /\ VersionlessOnlyByCreate'
    BY OutcomeStep, VersionlessStep
  <1> QED
    BY <1>1, <1>2, PTL DEF Spec
=============================================================================
