---------------------------- MODULE EditorialProofs ----------------------------
(***************************************************************************)
(* What the editors' decisions mean. Whatever races: a submission leaves   *)
(* review only by a request that names it, a partially accepted one names  *)
(* a faithful copy, and a PATCH copies a version that is out of review.    *)
(* When only PATCHes publish: the current version stays listed. Of         *)
(* requests handled one at a time: the version the pointer is moved to is  *)
(* live, an accept overwrites no conflict, and between requests exactly    *)
(* the current version of a system is listed.                              *)
(***************************************************************************)
EXTENDS OutcomeProofs

(* The steps at which a request holds the record its id names.              *)
NamedSteps == AfterCurrentRead \cup {"readTarget", "reject", "retract"}

Named(q) == pc[q] \in NamedSteps => reg[q].record \in DOMAIN meta /\ StillNames(q)

(* Who submitted a version never changes, so a withdrawal checked once      *)
(* stays its submitter's.                                                   *)
OwnSubmission(q) ==
    pc[q] = "retract" =>
      \E d \in GetVersion(reg[q].record, job[q].number) :
        versions[d].submittedBy = job[q].user

(* A copy of current with values of the submission where it changed its     *)
(* base and current had not.                                                *)
CopyOf(content, submitted, current, base) ==
    \A f \in Fields : content[f] # current[f] =>
        content[f] = submitted[f] /\ current[f] = base[f]

DerivedFrom(d, s) ==
    /\ versions[d].version > versions[s].version
    /\ versions[d].submittedBy = versions[s].submittedBy
    /\ \A c \in GetVersion(versions[d].record, versions[d].base),
          b \in GetVersion(versions[s].record, versions[s].base) :
         CopyOf(versions[d].content, versions[s].content, versions[c].content,
                versions[b].content)

CopyMade(q, s) ==
    /\ reg[q].author = versions[s].submittedBy
    /\ \E c \in GetVersion(reg[q].record, reg[q].current),
          b \in GetVersion(reg[q].record, versions[s].base) :
         CopyOf(reg[q].content, versions[s].content, versions[c].content,
                versions[b].content)

(* What an accept that derives a version holds in hand.                     *)
MergeFound(q) ==
    /\ pc[q] \in {"numberDerived", "insertDerived"} =>
         \E s \in GetVersion(reg[q].record, job[q].number) : CopyMade(q, s)
    /\ pc[q] = "insertDerived" => reg[q].next > job[q].number
    /\ pc[q] \in {"archiveDerived", "pointDerived", "close"} =>
         \E s \in GetVersion(reg[q].record, job[q].number),
            d \in GetVersion(reg[q].record, reg[q].next) : DerivedFrom(d, s)

EditorialInv ==
    \A q \in Requests : Named(q) /\ OwnSubmission(q) /\ MergeFound(q)

-----------------------------------------------------------------------------
(* Operators.                                                               *)

(* The merge of AcceptVersion is such a copy.                               *)
LEMMA MergedCopies ==
  ASSUME NEW fields, NEW s \in Content, NEW c \in Content, NEW b \in Content
  PROVE  CopyOf(Merged(fields, s, c, b), s, c, b)
  BY DEF CopyOf, Merged, Derived, Conflicts

(* A version found under a number is the one found there ever after.        *)
LEMMA VersionStays ==
  ASSUME Grows, NumbersUnique', NEW r, NEW n, GetVersion(r, n) # {}
  PROVE  GetVersion(r, n)' = GetVersion(r, n)
  <1>1. \A d \in DOMAIN versions : /\ d \in DOMAIN versions'
                                   /\ versions'[d].record = versions[d].record
                                   /\ versions'[d].version = versions[d].version
    BY DEF Grows, Immutable
  <1> QED
    BY <1>1 DEF GetVersion, VersionsOf, NumbersUnique

LEMMA AtMostOne ==
  ASSUME NumbersUnique, NEW r, NEW n, NEW d \in GetVersion(r, n),
         NEW e \in GetVersion(r, n)
  PROVE  d = e
  BY DEF NumbersUnique, GetVersion, VersionsOf

LEMMA Stays ==
  ASSUME Grows, NEW d \in DOMAIN versions
  PROVE  /\ d \in DOMAIN versions'
         /\ versions'[d].record = versions[d].record
         /\ versions'[d].version = versions[d].version
         /\ versions'[d].content = versions[d].content
         /\ versions'[d].base = versions[d].base
         /\ versions'[d].submittedBy = versions[d].submittedBy
         /\ \A r, n : d \in GetVersion(r, n) => d \in GetVersion(r, n)'
  BY DEF Grows, Immutable, GetVersion, VersionsOf

(* So the version a version is based on is the same one ever after.         *)
LEMMA BaseStays ==
  ASSUME StoreTypeOK, StoreInv, StoreTypeOK', StoreInv', Grows,
         NEW d \in DOMAIN versions
  PROVE  GetVersion(versions[d].record, versions[d].base)'
           = GetVersion(versions[d].record, versions[d].base)
  <1>1. /\ versions'[d].record = versions[d].record
        /\ versions'[d].base = versions[d].base
    BY Stays
  <1>2. CASE versions[d].version = 1
    <2>1. versions[d].base = 0
      BY <1>2 DEF StoreInv, BasePublished, NoVersion
    <2> QED
      BY <1>1, <2>1 DEF StoreTypeOK, GameSystemVersion, GetVersion, VersionsOf
  <1>3. CASE versions[d].version # 1
    <2>1. GetVersion(versions[d].record, versions[d].base) # {}
      BY <1>3, PublishedExists DEF StoreInv, BasePublished
    <2> QED
      BY <1>1, <2>1, VersionStays DEF StoreInv
  <1> QED
    BY <1>2, <1>3

LEMMA DerivedStays ==
  ASSUME StoreTypeOK, StoreInv, StoreTypeOK', StoreInv', Grows,
         NEW d \in DOMAIN versions, NEW s \in DOMAIN versions, DerivedFrom(d, s)
  PROVE  DerivedFrom(d, s)'
  <1>1. \A e \in {d, s} : GetVersion(versions[e].record, versions[e].base)'
                            = GetVersion(versions[e].record, versions[e].base)
    BY BaseStays
  <1>2. \A r, n : GetVersion(r, n) \subseteq DOMAIN versions
    BY DEF GetVersion, VersionsOf
  <1>3. \A e \in DOMAIN versions : versions'[e].content = versions[e].content
    BY Stays
  <1>4. /\ versions'[d].version = versions[d].version
        /\ versions'[s].version = versions[s].version
        /\ versions'[d].submittedBy = versions[d].submittedBy
        /\ versions'[s].submittedBy = versions[s].submittedBy
    BY Stays
  <1> QED
    BY <1>1, <1>2, <1>3, <1>4 DEF DerivedFrom, CopyOf

-----------------------------------------------------------------------------
(* Which action brings a request to which step.                             *)

Entry == {"insertMeta", "insertFirst", "resolve", "loadAccept", "loadReject",
          "loadRetract", "resolveTarget"}

Moves(q) ==
    \/ pc'[q] \in Answers \cup Entry
    \/ pc'[q] = "read" /\ PatchResolve(q)
    \/ pc'[q] = "base" /\ PatchRead(q)
    \/ pc'[q] = "numberPatch" /\ PatchBase(q)
    \/ pc'[q] = "insertPatch" /\ PatchNumber(q)
    \/ pc'[q] = "archive" /\ PatchInsert(q)
    \/ pc'[q] = "decide" /\ AcceptLoad(q)
    \/ pc'[q] \in {"unseat", "numberDerived"} /\ AcceptDecide(q)
    \/ pc'[q] = "pointAccept" /\ AcceptPromote(q)
    \/ pc'[q] = "insertDerived" /\ AcceptNumber(q)
    \/ pc'[q] = "archiveDerived" /\ AcceptInsert(q)
    \/ pc'[q] = "close" /\ PointMeta(q) /\ pc[q] = "pointDerived"
    \/ pc'[q] = "reject" /\ RejectLoad(q)
    \/ pc'[q] = "retract" /\ RetractLoad(q)
    \/ pc'[q] = "readTarget" /\ SetCurrentResolve(q)
    \/ pc'[q] = "rollback" /\ SetCurrentRead(q)
    \/ pc'[q] = "pointTarget" /\ SetCurrentRestore(q)
    \/ /\ ArchiveCurrent(q)
       /\ <<pc[q], pc'[q]>> \in {<<"archive", "pointPatch">>,
                                 <<"unseat", "promote">>,
                                 <<"archiveDerived", "pointDerived">>,
                                 <<"rollback", "restore">>}

LEMMA StepMoves ==
  ASSUME ControlTypeOK, NEW q \in Requests, Arrive(q) \/ Serve(q) \/ Abort(q)
  PROVE  Moves(q)
  <1> pc \in [Requests -> Steps \cup Answers \cup {"idle"}]
    BY DEF ControlTypeOK
  <1> USE DEF Goto, Remember, Answer, Refuse, Answers, Entry
  <1>1. CASE Arrive(q) \/ Abort(q)
    BY <1>1 DEF Moves, Arrive, StartCreate, StartPatch, StartAccept, StartReject,
                StartRetract, StartSetCurrent, Start, Abort
  <1>2. CASE CreateInsertMeta(q) \/ CreateInsertVersion(q)
    BY <1>2 DEF Moves, CreateInsertMeta, CreateInsertVersion
  <1>3. CASE PatchResolve(q) \/ PatchRead(q) \/ PatchBase(q) \/ PatchNumber(q)
    <2>1. \/ pc'[q] \in Answers
          \/ PatchResolve(q) /\ pc'[q] = "read"
          \/ PatchRead(q) /\ pc'[q] = "base"
          \/ PatchBase(q) /\ pc'[q] = "numberPatch"
          \/ PatchNumber(q) /\ pc'[q] = "insertPatch"
      BY <1>3 DEF PatchResolve, PatchRead, PatchBase, PatchNumber
    <2> QED
      BY <2>1 DEF Moves
  <1>4. CASE PatchInsert(q) \/ AcceptInsert(q)
    <2>1. \/ pc'[q] \in Answers
          \/ PatchInsert(q) /\ pc'[q] = "archive"
          \/ AcceptInsert(q) /\ pc'[q] = "archiveDerived"
      BY <1>4 DEF PatchInsert, AcceptInsert
    <2> QED
      BY <2>1 DEF Moves
  <1>5. CASE AcceptLoad(q) \/ AcceptDecide(q) \/ AcceptPromote(q)
             \/ AcceptNumber(q) \/ AcceptClose(q)
    <2>1. \/ pc'[q] \in Answers
          \/ AcceptLoad(q) /\ pc'[q] = "decide"
          \/ AcceptDecide(q) /\ pc'[q] \in {"unseat", "numberDerived"}
          \/ AcceptPromote(q) /\ pc'[q] = "pointAccept"
          \/ AcceptNumber(q) /\ pc'[q] = "insertDerived"
      BY <1>5 DEF AcceptLoad, AcceptDecide, AcceptPromote, AcceptNumber,
                  AcceptClose
    <2> QED
      BY <2>1 DEF Moves
  <1>6. CASE \/ RejectLoad(q) \/ RejectMark(q) \/ RetractLoad(q)
             \/ RetractMark(q) \/ SetCurrentResolve(q) \/ SetCurrentRead(q)
             \/ SetCurrentRestore(q)
    <2>1. \/ pc'[q] \in Answers
          \/ RejectLoad(q) /\ pc'[q] = "reject"
          \/ RetractLoad(q) /\ pc'[q] = "retract"
          \/ SetCurrentResolve(q) /\ pc'[q] = "readTarget"
          \/ SetCurrentRead(q) /\ pc'[q] = "rollback"
          \/ SetCurrentRestore(q) /\ pc'[q] = "pointTarget"
      BY <1>6 DEF RejectLoad, RejectMark, RetractLoad, RetractMark,
                  SetCurrentResolve, SetCurrentRead, SetCurrentRestore
    <2> QED
      BY <2>1 DEF Moves
  <1>7. CASE PointMeta(q)
    BY <1>7 DEF Moves, PointMeta
  <1>8. CASE ArchiveCurrent(q)
    BY <1>8 DEF Moves, ArchiveCurrent, AfterArchive
  <1> QED
    BY <1>1, <1>2, <1>3, <1>4, <1>5, <1>6, <1>7, <1>8 DEF Serve

-----------------------------------------------------------------------------
(* The id of a request and the record it found.                             *)

LEMMA NamedOn ==
  ASSUME Grows, NEW q \in Requests, job'[q] = job[q],
         reg'[q].record \in DOMAIN meta,
         job[q].id \in {MetaId(reg'[q].record),
                        SlugId(meta[reg'[q].record].slug)}
  PROVE  Named(q)'
  BY DEF Named, StillNames, Grows

LEMMA NamedKept ==
  ASSUME Grows, NEW q \in Requests, Named(q), pc[q] \in NamedSteps,
         job'[q] = job[q], reg'[q].record = reg[q].record
  PROVE  Named(q)'
  BY NamedOn DEF Named, StillNames

LEMMA NamedEnds ==
  ASSUME NEW q, pc'[q] \notin NamedSteps
  PROVE  Named(q)'
  BY DEF Named

LEMMA NotNamed ==
  \A step : \/ step \in Answers
            \/ step \in {"insertMeta", "insertFirst", "resolve", "read", "base",
                         "loadAccept", "decide", "loadReject", "loadRetract",
                         "resolveTarget"}
            => step \notin NamedSteps
  BY DEF Answers, NamedSteps, AfterCurrentRead

LEMMA GetMetaNames ==
  ASSUME NEW id, NEW r \in GetMeta(id)
  PROVE  r \in DOMAIN meta /\ id \in {MetaId(r), SlugId(meta[r].slug)}
  BY DEF GetMeta

LEMMA PendingNames ==
  ASSUME StoreInv, NEW j, NEW d \in Pending(j)
  PROVE  /\ j.id.of \in DOMAIN meta /\ j.id = MetaId(j.id.of)
         /\ d \in GetVersion(j.id.of, j.number)
  <1>1. MetaId(versions[d].record).of = versions[d].record
    BY DEF MetaId
  <1> QED
    BY <1>1 DEF Pending, Addressed, StoreInv, RecordsKnown, GetVersion, VersionsOf

(* The steps of a request that go on with the record it holds.              *)
Carries(q) ==
    \/ PatchNumber(q) \/ PatchInsert(q) \/ AcceptPromote(q) \/ AcceptNumber(q)
    \/ AcceptInsert(q) \/ AcceptClose(q) \/ RejectMark(q) \/ RetractMark(q)
    \/ SetCurrentRead(q) \/ SetCurrentRestore(q) \/ ArchiveCurrent(q)
    \/ PointMeta(q) \/ Abort(q)

LEMMA CarriesNamed ==
  ASSUME ControlTypeOK, NEW q \in Requests, Carries(q), Grows, Named(q)
  PROVE  Named(q)'
  <1> /\ pc \in [Requests -> Steps \cup Answers \cup {"idle"}]
      /\ reg \in [Requests -> Locals] /\ DOMAIN job = Requests
    BY DEF ControlTypeOK
  <1> USE DEF Goto, Remember, Answer, Refuse, Answers
  <1>1. CASE pc'[q] \in Answers
    BY <1>1, NamedEnds, NotNamed
  <1>2. CASE pc'[q] \notin Answers
    <2>1. pc[q] \in NamedSteps
      BY <1>2
      DEF Carries, NamedSteps, AfterCurrentRead, PatchNumber, PatchInsert,
          AcceptPromote, AcceptNumber, AcceptInsert, AcceptClose, RejectMark,
          RetractMark, SetCurrentRead, SetCurrentRestore, ArchiveCurrent,
          AfterArchive, PointMeta, Abort
    <2>2. job'[q] = job[q] /\ reg'[q].record = reg[q].record
      <3>1. CASE PatchNumber(q) \/ AcceptNumber(q)
        <4>1. PICK n : reg' = [reg EXCEPT ![q] = [reg[q] EXCEPT !.next = n]]
                       /\ job' = job
          BY <3>1 DEF PatchNumber, AcceptNumber
        <4> QED
          BY <4>1 DEF Locals
      <3>2. CASE ~(PatchNumber(q) \/ AcceptNumber(q))
        BY <1>2, <3>2
        DEF Carries, PatchInsert, AcceptPromote, AcceptInsert, AcceptClose,
            RejectMark, RetractMark, SetCurrentRead, SetCurrentRestore,
            ArchiveCurrent, PointMeta, Abort
      <3> QED
        BY <3>1, <3>2
    <2> QED
      BY <2>1, <2>2, NamedKept
  <1> QED
    BY <1>1, <1>2

(* The steps that find it.                                                  *)
LEMMA FindsNamed ==
  ASSUME ControlTypeOK, StoreInv, NEW q \in Requests, Grows,
         \/ PatchBase(q) \/ AcceptDecide(q) \/ RejectLoad(q) \/ RetractLoad(q)
         \/ SetCurrentResolve(q)
  PROVE  Named(q)'
  <1> /\ pc \in [Requests -> Steps \cup Answers \cup {"idle"}]
      /\ reg \in [Requests -> Locals] /\ DOMAIN job = Requests
    BY DEF ControlTypeOK
  <1> USE DEF Remember, Answer, Answers
  <1>1. CASE pc'[q] \in Answers
    BY <1>1, NamedEnds, NotNamed
  <1>2. CASE pc'[q] \notin Answers
    <2>1. CASE PatchBase(q)
      <3>1. PICK r \in GetMeta(job[q].id) :
              /\ reg' = [reg EXCEPT ![q] = [reg[q] EXCEPT !.record = r,
                                              !.current = meta[r].current]]
              /\ job' = job
        BY <1>2, <2>1 DEF PatchBase
      <3>2. reg'[q].record = r
        BY <3>1 DEF Locals
      <3> QED
        BY <3>1, <3>2, GetMetaNames, NamedOn
    <2>2. CASE AcceptDecide(q)
      <3> DEFINE Copied(r, s, c, b) ==
                   [Located(r, NoVersion) EXCEPT
                      !.content = Merged(job[q].fields, versions[s].content,
                                    versions[c].content, versions[b].content),
                      !.author = versions[s].submittedBy,
                      !.reviewedBy = job[q].user]
      <3>1. ~Answer(q, "refused")
        BY <1>2
      <3> HIDE DEF Answer, Remember
      <3>2. PICK r \in GetMeta(job[q].id) :
              \E s \in Addressed(job[q]) :
                \/ Remember(q, "unseat", Located(r, job[q].number))
                \/ \E c, b : Remember(q, "numberDerived", Copied(r, s, c, b))
        BY <2>2, <3>1 DEF AcceptDecide
      <3>3. \A s, c, b : /\ Located(r, job[q].number).record = r
                         /\ Copied(r, s, c, b).record = r
        BY DEF Located
      <3> HIDE DEF Copied
      <3>4. reg'[q].record = r /\ job' = job
        BY <3>2, <3>3 DEF Remember
      <3> QED
        BY <3>4, GetMetaNames, NamedOn
    <2>3. CASE RejectLoad(q) \/ RetractLoad(q)
      <3>1. /\ Pending(job[q]) # {} /\ job' = job
            /\ reg' = [reg EXCEPT ![q] = [NoReg EXCEPT !.record = job[q].id.of]]
        BY <1>2, <2>3 DEF RejectLoad, RetractLoad
      <3>2. reg'[q].record = job[q].id.of
        BY <3>1 DEF NoReg
      <3> QED
        BY <3>1, <3>2, PendingNames, NamedOn
    <2>4. CASE SetCurrentResolve(q)
      <3>1. PICK r \in GetMeta(job[q].id) :
              /\ reg' = [reg EXCEPT ![q] = Located(r, job[q].number)]
              /\ job' = job
        BY <1>2, <2>4 DEF SetCurrentResolve
      <3>2. reg'[q].record = r
        BY <3>1 DEF Located
      <3> QED
        BY <3>1, <3>2, GetMetaNames, NamedOn
    <2> QED
      BY <2>1, <2>2, <2>3, <2>4
  <1> QED
    BY <1>1, <1>2

LEMMA NamedStep ==
  ASSUME TypeOK, HistoryInv, NEW q \in Requests,
         Arrive(q) \/ Serve(q) \/ Abort(q), Grows, Named(q)
  PROVE  Named(q)'
  <1> ControlTypeOK /\ StoreInv
    BY DEF TypeOK, HistoryInv
  <1>1. CASE Carries(q)
    BY <1>1, CarriesNamed
  <1>2. CASE \/ PatchBase(q) \/ AcceptDecide(q) \/ RejectLoad(q)
             \/ RetractLoad(q) \/ SetCurrentResolve(q)
    BY <1>2, FindsNamed
  <1>3. CASE \/ Arrive(q) \/ CreateInsertMeta(q) \/ CreateInsertVersion(q)
             \/ PatchResolve(q) \/ PatchRead(q) \/ AcceptLoad(q)
    <2>1. pc'[q] \in Answers \cup {"insertMeta", "insertFirst", "resolve", "read",
                       "base", "loadAccept", "decide", "loadReject",
                       "loadRetract", "resolveTarget"}
      BY <1>3
      DEF Arrive, StartCreate, StartPatch, StartAccept, StartReject,
          StartRetract, StartSetCurrent, Start, CreateInsertMeta,
          CreateInsertVersion, PatchResolve, PatchRead, AcceptLoad, Goto,
          Remember, Answer, Refuse, Answers, ControlTypeOK
    <2> QED
      BY <2>1, NotNamed, NamedEnds
  <1> QED
    BY <1>1, <1>2, <1>3 DEF Serve, Carries

(* A request that withdraws a version is its submitter's.                   *)
LEMMA OwnSubmissionStep ==
  ASSUME TypeOK, HistoryInv, NEW q \in Requests,
         Arrive(q) \/ Serve(q) \/ Abort(q), Grows
  PROVE  OwnSubmission(q)'
  <1> SUFFICES ASSUME pc'[q] = "retract"
               PROVE  OwnSubmission(q)'
    BY DEF OwnSubmission
  <1> /\ pc \in [Requests -> Steps \cup Answers \cup {"idle"}]
      /\ reg \in [Requests -> Locals] /\ DOMAIN job = Requests
    BY DEF TypeOK, ControlTypeOK
  <1>1. RetractLoad(q)
    BY StepMoves DEF TypeOK, Moves, Answers, Entry
  <1>2. PICK d \in Pending(job[q]) : versions[d].submittedBy = job[q].user
    BY <1>1 DEF RetractLoad, Answer
  <1>3. /\ versions' = versions /\ meta' = meta /\ job' = job
        /\ reg'[q].record = job[q].id.of
    BY <1>1, <1>2 DEF RetractLoad, Remember, NoReg, store
  <1>4. d \in GetVersion(job[q].id.of, job[q].number)
    BY <1>2, PendingNames DEF HistoryInv
  <1>5. GetVersion(reg[q].record, job[q].number)'
          = GetVersion(job[q].id.of, job[q].number)
    BY <1>3 DEF GetVersion, VersionsOf
  <1> QED
    BY <1>2, <1>3, <1>4, <1>5 DEF OwnSubmission

-----------------------------------------------------------------------------
(* The steps that rewrite a stored version: what they rewrite, and to what. *)

Restated(d, state) == /\ versions'[d].state = state
                      /\ versions'[d].resulting = versions[d].resulting

Rewrites(q, d) ==
    \/ /\ ArchiveCurrent(q) /\ d \in GetVersion(reg[q].record, reg[q].current)
       /\ Restated(d, "archived")
    \/ /\ d \in GetVersion(reg[q].record, job[q].number)
       /\ \/ AcceptPromote(q) /\ Restated(d, "live")
          \/ SetCurrentRestore(q) /\ Restated(d, "live")
          \/ RejectMark(q) /\ Restated(d, "rejected")
          \/ RetractMark(q) /\ Restated(d, "withdrawn")
          \/ /\ AcceptClose(q) /\ versions'[d].state = "partially_accepted"
             /\ versions'[d].resulting = reg[q].next

LEMMA Rewritten ==
  ASSUME StoreTypeOK, NEW q \in Requests, RequestInv(q),
         Arrive(q) \/ Serve(q) \/ Abort(q), NEW d \in DOMAIN versions
  PROVE  versions'[d] = versions[d] \/ Rewrites(q, d)
  <1> versions[d] \in GameSystemVersion
    BY DEF StoreTypeOK
  <1> USE DEF setVersionState, GameSystemVersion, Restated
  <1>1. CASE ArchiveCurrent(q)
    BY <1>1 DEF Rewrites, ArchiveCurrent, archiveVersion
  <1>2. CASE AcceptPromote(q)
    <2>1. IF d \in GetVersion(reg[q].record, job[q].number)
          THEN versions'[d] = [versions[d] EXCEPT !.state = "live",
                                                  !.reviewedBy = job[q].user]
          ELSE versions'[d] = versions[d]
      BY <1>2 DEF AcceptPromote
    <2>2. LET v == [versions[d] EXCEPT !.state = "live",
                                       !.reviewedBy = job[q].user]
          IN  v.state = "live" /\ v.resulting = versions[d].resulting
      OBVIOUS
    <2> QED
      BY <1>2, <2>1, <2>2 DEF Rewrites
  <1>3. CASE SetCurrentRestore(q)
    BY <1>3 DEF Rewrites, SetCurrentRestore
  <1>4. CASE RejectMark(q)
    <2>1. IF d \in GetVersion(reg[q].record, job[q].number)
          THEN versions'[d] = [versions[d] EXCEPT !.state = "rejected",
                                                  !.reviewedBy = job[q].user]
          ELSE versions'[d] = versions[d]
      BY <1>4 DEF RejectMark
    <2>2. LET v == [versions[d] EXCEPT !.state = "rejected",
                                       !.reviewedBy = job[q].user]
          IN  v.state = "rejected" /\ v.resulting = versions[d].resulting
      OBVIOUS
    <2> QED
      BY <1>4, <2>1, <2>2 DEF Rewrites
  <1>5. CASE RetractMark(q)
    BY <1>5 DEF Rewrites, RetractMark
  <1>6. CASE AcceptClose(q)
    <2>1. IF d \in GetVersion(reg[q].record, job[q].number)
          THEN versions'[d] = [versions[d] EXCEPT !.state = "partially_accepted",
                                                  !.reviewedBy = job[q].user,
                                                  !.resulting = reg[q].next]
          ELSE versions'[d] = versions[d]
      BY <1>6 DEF AcceptClose
    <2>2. LET v == [versions[d] EXCEPT !.state = "partially_accepted",
                                       !.reviewedBy = job[q].user,
                                       !.resulting = reg[q].next]
          IN  v.state = "partially_accepted" /\ v.resulting = reg[q].next
      OBVIOUS
    <2> QED
      BY <1>6, <2>1, <2>2 DEF Rewrites
  <1>7. CASE \/ CreateInsertMeta(q) \/ CreateInsertVersion(q) \/ PatchInsert(q)
             \/ AcceptInsert(q) \/ PointMeta(q) \/ Abort(q)
    <2>1. versions' = versions \/ \E doc : InsertVersion(q, doc)
      <3> HIDE DEF GameSystemVersion
      <3> QED
        BY <1>7
        DEF CreateInsertMeta, InsertMeta, CreateInsertVersion, PatchInsert,
            AcceptInsert, PointMeta, setMetaCurrentVersion, Abort, Refuse, store
    <2>2. \A doc : InsertVersion(q, doc) /\ d # q => versions'[d] = versions[d]
      BY DEF InsertVersion
    <2>3. d # q \/ versions' = versions
      BY <1>7
      DEF CreateInsertMeta, InsertMeta, CreateInsertVersion, PatchInsert,
          AcceptInsert, PointMeta, setMetaCurrentVersion, Abort, store, Refuse,
          RequestInv, Fresh, BeforeInsert
    <2> QED
      BY <2>1, <2>2, <2>3
  <1>8. CASE \/ Arrive(q) \/ PatchResolve(q) \/ PatchRead(q) \/ PatchBase(q)
             \/ PatchNumber(q) \/ AcceptLoad(q) \/ AcceptDecide(q)
             \/ AcceptNumber(q) \/ RejectLoad(q) \/ RetractLoad(q)
             \/ SetCurrentResolve(q) \/ SetCurrentRead(q)
    BY <1>8
    DEF Arrive, StartCreate, StartPatch, StartAccept, StartReject, StartRetract,
        StartSetCurrent, Start, PatchResolve, PatchRead, PatchBase, PatchNumber,
        AcceptLoad, AcceptDecide, AcceptNumber, RejectLoad, RetractLoad,
        SetCurrentResolve, SetCurrentRead, store
  <1> QED
    BY <1>1, <1>2, <1>3, <1>4, <1>5, <1>6, <1>7, <1>8 DEF Serve

-----------------------------------------------------------------------------
(* Only a request that names a version changes its state, but to archive it.*)

Decision(q, d) ==
    /\ job[q].op \in {"accept", "reject", "retract", "setCurrent"}
    /\ Names(q, d)
    /\ IF versions'[d].state = "withdrawn"
       THEN job[q].user = versions[d].submittedBy
       ELSE job[q].user \in Reviewers

LEMMA DecisionNamed ==
  ASSUME TypeOK, HistoryInv, EditorialInv, NEW q \in Requests,
         NEW d \in DOMAIN versions, Rewrites(q, d),
         versions[d].state = "submitted" \/ versions'[d].state # "archived"
  PROVE  q \in InFlight /\ Decision(q, d)
  <1>1. ~ArchiveCurrent(q)
    <2> SUFFICES ASSUME ArchiveCurrent(q) PROVE FALSE
      OBVIOUS
    <2>1. d \in GetVersion(reg[q].record, reg[q].current)
      BY DEF Rewrites, ArchiveCurrent, AfterArchive, AcceptPromote,
             SetCurrentRestore, RejectMark, RetractMark, AcceptClose
    <2>3. versions'[d].state = "archived"
      BY DEF Rewrites, Restated, ArchiveCurrent, AfterArchive, AcceptPromote,
             SetCurrentRestore, RejectMark, RetractMark, AcceptClose
    <2>2. IsPublished(reg[q].record, reg[q].current)
      BY DEF ArchiveCurrent, AfterArchive, HistoryInv, RequestInv, CurrentRead,
             AfterCurrentRead
    <2> QED
      BY <2>1, <2>2, <2>3, AtMostOne DEF IsPublished, HistoryInv, StoreInv
  <1>2. /\ d \in GetVersion(reg[q].record, job[q].number)
        /\ pc[q] \in {"promote", "close", "reject", "retract", "restore"}
        /\ versions'[d].state = "withdrawn" <=> pc[q] = "retract"
    BY <1>1 DEF Rewrites, Restated, AcceptPromote, SetCurrentRestore, RejectMark,
                RetractMark, AcceptClose
  <1>3. Named(q) /\ OwnSubmission(q)
    BY DEF EditorialInv
  <1>4. Names(q, d)
    BY <1>2, <1>3 DEF Named, NamedSteps, AfterCurrentRead, StillNames, Names,
                      GetVersion, VersionsOf
  <1>5. /\ pc[q] \in {"promote", "close"} => job[q] \in AcceptJob
        /\ pc[q] = "reject" => job[q] \in RejectJob
        /\ pc[q] = "retract" => job[q] \in RetractJob
        /\ pc[q] = "restore" => job[q] \in CurrentJob
    BY JobOfStep DEF TypeOK, AcceptSteps, RejectSteps, RetractSteps, CurrentSteps
  <1>6. /\ job[q].op \in {"accept", "reject", "retract", "setCurrent"}
        /\ pc[q] # "retract" => job[q].user \in Reviewers
    BY <1>2, <1>5 DEF AcceptJob, RejectJob, RetractJob, CurrentJob
  <1>7. pc[q] = "retract" => job[q].user = versions[d].submittedBy
    BY <1>2, <1>3, AtMostOne DEF OwnSubmission, HistoryInv, StoreInv
  <1>8. q \in InFlight
    BY <1>2 DEF InFlight, Steps, AcceptSteps, RejectSteps, RetractSteps,
                CurrentSteps
  <1> QED
    BY <1>2, <1>4, <1>6, <1>7, <1>8 DEF Decision

LEMMA DecidedStep ==
  ASSUME TypeOK, HistoryInv, EditorialInv, [Next]_vars,
         NEW d \in DOMAIN versions, versions'[d].state # versions[d].state,
         versions[d].state = "submitted" \/ versions'[d].state # "archived"
  PROVE  \E q \in InFlight : Decision(q, d)
  <1>1. ~UNCHANGED vars
    BY DEF vars, store
  <1>2. PICK q \in Requests : Arrive(q) \/ Serve(q) \/ Abort(q)
    BY <1>1 DEF Next
  <1>3. Rewrites(q, d)
    BY <1>2, Rewritten DEF TypeOK, HistoryInv
  <1> QED
    BY <1>3, DecisionNamed

-----------------------------------------------------------------------------
(* The copy an accept derives.                                              *)

LEMMA Inserted ==
  ASSUME NEW q \in Requests, Arrive(q) \/ Serve(q) \/ Abort(q),
         NEW d \in DOMAIN versions' \ DOMAIN versions
  PROVE  /\ d = q /\ versions'[q].state \in {"live", "submitted"}
         /\ \/ /\ CreateInsertVersion(q)
               /\ versions'[q].record = q /\ versions'[q].state = "live"
            \/ PatchInsert(q) /\ versions'[q] = NewVersion(q)
            \/ AcceptInsert(q) /\ versions'[q] = DerivedVersion(q)
  <1>1. CreateInsertVersion(q) \/ PatchInsert(q) \/ AcceptInsert(q)
    BY DEF Arrive, StartCreate, StartPatch, StartAccept, StartReject, StartRetract,
           StartSetCurrent, Start, Serve, CreateInsertMeta, InsertMeta, Refuse,
           PatchResolve, PatchRead, PatchBase, PatchNumber, AcceptLoad,
           AcceptDecide, AcceptPromote, AcceptNumber, AcceptClose, RejectLoad,
           RejectMark, RetractLoad, RetractMark, SetCurrentResolve,
           SetCurrentRead, SetCurrentRestore, ArchiveCurrent, archiveVersion,
           setVersionState, PointMeta, setMetaCurrentVersion, Abort, store
  <1>2. CASE CreateInsertVersion(q)
    <2> DEFINE doc == [record |-> q, version |-> 1,
                       content |-> job[q].body.content, state |-> "live",
                       base |-> NoVersion, submittedBy |-> job[q].user,
                       reviewedBy |-> job[q].body.reviewedBy,
                       resulting |-> job[q].body.resulting]
    <2>1. InsertVersion(q, doc)
      BY <1>2 DEF CreateInsertVersion, Refuse, store
    <2>2. doc.record = q /\ doc.state = "live"
      OBVIOUS
    <2> HIDE DEF doc
    <2> QED
      BY <1>2, <2>1, <2>2 DEF InsertVersion
  <1>3. CASE PatchInsert(q)
    <2>1. InsertVersion(q, NewVersion(q))
      BY <1>3 DEF PatchInsert, Refuse, store
    <2>2. NewVersion(q).state \in {"live", "submitted"}
      BY DEF NewVersion, PatchState
    <2> QED
      BY <1>3, <2>1, <2>2 DEF InsertVersion
  <1>4. CASE AcceptInsert(q)
    <2>1. InsertVersion(q, DerivedVersion(q))
      BY <1>4 DEF AcceptInsert, Refuse, store
    <2>2. DerivedVersion(q).state = "live"
      BY DEF DerivedVersion
    <2> QED
      BY <1>4, <2>1, <2>2 DEF InsertVersion
  <1> QED
    BY <1>1, <1>2, <1>3, <1>4

(* What an accept has found stays as it found it, whatever else happens.    *)
LEMMA CopyKept ==
  ASSUME StoreTypeOK, StoreInv, StoreTypeOK', StoreInv', Grows,
         NEW q \in Requests, reg'[q] = reg[q], NEW s \in DOMAIN versions,
         CopyMade(q, s)
  PROVE  CopyMade(q, s)'
  <1>1. PICK c \in GetVersion(reg[q].record, reg[q].current),
             b \in GetVersion(reg[q].record, versions[s].base) :
          CopyOf(reg[q].content, versions[s].content, versions[c].content,
                 versions[b].content)
    BY DEF CopyMade
  <1>2. c \in DOMAIN versions /\ b \in DOMAIN versions
    BY <1>1 DEF GetVersion, VersionsOf
  <1>3. \A e \in {s, c, b} : versions'[e].content = versions[e].content
    BY <1>2, Stays
  <1>4. /\ versions'[s].base = versions[s].base
        /\ versions'[s].submittedBy = versions[s].submittedBy
    BY Stays
  <1>5. c \in GetVersion(reg[q].record, reg[q].current)'
          /\ b \in GetVersion(reg[q].record, versions[s].base)'
    BY <1>1, <1>2, <1>4, Stays
  <1>6. CopyOf(reg[q].content, versions[s].content, versions[c].content,
               versions[b].content)'
    BY <1>1, <1>3 DEF CopyOf
  <1> QED
    BY <1>4, <1>5, <1>6 DEF CopyMade

LEMMA DerivedKept ==
  ASSUME StoreTypeOK, StoreInv, StoreTypeOK', StoreInv', Grows,
         NEW r, NEW n, NEW m,
         \E s \in GetVersion(r, n), d \in GetVersion(r, m) : DerivedFrom(d, s)
  PROVE  \E s \in GetVersion(r, n)', d \in GetVersion(r, m)' : DerivedFrom(d, s)'
  <1>1. PICK s \in GetVersion(r, n), d \in GetVersion(r, m) : DerivedFrom(d, s)
    OBVIOUS
  <1>2. s \in DOMAIN versions /\ d \in DOMAIN versions
    BY DEF GetVersion, VersionsOf
  <1>3. DerivedFrom(d, s)'
    BY <1>1, <1>2, DerivedStays
  <1>4. s \in GetVersion(r, n)' /\ d \in GetVersion(r, m)'
    BY <1>2, Stays
  <1> QED
    BY <1>3, <1>4

LEMMA MergeKept ==
  ASSUME StoreTypeOK, StoreInv, StoreTypeOK', StoreInv', Grows,
         NEW q \in Requests, pc'[q] = pc[q], job'[q] = job[q], reg'[q] = reg[q],
         MergeFound(q)
  PROVE  MergeFound(q)'
  <1>1. ASSUME pc[q] \in {"numberDerived", "insertDerived"}
        PROVE  (\E s \in GetVersion(reg[q].record, job[q].number) :
                  CopyMade(q, s))'
    <2>1. PICK s \in GetVersion(reg[q].record, job[q].number) : CopyMade(q, s)
      BY <1>1 DEF MergeFound
    <2>2. s \in DOMAIN versions
      BY DEF GetVersion, VersionsOf
    <2>3. CopyMade(q, s)'
      BY <2>1, <2>2, CopyKept
    <2>4. s \in GetVersion(reg[q].record, job[q].number)'
      BY <2>2, Stays
    <2> QED
      BY <2>3, <2>4
  <1>2. ASSUME pc[q] \in {"archiveDerived", "pointDerived", "close"}
        PROVE  (\E s \in GetVersion(reg[q].record, job[q].number),
                   d \in GetVersion(reg[q].record, reg[q].next) :
                  DerivedFrom(d, s))'
    BY <1>2, DerivedKept DEF MergeFound
  <1> QED
    BY <1>1, <1>2 DEF MergeFound

LEMMA DecideMerges ==
  ASSUME IdsApart, StoreTypeOK, ControlTypeOK, NEW q \in Requests,
         AcceptDecide(q)
  PROVE  MergeFound(q)'
  <1> /\ pc \in [Requests -> Steps \cup Answers \cup {"idle"}]
      /\ reg \in [Requests -> Locals] /\ DOMAIN job = Requests
    BY DEF ControlTypeOK
  <1> SUFFICES ASSUME pc'[q] = "numberDerived" PROVE MergeFound(q)'
    BY DEF MergeFound, AcceptDecide, Answer, Remember
  <1> DEFINE Content2(s, c, b) == Merged(job[q].fields, versions[s].content,
                                         versions[c].content, versions[b].content)
             Copied(r, s, c, b) == [Located(r, NoVersion) EXCEPT
                                      !.content = Content2(s, c, b),
                                      !.author = versions[s].submittedBy,
                                      !.reviewedBy = job[q].user]
  <1>1. ~Answer(q, "refused")
    BY DEF Answer
  <1>2. PICK r \in GetMeta(job[q].id) : \E s \in GetVersion(r, job[q].number) :
          \E c \in GetVersion(r, meta[r].current),
             b \in GetVersion(r, versions[s].base) :
            Remember(q, "numberDerived", Copied(r, s, c, b))
    <2>1. \A l : ~Remember(q, "unseat", l)
      BY DEF Remember
    <2> QED
      BY <1>1, <2>1, DecideFinds
  <1>3. PICK s \in GetVersion(r, job[q].number) :
          \E c \in GetVersion(r, meta[r].current),
             b \in GetVersion(r, versions[s].base) :
            Remember(q, "numberDerived", Copied(r, s, c, b))
    BY <1>2
  <1>4. PICK c \in GetVersion(r, meta[r].current),
             b \in GetVersion(r, versions[s].base) :
          Remember(q, "numberDerived", Copied(r, s, c, b))
    BY <1>3
  <1>5. /\ Copied(r, s, c, b).record = r
        /\ Copied(r, s, c, b).current = meta[r].current
        /\ Copied(r, s, c, b).author = versions[s].submittedBy
        /\ Copied(r, s, c, b).content = Content2(s, c, b)
    BY DEF Located
  <1>6. CopyOf(Content2(s, c, b), versions[s].content, versions[c].content,
               versions[b].content)
    <2>1. \A d \in {s, c, b} : versions[d].content \in Content
      BY DEF StoreTypeOK, GameSystemVersion, GetVersion, VersionsOf
    <2> QED
      BY <2>1, MergedCopies
  <1> HIDE DEF Content2, Copied
  <1>7. /\ reg'[q].record = r /\ reg'[q].current = meta[r].current
        /\ reg'[q].author = versions[s].submittedBy
        /\ reg'[q].content = Content2(s, c, b) /\ job' = job
    BY <1>4, <1>5 DEF Remember
  <1>8. versions' = versions /\ meta' = meta
    BY DEF AcceptDecide, store
  <1>9. \A n : GetVersion(r, n)' = GetVersion(r, n)
    BY <1>8 DEF GetVersion, VersionsOf
  <1>10. CopyMade(q, s)'
    BY <1>6, <1>7, <1>8, <1>9 DEF CopyMade, CopyOf
  <1> QED
    BY <1>7, <1>9, <1>10 DEF MergeFound

LEMMA NumberMerges ==
  ASSUME StoreTypeOK, ControlTypeOK, NEW q \in Requests, AcceptNumber(q),
         MergeFound(q)
  PROVE  MergeFound(q)'
  <1> /\ pc \in [Requests -> Steps \cup Answers \cup {"idle"}]
      /\ reg \in [Requests -> Locals] /\ DOMAIN job = Requests
    BY DEF ControlTypeOK
  <1>1. PICK n \in nextVersionNumber(reg[q].record) :
          Remember(q, "insertDerived", [reg[q] EXCEPT !.next = n])
    BY DEF AcceptNumber
  <1>2. /\ pc'[q] = "insertDerived" /\ job' = job
        /\ reg'[q].record = reg[q].record /\ reg'[q].current = reg[q].current
        /\ reg'[q].author = reg[q].author /\ reg'[q].content = reg[q].content
        /\ reg'[q].next = n
    BY <1>1 DEF Remember, Locals
  <1>3. versions' = versions /\ \A r, m : GetVersion(r, m)' = GetVersion(r, m)
    BY DEF AcceptNumber, store, GetVersion, VersionsOf
  <1>4. PICK s \in GetVersion(reg[q].record, job[q].number) : CopyMade(q, s)
    BY DEF MergeFound, AcceptNumber
  <1>5. CopyMade(q, s)'
    BY <1>2, <1>3, <1>4 DEF CopyMade, CopyOf
  <1>6. n > job[q].number
    BY <1>4 DEF nextVersionNumber, GetVersion, VersionsOf, StoreTypeOK,
                GameSystemVersion
  <1> QED
    BY <1>2, <1>3, <1>4, <1>5, <1>6 DEF MergeFound

LEMMA InsertMerges ==
  ASSUME StoreTypeOK, StoreInv, StoreTypeOK', StoreInv', Grows, ControlTypeOK,
         NEW q \in Requests, RequestInv(q), AcceptInsert(q), MergeFound(q)
  PROVE  MergeFound(q)'
  <1> /\ pc \in [Requests -> Steps \cup Answers \cup {"idle"}]
      /\ reg \in [Requests -> Locals] /\ DOMAIN job = Requests
    BY DEF ControlTypeOK
  <1>1. CASE Refuse(q)
    BY <1>1 DEF Refuse, Answer, MergeFound
  <1>2. CASE InsertVersion(q, DerivedVersion(q)) /\ Goto(q, "archiveDerived")
    <2>1. pc'[q] = "archiveDerived" /\ job' = job /\ reg' = reg
      BY <1>2 DEF Goto
    <2>2. q \in DOMAIN versions' /\ versions'[q] = DerivedVersion(q)
      BY <1>2 DEF InsertVersion
    <2>3. /\ versions'[q].record = reg[q].record
          /\ versions'[q].version = reg[q].next
          /\ versions'[q].content = reg[q].content
          /\ versions'[q].base = reg[q].current
          /\ versions'[q].submittedBy = reg[q].author
      BY <2>2 DEF DerivedVersion
    <2>4. PICK s \in GetVersion(reg[q].record, job[q].number) : CopyMade(q, s)
      BY DEF MergeFound, AcceptInsert
    <2>5. s \in DOMAIN versions /\ versions[s].version = job[q].number
            /\ versions[s].record = reg[q].record
      BY <2>4 DEF GetVersion, VersionsOf
    <2>6. CopyMade(q, s)'
      BY <2>1, <2>4, <2>5, CopyKept
    <2>7. \A r, n : \A d, e \in GetVersion(r, n)' : d = e
      BY DEF StoreInv, NumbersUnique, GetVersion, VersionsOf
    <2>8. /\ versions'[s].version = versions[s].version
          /\ versions'[s].record = versions[s].record
          /\ s \in GetVersion(reg[q].record, job[q].number)'
      BY <2>1, <2>4, <2>5, Stays
    <2>9. reg[q].next > job[q].number
      BY DEF MergeFound, AcceptInsert
    <2>10. DerivedFrom(q, s)'
      <3>1. PICK c \in GetVersion(reg[q].record, reg[q].current)',
                 b \in GetVersion(reg[q].record, versions[s].base)' :
              CopyOf(reg[q].content, versions[s].content, versions[c].content,
                     versions[b].content)'
        BY <2>6 DEF CopyMade
      <3>2. GetVersion(versions[q].record, versions[q].base)' = {c}
        BY <2>1, <2>3, <2>7, <3>1
      <3>3. GetVersion(versions[s].record, versions[s].base)' = {b}
        BY <2>1, <2>5, <2>7, <2>8, <3>1
      <3>4. CopyOf(versions[q].content, versions[s].content, versions[c].content,
                   versions[b].content)'
        BY <2>1, <2>3, <3>1
      <3>5. versions'[q].version > versions'[s].version
              /\ versions'[q].submittedBy = versions'[s].submittedBy
        BY <2>1, <2>3, <2>5, <2>6, <2>8, <2>9 DEF CopyMade
      <3> QED
        BY <3>2, <3>3, <3>4, <3>5 DEF DerivedFrom
    <2>11. q \in GetVersion(reg[q].record, reg[q].next)'
      BY <2>1, <2>2, <2>3 DEF GetVersion, VersionsOf
    <2> QED
      BY <2>1, <2>8, <2>10, <2>11 DEF MergeFound
  <1> QED
    BY <1>1, <1>2 DEF AcceptInsert

LEMMA MergeStep ==
  ASSUME TypeOK, HistoryInv, TypeOK', StoreInv', Grows, NEW q \in Requests,
         Arrive(q) \/ Serve(q) \/ Abort(q), MergeFound(q)
  PROVE  MergeFound(q)'
  <1> /\ IdsApart /\ StoreTypeOK /\ StoreTypeOK' /\ ControlTypeOK /\ StoreInv
      /\ RequestInv(q)
    BY DEF TypeOK, HistoryInv
  <1> /\ pc \in [Requests -> Steps \cup Answers \cup {"idle"}]
      /\ reg \in [Requests -> Locals] /\ DOMAIN job = Requests
    BY DEF ControlTypeOK
  <1>1. CASE AcceptDecide(q) \/ AcceptNumber(q) \/ AcceptInsert(q)
    BY <1>1, DecideMerges, NumberMerges, InsertMerges
  <1>2. CASE ArchiveCurrent(q) \/ PointMeta(q)
    <2> SUFFICES ASSUME pc'[q] \in {"numberDerived", "insertDerived",
                                    "archiveDerived", "pointDerived", "close"}
                 PROVE  MergeFound(q)'
      BY DEF MergeFound
    <2>1. /\ pc[q] \in {"archiveDerived", "pointDerived"}
          /\ pc'[q] \in {"pointDerived", "close"} /\ job' = job /\ reg' = reg
      BY <1>2 DEF ArchiveCurrent, AfterArchive, PointMeta, Goto, Answer
    <2> QED
      BY <2>1, DerivedKept DEF MergeFound
  <1>3. CASE ~(\/ AcceptDecide(q) \/ AcceptNumber(q) \/ AcceptInsert(q)
               \/ ArchiveCurrent(q) \/ PointMeta(q))
    <2>1. pc'[q] \in Answers \cup {"insertMeta", "insertFirst", "resolve", "read",
                       "base", "numberPatch", "insertPatch", "archive",
                       "loadAccept", "decide", "pointAccept", "loadReject",
                       "reject", "loadRetract", "retract", "resolveTarget",
                       "readTarget", "rollback", "pointTarget"}
      <3> USE DEF Goto, Remember, Answer, Refuse, Answers
      <3>1. CASE Arrive(q) \/ Abort(q)
        BY <3>1 DEF Arrive, StartCreate, StartPatch, StartAccept, StartReject,
                    StartRetract, StartSetCurrent, Start, Abort
      <3>2. CASE \/ CreateInsertMeta(q) \/ CreateInsertVersion(q)
                 \/ PatchResolve(q) \/ PatchRead(q) \/ PatchBase(q)
                 \/ PatchNumber(q) \/ PatchInsert(q)
        BY <3>2 DEF CreateInsertMeta, CreateInsertVersion, PatchResolve,
                    PatchRead, PatchBase, PatchNumber, PatchInsert
      <3>3. CASE \/ AcceptLoad(q) \/ AcceptPromote(q) \/ AcceptClose(q)
                 \/ RejectLoad(q) \/ RejectMark(q) \/ RetractLoad(q)
                 \/ RetractMark(q) \/ SetCurrentResolve(q) \/ SetCurrentRead(q)
                 \/ SetCurrentRestore(q)
        BY <3>3 DEF AcceptLoad, AcceptPromote, AcceptClose, RejectLoad,
                    RejectMark, RetractLoad, RetractMark, SetCurrentResolve,
                    SetCurrentRead, SetCurrentRestore
      <3> QED
        BY <1>3, <3>1, <3>2, <3>3 DEF Serve
    <2> QED
      BY <2>1 DEF MergeFound, Answers
  <1> QED
    BY <1>1, <1>2, <1>3

LEMMA EditorialInit == Init => EditorialInv
  BY DEF Init, EditorialInv, Named, OwnSubmission, MergeFound, NamedSteps,
         AfterCurrentRead

LEMMA EditorialStep ==
  ASSUME OutcomeInv, EditorialInv, [Next]_vars
  PROVE  EditorialInv'
  <1>1. CASE UNCHANGED vars
    BY <1>1 DEF vars, store, control, EditorialInv, Named, StillNames,
                OwnSubmission, MergeFound, CopyMade, DerivedFrom, GetVersion,
                VersionsOf
  <1>2. ASSUME NEW q \in Requests, Arrive(q) \/ Serve(q) \/ Abort(q),
               NEW p \in Requests
        PROVE  Named(p)' /\ OwnSubmission(p)' /\ MergeFound(p)'
    <2>1. OutcomeInv' /\ Kept(q)
      BY <1>2, OutcomeStep, RequestKeeps DEF OutcomeInv
    <2>2. Named(p) /\ OwnSubmission(p) /\ MergeFound(p)
      BY DEF EditorialInv
    <2>3. CASE p = q
      BY <1>2, <2>1, <2>2, <2>3, NamedStep, OwnSubmissionStep, MergeStep
      DEF OutcomeInv, Kept
    <2>4. CASE p # q
      <3>1. pc'[p] = pc[p] /\ job'[p] = job[p] /\ reg'[p] = reg[p]
        BY <1>2, <2>4, OthersStay DEF OutcomeInv, TypeOK
      <3>2. Named(p)'
        BY <2>1, <2>2, <3>1, NamedKept, NamedEnds DEF Kept
      <3>3. OwnSubmission(p)'
        <4> SUFFICES ASSUME pc[p] = "retract" PROVE OwnSubmission(p)'
          BY <3>1 DEF OwnSubmission
        <4>1. PICK d \in GetVersion(reg[p].record, job[p].number) :
                versions[d].submittedBy = job[p].user
          BY <2>2 DEF OwnSubmission
        <4>2. /\ versions'[d].submittedBy = versions[d].submittedBy
              /\ d \in GetVersion(reg[p].record, job[p].number)'
          BY <2>1, <3>1, Stays DEF Kept, GetVersion, VersionsOf
        <4> QED
          BY <3>1, <4>1, <4>2 DEF OwnSubmission
      <3>4. MergeFound(p)'
        BY <2>1, <2>2, <3>1, MergeKept DEF OutcomeInv, TypeOK, HistoryInv, Kept
      <3> QED
        BY <3>2, <3>3, <3>4
    <2> QED
      BY <2>3, <2>4
  <1> QED
    BY <1>1, <1>2 DEF Next, EditorialInv

(* Whatever races and whatever ends early, a version's state changes only   *)
(* by an accept, reject, retract or set-current that names it: withdrawn by *)
(* its own submitter, anything else by a reviewer. All that publishing      *)
(* another version does is to archive one that had been decided.            *)
THEOREM AlwaysDecidedByName ==
  ASSUME IdsApart
  PROVE  Spec => DecidedByName
  <1> DEFINE P == \A d \in DOMAIN versions :
                    /\ versions'[d].state # versions[d].state
                    /\ versions[d].state = "submitted"
                         \/ versions'[d].state # "archived"
                    => \E q \in InFlight : Decision(q, d)
  <1>1. Init => OutcomeInv /\ EditorialInv
    BY OutcomeInit, EditorialInit
  <1>2. OutcomeInv /\ EditorialInv /\ [Next]_vars
          => OutcomeInv' /\ EditorialInv' /\ P
    BY OutcomeStep, EditorialStep, DecidedStep DEF OutcomeInv
  <1>3. DecidedByName <=> [][P]_vars
    BY DEF DecidedByName, Decision
  <1> QED
    BY <1>1, <1>2, <1>3, PTL DEF Spec

-----------------------------------------------------------------------------
(* Partially accepted submissions.                                          *)

LEMMA PartialStep ==
  ASSUME OutcomeInv, EditorialInv, PartialFaithful, [Next]_vars
  PROVE  PartialFaithful'
  <1> DEFINE Result(s) ==
               \E d \in GetVersion(versions[s].record, versions[s].resulting) :
                 DerivedFrom(d, s)
  <1>1. PartialFaithful <=> \A s \in DOMAIN versions :
          versions[s].state = "partially_accepted" => Result(s)
    BY DEF PartialFaithful, DerivedFrom, CopyOf, Same
  <1>2. CASE UNCHANGED vars
    BY <1>2 DEF vars, store, PartialFaithful, GetVersion, VersionsOf, Same
  <1>3. ASSUME NEW q \in Requests, Arrive(q) \/ Serve(q) \/ Abort(q),
               NEW s \in DOMAIN versions',
               versions'[s].state = "partially_accepted"
        PROVE  Result(s)'
    <2>1. /\ StoreTypeOK /\ StoreInv /\ StoreTypeOK' /\ StoreInv' /\ Grows
          /\ RequestInv(q)
      BY <1>3, OutcomeStep, RequestKeeps DEF OutcomeInv, TypeOK, HistoryInv, Kept
    <2>2. s \in DOMAIN versions
      BY <1>3, Inserted
    <2>3. versions'[s].record = versions[s].record
      BY <2>1, <2>2, Stays
    <2>4. CASE versions'[s] = versions[s]
      <3>1. PICK d \in GetVersion(versions[s].record, versions[s].resulting) :
              DerivedFrom(d, s)
        BY <1>1, <1>3, <2>2, <2>4
      <3>2. d \in DOMAIN versions
        BY <3>1 DEF GetVersion, VersionsOf
      <3>3. DerivedFrom(d, s)'
        BY <2>1, <2>2, <3>1, <3>2, DerivedStays
      <3>4. d \in GetVersion(versions[s].record, versions[s].resulting)'
        BY <2>1, <2>4, <3>1, <3>2, Stays
      <3> QED
        BY <3>3, <3>4
    <2>5. CASE Rewrites(q, s)
      <3>1. /\ AcceptClose(q) /\ s \in GetVersion(reg[q].record, job[q].number)
            /\ versions'[s].resulting = reg[q].next
        BY <1>3, <2>5 DEF Rewrites, Restated
      <3>2. PICK t \in GetVersion(reg[q].record, job[q].number),
                 d \in GetVersion(reg[q].record, reg[q].next) : DerivedFrom(d, t)
        BY <3>1 DEF EditorialInv, MergeFound, AcceptClose
      <3>3. t = s
        BY <2>1, <3>1, <3>2, AtMostOne DEF StoreInv
      <3>4. d \in DOMAIN versions /\ versions[s].record = reg[q].record
        BY <3>1, <3>2 DEF GetVersion, VersionsOf
      <3>5. DerivedFrom(d, s)'
        BY <2>1, <2>2, <3>2, <3>3, <3>4, DerivedStays
      <3>6. d \in GetVersion(versions[s].record, versions[s].resulting)'
        BY <2>1, <2>3, <3>1, <3>2, <3>4, Stays
      <3> QED
        BY <3>5, <3>6
    <2> QED
      BY <1>3, <2>1, <2>2, <2>4, <2>5, Rewritten
  <1>4. ASSUME NEW q \in Requests, Arrive(q) \/ Serve(q) \/ Abort(q)
        PROVE  PartialFaithful'
    BY <1>3, <1>4 DEF PartialFaithful, DerivedFrom, CopyOf, Same
  <1> QED
    BY <1>2, <1>4 DEF Next

(* A partially accepted submission always names the version made from it, a *)
(* later one with the same author that overwrote nothing of the version it  *)
(* replaced but what the submission changed and nobody else had, however    *)
(* many publishes and decisions race with the accept.                       *)
THEOREM PartialAlwaysFaithful ==
  ASSUME IdsApart
  PROVE  Spec => []PartialFaithful
  <1>1. Init => OutcomeInv /\ EditorialInv /\ PartialFaithful
    <2>1. Init => PartialFaithful
      BY DEF Init, StoreInit, PartialFaithful
    <2> QED
      BY <2>1, OutcomeInit, EditorialInit
  <1>2. OutcomeInv /\ EditorialInv /\ PartialFaithful /\ [Next]_vars
          => OutcomeInv' /\ EditorialInv' /\ PartialFaithful'
    BY OutcomeStep, EditorialStep, PartialStep
  <1> QED
    BY <1>1, <1>2, PTL DEF Spec

-----------------------------------------------------------------------------
(* Publishing by PATCH alone: no request accepts or sets the current one.   *)

PatchAlone == Ops \cap {"accept", "setCurrent"} = {}

OpAllowed(q) == pc[q] \in Steps => job[q].op \in Ops

LEMMA ServesInFlight ==
  ASSUME ControlTypeOK, NEW q \in Requests, Serve(q) \/ Abort(q)
  PROVE  /\ q \in InFlight
         /\ job'[q] = job[q] \/ (pc'[q] \in Answers /\ pc'[q] \notin Steps)
  <1> /\ pc \in [Requests -> Steps \cup Answers \cup {"idle"}]
      /\ DOMAIN job = Requests
    BY DEF ControlTypeOK
  <1>1. Answers \cap Steps = {}
    BY DEF Answers, Steps, CreateSteps, PatchSteps, AcceptSteps, RejectSteps,
           RetractSteps, CurrentSteps
  <1> SUFFICES /\ pc[q] \in Steps
               /\ job'[q] = job[q] \/ pc'[q] \in Answers
    BY <1>1 DEF InFlight
  <1> USE DEF Goto, Remember, Answer, Refuse, Answers
  <1>2. CASE \/ CreateInsertMeta(q) \/ CreateInsertVersion(q)
             \/ PatchResolve(q) \/ PatchRead(q) \/ PatchBase(q)
             \/ PatchNumber(q) \/ PatchInsert(q)
    BY <1>2 DEF Steps, CreateSteps, PatchSteps, CreateInsertMeta,
                CreateInsertVersion, PatchResolve, PatchRead, PatchBase,
                PatchNumber, PatchInsert
  <1>3. CASE \/ AcceptLoad(q) \/ AcceptDecide(q) \/ AcceptPromote(q)
             \/ AcceptNumber(q) \/ AcceptInsert(q) \/ AcceptClose(q)
    BY <1>3 DEF Steps, AcceptSteps, AcceptLoad, AcceptDecide, AcceptPromote,
                AcceptNumber, AcceptInsert, AcceptClose
  <1>4. CASE \/ RejectLoad(q) \/ RejectMark(q) \/ RetractLoad(q)
             \/ RetractMark(q) \/ SetCurrentResolve(q) \/ SetCurrentRead(q)
             \/ SetCurrentRestore(q) \/ Abort(q)
    BY <1>4 DEF Steps, RejectSteps, RetractSteps, CurrentSteps, RejectLoad,
                RejectMark, RetractLoad, RetractMark, SetCurrentResolve,
                SetCurrentRead, SetCurrentRestore, Abort
  <1>5. CASE ArchiveCurrent(q) \/ PointMeta(q)
    BY <1>5 DEF Steps, PatchSteps, AcceptSteps, CurrentSteps, ArchiveCurrent,
                AfterArchive, PointMeta
  <1> QED
    BY <1>2, <1>3, <1>4, <1>5 DEF Serve

LEMMA OpAllowedStep ==
  ASSUME ControlTypeOK, NEW q \in Requests, OpAllowed(q),
         Arrive(q) \/ Serve(q) \/ Abort(q)
  PROVE  OpAllowed(q)'
  <1> /\ pc \in [Requests -> Steps \cup Answers \cup {"idle"}]
      /\ DOMAIN job = Requests
    BY DEF ControlTypeOK
  <1>1. CASE Arrive(q)
    <2>1. \E j : j.op \in Ops /\ job'[q] = j
      BY <1>1 DEF Arrive, StartCreate, StartPatch, StartAccept, StartReject,
                  StartRetract, StartSetCurrent, Start
    <2> QED
      BY <2>1 DEF OpAllowed
  <1>2. CASE Serve(q) \/ Abort(q)
    <2>1. pc[q] \in Steps
      BY <1>2, ServesInFlight DEF InFlight
    <2>2. pc'[q] \notin Steps \/ job'[q] = job[q]
      BY <1>2, ServesInFlight DEF InFlight
    <2> QED
      BY <2>1, <2>2 DEF OpAllowed
  <1> QED
    BY <1>1, <1>2

Holding == {"numberPatch", "insertPatch", "archive", "pointPatch"}

(* The version a PATCH published and has yet to point to is live, and no    *)
(* request has taken it for the current one.                                *)
Unpointed(q) ==
    pc[q] \in {"archive", "pointPatch"} =>
      /\ q \in GetVersion(reg[q].record, reg[q].next)
      /\ versions[q].state = "live"
      /\ meta[reg[q].record].current # reg[q].next
      /\ \A p \in Requests :
           pc[p] \in Holding /\ reg[p].record = reg[q].record =>
             reg[p].current # reg[q].next

(* What was published is never in the hands of a decision.                  *)
Served == {"live", "archived"}
Held   == {"submitted", "rejected", "withdrawn"}

ReplacesServed(q) ==
    pc[q] \in Holding =>
      \A d \in GetVersion(reg[q].record, reg[q].current) :
        versions[d].state \in Served

DecidesHeld(q) ==
    pc[q] \in {"reject", "retract"} =>
      \E d \in GetVersion(reg[q].record, job[q].number) : versions[d].state \in Held

CurrentServed == \A r \in DOMAIN meta : \A d \in GetVersion(r, meta[r].current) :
                    versions[d].state \in Served

PublishInv ==
    /\ CurrentServed
    /\ \A q \in Requests :
         OpAllowed(q) /\ Unpointed(q) /\ ReplacesServed(q) /\ DecidesHeld(q)

LEMMA NoReview ==
  ASSUME PatchAlone, ControlTypeOK, NEW q \in Requests, OpAllowed(q)
  PROVE  pc[q] \notin AcceptSteps \cup CurrentSteps
  <1>1. \A j \in AcceptJob : j.op = "accept"
    BY DEF AcceptJob
  <1>2. \A j \in CurrentJob : j.op = "setCurrent"
    BY DEF CurrentJob
  <1> QED
    BY <1>1, <1>2, JobOfStep DEF PatchAlone, OpAllowed, Steps

(* A rewrite is then an archiving by PATCH or the decision of a submission. *)
LEMMA PatchRewrites ==
  ASSUME PatchAlone, TypeOK, HistoryInv, PublishInv, NEW q \in Requests,
         Arrive(q) \/ Serve(q) \/ Abort(q), NEW d \in DOMAIN versions
  PROVE  \/ versions'[d].state = versions[d].state
         \/ /\ ArchiveCurrent(q) /\ pc[q] = "archive"
            /\ d \in GetVersion(reg[q].record, reg[q].current)
            /\ versions[d].state \in Served /\ versions'[d].state = "archived"
         \/ versions[d].state \in Held /\ versions'[d].state \in Held
  <1>1. pc[q] \notin AcceptSteps \cup CurrentSteps
    BY NoReview DEF TypeOK, PublishInv
  <1>2. CASE versions'[d] = versions[d]
    BY <1>2
  <1>3. CASE Rewrites(q, d)
    <2>1. CASE ArchiveCurrent(q)
      <3>1. pc[q] = "archive"
        BY <1>1, <2>1 DEF ArchiveCurrent, AfterArchive, AcceptSteps, CurrentSteps
      <3>2. d \in GetVersion(reg[q].record, reg[q].current)
              /\ versions'[d].state = "archived"
        BY <1>3, <3>1 DEF Rewrites, Restated, AcceptPromote, SetCurrentRestore,
                          RejectMark, RetractMark, AcceptClose
      <3> QED
        BY <2>1, <3>1, <3>2 DEF PublishInv, ReplacesServed, Holding
    <2>2. CASE ~ArchiveCurrent(q)
      <3>1. /\ pc[q] \in {"reject", "retract"}
            /\ d \in GetVersion(reg[q].record, job[q].number)
            /\ versions'[d].state \in Held
        BY <1>1, <1>3, <2>2
        DEF Rewrites, Restated, AcceptPromote, SetCurrentRestore, RejectMark,
            RetractMark, AcceptClose, AcceptSteps, CurrentSteps, Held
      <3> QED
        BY <3>1, AtMostOne DEF PublishInv, DecidesHeld, HistoryInv, StoreInv
    <2> QED
      BY <2>1, <2>2
  <1> QED
    BY <1>2, <1>3, Rewritten DEF TypeOK, HistoryInv

LEMMA ServedStays ==
  ASSUME PatchAlone, TypeOK, HistoryInv, PublishInv, NEW q \in Requests,
         Arrive(q) \/ Serve(q) \/ Abort(q), NEW d \in DOMAIN versions
  PROVE  /\ versions[d].state \in Served => versions'[d].state \in Served
         /\ versions[d].state \in Held => versions'[d].state \in Held
         /\ \A p \in Requests :
              d = p /\ pc[p] \in {"archive", "pointPatch"} =>
                versions'[d].state = "live"
  <1>1. Served \cap Held = {} /\ "live" \in Served /\ "archived" \in Served
    BY DEF Served, Held
  <1>2. ASSUME NEW p \in Requests, d = p, pc[p] \in {"archive", "pointPatch"}
        PROVE  versions'[d].state = "live"
    <2>1. /\ p \in GetVersion(reg[p].record, reg[p].next)
          /\ versions[p].state = "live"
          /\ pc[q] \in Holding /\ reg[q].record = reg[p].record =>
               reg[q].current # reg[p].next
      BY <1>2 DEF PublishInv, Unpointed
    <2>2. ~(pc[q] = "archive" /\ d \in GetVersion(reg[q].record, reg[q].current))
      BY <1>2, <2>1 DEF GetVersion, VersionsOf, Holding
    <2> QED
      BY <1>1, <1>2, <2>1, <2>2, PatchRewrites
  <1> QED
    BY <1>1, <1>2, PatchRewrites

(* How pointers and the requests that read them move.                       *)
LEMMA PointerStep ==
  ASSUME TypeOK, NEW q \in Requests, Arrive(q) \/ Serve(q) \/ Abort(q),
         NEW r \in DOMAIN meta, q \notin DOMAIN meta \/ pc[q] # "insertMeta"
  PROVE  \/ meta'[r].current = meta[r].current
         \/ /\ PointMeta(q) /\ r = reg[q].record
            /\ meta'[r].current = reg[q].next /\ versions' = versions
  <1> meta[r] \in EntityMeta
    BY DEF TypeOK, StoreTypeOK
  <1>1. CASE PointMeta(q)
    BY <1>1 DEF PointMeta, setMetaCurrentVersion, EntityMeta
  <1>2. CASE CreateInsertMeta(q)
    BY <1>2 DEF CreateInsertMeta, InsertMeta, Refuse, store
  <1>3. CASE ~PointMeta(q) /\ ~CreateInsertMeta(q)
    <2>1. meta' = meta
      BY <1>3
      DEF Arrive, StartCreate, StartPatch, StartAccept, StartReject,
          StartRetract, StartSetCurrent, Start, Serve, CreateInsertVersion,
          InsertVersion, Refuse, PatchResolve, PatchRead, PatchBase,
          PatchNumber, PatchInsert, AcceptLoad, AcceptDecide, AcceptPromote,
          AcceptNumber, AcceptInsert, AcceptClose, RejectLoad, RejectMark,
          RetractLoad, RetractMark, SetCurrentResolve, SetCurrentRead,
          SetCurrentRestore, ArchiveCurrent, archiveVersion, setVersionState,
          Abort, store
    <2> QED
      BY <2>1
  <1> QED
    BY <1>1, <1>2, <1>3

LEMMA HoldStep ==
  ASSUME ControlTypeOK, NEW q \in Requests, Arrive(q) \/ Serve(q) \/ Abort(q),
         pc'[q] \in Holding
  PROVE  \/ /\ pc[q] \in Holding /\ reg'[q].record = reg[q].record
            /\ reg'[q].current = reg[q].current
         \/ /\ PatchBase(q) /\ UNCHANGED store
            /\ reg'[q].record \in GetMeta(job[q].id)
            /\ reg'[q].current = meta[reg'[q].record].current
  <1> /\ pc \in [Requests -> Steps \cup Answers \cup {"idle"}]
      /\ reg \in [Requests -> Locals] /\ DOMAIN job = Requests
    BY DEF ControlTypeOK
  <1> USE DEF Goto, Remember, Answer, Refuse
  <1>1. CASE PatchBase(q)
    <2>1. PICK r \in GetMeta(job[q].id) :
            reg' = [reg EXCEPT ![q] = [reg[q] EXCEPT !.record = r,
                                         !.current = meta[r].current]]
      BY <1>1 DEF PatchBase, Holding
    <2>2. reg'[q].record = r /\ reg'[q].current = meta[r].current
      BY <2>1 DEF Locals
    <2> QED
      BY <1>1, <2>2 DEF PatchBase
  <1>2. CASE PatchNumber(q)
    <2>1. PICK n : reg' = [reg EXCEPT ![q] = [reg[q] EXCEPT !.next = n]]
      BY <1>2 DEF PatchNumber
    <2> QED
      BY <1>2, <2>1 DEF PatchNumber, Holding, Locals
  <1>3. CASE PatchInsert(q) \/ ArchiveCurrent(q)
    BY <1>3 DEF PatchInsert, ArchiveCurrent, AfterArchive, Holding
  <1>4. CASE Arrive(q) \/ Abort(q)
    BY <1>4 DEF Arrive, StartCreate, StartPatch, StartAccept, StartReject,
                StartRetract, StartSetCurrent, Start, Abort, Holding
  <1>5. CASE \/ CreateInsertMeta(q) \/ CreateInsertVersion(q)
             \/ PatchResolve(q) \/ PatchRead(q) \/ PointMeta(q)
    BY <1>5 DEF CreateInsertMeta, CreateInsertVersion, PatchResolve, PatchRead,
                PointMeta, Holding
  <1>6. CASE \/ AcceptLoad(q) \/ AcceptDecide(q) \/ AcceptPromote(q)
             \/ AcceptNumber(q) \/ AcceptInsert(q) \/ AcceptClose(q)
    BY <1>6 DEF AcceptLoad, AcceptDecide, AcceptPromote, AcceptNumber,
                AcceptInsert, AcceptClose, Holding
  <1>7. CASE \/ RejectLoad(q) \/ RejectMark(q) \/ RetractLoad(q)
             \/ RetractMark(q) \/ SetCurrentResolve(q) \/ SetCurrentRead(q)
             \/ SetCurrentRestore(q)
    BY <1>7 DEF RejectLoad, RejectMark, RetractLoad, RetractMark,
                SetCurrentResolve, SetCurrentRead, SetCurrentRestore, Holding
  <1> QED
    BY <1>1, <1>2, <1>3, <1>4, <1>5, <1>6, <1>7 DEF Serve

LEMMA ArchiveGoes ==
  ASSUME ControlTypeOK, NEW q \in Requests, Arrive(q) \/ Serve(q) \/ Abort(q),
         pc[q] = "archive", pc'[q] \in {"archive", "pointPatch"}
  PROVE  reg' = reg
  <1>1. ArchiveCurrent(q)
    BY StepMoves DEF Moves, Answers, Entry, PatchInsert
  <1> QED
    BY <1>1 DEF ArchiveCurrent, Goto

LEMMA ArchiveComes ==
  ASSUME ControlTypeOK, NEW q \in Requests, Arrive(q) \/ Serve(q) \/ Abort(q),
         pc[q] # "archive", pc'[q] \in {"archive", "pointPatch"}
  PROVE  PatchInsert(q)
  BY StepMoves DEF Moves, Answers, Entry

(* The current version after a step: the same one, one the request has      *)
(* published, or the first of its record.                                   *)
LEMMA CurrentAfter ==
  ASSUME PatchAlone, OutcomeInv, PublishInv, NEW q \in Requests,
         Arrive(q) \/ Serve(q) \/ Abort(q), NEW r \in DOMAIN meta',
         NEW d \in GetVersion(r, meta[r].current)'
  PROVE  /\ r \in DOMAIN meta
         /\ \/ /\ meta'[r].current = meta[r].current
               /\ d \in GetVersion(r, meta[r].current)
            \/ /\ PointMeta(q) /\ r = reg[q].record
               /\ d = q /\ versions'[d].state = "live"
            \/ d \notin DOMAIN versions /\ versions'[d].state = "live"
  <1> /\ TypeOK /\ ControlTypeOK /\ HistoryInv /\ StoreInv /\ RequestInv(q)
      /\ Unpointed(q)
    BY DEF OutcomeInv, TypeOK, HistoryInv, PublishInv
  <1>1. StoreInv' /\ Grows /\ AddsOnly(q)
    BY RequestKeeps DEF OutcomeInv, Kept
  <1>2. d \in DOMAIN versions' /\ versions'[d].record = r
    BY DEF GetVersion, VersionsOf
  <1>3. r \in DOMAIN meta
    <2> SUFFICES ASSUME r \notin DOMAIN meta PROVE FALSE
      OBVIOUS
    <2>1. CreateInsertMeta(q)
      BY NewRecord
    <2>2. versions' = versions
      BY <2>1 DEF CreateInsertMeta, InsertMeta, Refuse, store
    <2> QED
      BY <1>2, <2>2 DEF StoreInv, RecordsKnown
  <1>4. q \notin DOMAIN meta \/ pc[q] # "insertMeta"
    BY DEF RequestInv, Fresh
  <1>5. CASE meta'[r].current = meta[r].current
    <2>1. CASE d \in DOMAIN versions
      <3>1. versions'[d].record = versions[d].record
              /\ versions'[d].version = versions[d].version
        BY <1>1, <2>1, Stays
      <3> QED
        BY <1>3, <1>5, <2>1, <3>1 DEF GetVersion, VersionsOf
    <2>2. CASE d \notin DOMAIN versions
      <3>1. VersionsOf(r) = {}
        <4> SUFFICES ASSUME VersionsOf(r) # {} PROVE FALSE
          OBVIOUS
        <4>1. GetVersion(r, meta[r].current) # {}
          BY <1>3, PublishedExists DEF StoreInv, CurrentKnown, WasCurrent
        <4>2. GetVersion(r, meta[r].current)' = GetVersion(r, meta[r].current)
          BY <1>1, <1>5, <4>1, VersionStays DEF StoreInv
        <4> QED
          BY <2>2, <4>2 DEF GetVersion, VersionsOf
      <3>2. d = q /\ pc[q] \notin AcceptSteps
        BY <1>2, <2>2, Inserted, NoReview DEF PublishInv
      <3>3. ~AcceptInsert(q)
        BY <3>2 DEF AcceptInsert, AcceptSteps
      <3>4. ~(PatchInsert(q) /\ versions'[q] = NewVersion(q))
        <4>1. PatchInsert(q) => VersionsOf(reg[q].record) # {}
          BY PublishedExists
          DEF PatchInsert, RequestInv, CurrentRead, AfterCurrentRead
        <4>2. NewVersion(q).record = reg[q].record
          BY DEF NewVersion
        <4> QED
          BY <1>2, <3>1, <3>2, <4>1, <4>2
      <3> QED
        BY <1>2, <1>3, <2>2, <3>2, <3>3, <3>4, Inserted
    <2> QED
      BY <2>1, <2>2
  <1>6. CASE meta'[r].current # meta[r].current
    <2>1. /\ PointMeta(q) /\ r = reg[q].record
          /\ meta'[r].current = reg[q].next /\ versions' = versions
      BY <1>3, <1>4, <1>6, PointerStep
    <2>2. pc[q] = "pointPatch"
      BY <2>1, NoReview DEF PointMeta, PublishInv, AcceptSteps, CurrentSteps
    <2>3. q \in GetVersion(reg[q].record, reg[q].next)
            /\ versions[q].state = "live"
      BY <2>2 DEF Unpointed
    <2>4. d \in GetVersion(reg[q].record, reg[q].next)
      BY <2>1 DEF GetVersion, VersionsOf
    <2>5. d = q
      BY <2>3, <2>4, AtMostOne DEF StoreInv
    <2> QED
      BY <1>3, <2>1, <2>3, <2>5
  <1> QED
    BY <1>5, <1>6

LEMMA CurrentServedStep ==
  ASSUME PatchAlone, OutcomeInv, PublishInv, NEW q \in Requests,
         Arrive(q) \/ Serve(q) \/ Abort(q)
  PROVE  CurrentServed'
  <1> SUFFICES ASSUME NEW r \in DOMAIN meta',
                      NEW d \in GetVersion(r, meta[r].current)'
               PROVE  versions'[d].state \in Served
    BY DEF CurrentServed
  <1>1. CASE r \in DOMAIN meta /\ d \in GetVersion(r, meta[r].current)
    <2>1. d \in DOMAIN versions /\ versions[d].state \in Served
      BY <1>1 DEF PublishInv, CurrentServed, GetVersion, VersionsOf
    <2> QED
      BY <2>1, ServedStays DEF OutcomeInv
  <1>2. CASE versions'[d].state = "live"
    BY <1>2 DEF Served
  <1> QED
    BY <1>1, <1>2, CurrentAfter

LEMMA UnpointedStep ==
  ASSUME PatchAlone, OutcomeInv, PublishInv, NEW q \in Requests,
         Arrive(q) \/ Serve(q) \/ Abort(q), NEW p \in Requests
  PROVE  Unpointed(p)'
  <1> SUFFICES ASSUME pc'[p] \in {"archive", "pointPatch"} PROVE Unpointed(p)'
    BY DEF Unpointed
  <1> /\ TypeOK /\ ControlTypeOK /\ HistoryInv /\ StoreInv /\ RequestInv(q)
      /\ RequestInv(p) /\ Unpointed(q) /\ Unpointed(p)
    BY DEF OutcomeInv, TypeOK, HistoryInv, PublishInv
  <1> /\ pc \in [Requests -> Steps \cup Answers \cup {"idle"}]
      /\ reg \in [Requests -> Locals] /\ DOMAIN job = Requests
    BY DEF ControlTypeOK
  <1>1. StoreInv' /\ Grows /\ AddsOnly(q)
    BY RequestKeeps DEF OutcomeInv, Kept
  <1>2. \A o \in Requests \ {q} : pc'[o] = pc[o] /\ reg'[o] = reg[o]
    BY OthersStay
  <1>3. ASSUME pc[p] \in {"archive", "pointPatch"}, reg'[p] = reg[p]
        PROVE  Unpointed(p)'
    <2>1. /\ p \in GetVersion(reg[p].record, reg[p].next)
          /\ meta[reg[p].record].current # reg[p].next
          /\ \A o \in Requests :
               pc[o] \in Holding /\ reg[o].record = reg[p].record =>
                 reg[o].current # reg[p].next
      BY <1>3 DEF Unpointed
    <2>2. p \in DOMAIN versions /\ versions[p].record = reg[p].record
      BY <2>1 DEF GetVersion, VersionsOf
    <2>3. reg[p].record \in DOMAIN meta
      BY <2>2 DEF StoreInv, RecordsKnown
    <2>4. p \in GetVersion(reg[p].record, reg[p].next)'
      BY <1>1, <1>3, <2>1, <2>2, Stays
    <2>5. versions'[p].state = "live"
      BY <1>3, <2>2, ServedStays
    <2>6. meta'[reg[p].record].current # reg[p].next
      <3>1. CASE meta'[reg[p].record].current = meta[reg[p].record].current
        BY <2>1, <3>1
      <3>2. CASE PointMeta(q) /\ reg[p].record = reg[q].record
                   /\ meta'[reg[p].record].current = reg[q].next
        <4>1. pc[q] = "pointPatch" /\ pc'[q] # "pointPatch" /\ pc'[q] # "archive"
          BY <3>2, NoReview
          DEF PointMeta, PublishInv, AcceptSteps, CurrentSteps, Answer, Goto
        <4>2. q # p /\ q \in GetVersion(reg[q].record, reg[q].next)
          BY <4>1 DEF Unpointed
        <4> QED
          BY <2>1, <3>2, <4>2, AtMostOne DEF StoreInv
      <3>3. q \notin DOMAIN meta \/ pc[q] # "insertMeta"
        BY DEF RequestInv, Fresh
      <3> QED
        BY <2>3, <3>1, <3>2, <3>3, PointerStep
    <2>7. ASSUME NEW o \in Requests, pc'[o] \in Holding,
                 reg'[o].record = reg[p].record
          PROVE  reg'[o].current # reg[p].next
      <3>1. CASE o # q
        BY <1>2, <2>1, <2>7, <3>1
      <3>2. CASE o = q
        BY <2>1, <2>7, <3>2, HoldStep
      <3> QED
        BY <3>1, <3>2
    <2> QED
      BY <1>3, <2>4, <2>5, <2>6, <2>7 DEF Unpointed
  <1>4. CASE p # q
    BY <1>2, <1>3, <1>4
  <1>5. CASE p = q /\ pc[q] = "archive"
    <2>1. reg' = reg
      BY <1>5, ArchiveGoes
    <2> QED
      BY <1>3, <1>5, <2>1
  <1>6. CASE p = q /\ pc[q] # "archive"
    <2>1. PatchInsert(q)
      BY <1>6, ArchiveComes
    <2>2. /\ InsertVersion(q, NewVersion(q)) /\ reg' = reg
          /\ ~VersionTaken(reg[q].record, reg[q].next)
          /\ PatchState(job[q].user) = "live"
      BY <1>6, <2>1 DEF PatchInsert, Refuse, Goto, Answer
    <2>3. q \in GetVersion(reg[q].record, reg[q].next)'
            /\ versions'[q].state = "live" /\ meta' = meta
      BY <2>2 DEF InsertVersion, NewVersion, GetVersion, VersionsOf
    <2>4. \A o \in Requests : pc'[o] \in Holding /\ reg[o].record = reg[q].record
            => reg[o].current # reg[q].next
      <3> SUFFICES ASSUME NEW o \in Requests, pc'[o] \in Holding,
                          reg[o].record = reg[q].record
                   PROVE  GetVersion(reg[o].record, reg[o].current) # {}
        BY <2>2 DEF VersionTaken
      <3>1. pc[o] \in AfterCurrentRead
        BY <1>2, <2>1 DEF PatchInsert, Holding, AfterCurrentRead
      <3> QED
        BY <3>1, PublishedExists DEF HistoryInv, RequestInv, CurrentRead
    <2>5. meta[reg[q].record].current # reg[q].next
      <3>1. VersionsOf(reg[q].record) # {}
        BY <2>1, PublishedExists
        DEF PatchInsert, RequestInv, CurrentRead, AfterCurrentRead
      <3>2. GetVersion(reg[q].record, meta[reg[q].record].current) # {}
        BY <3>1, ExistsKnown, PublishedExists
        DEF StoreInv, CurrentKnown, WasCurrent
      <3> QED
        BY <2>2, <3>2 DEF VersionTaken
    <2> QED
      BY <1>6, <2>2, <2>3, <2>4, <2>5 DEF Unpointed
  <1> QED
    BY <1>4, <1>5, <1>6

LEMMA PublishStep ==
  ASSUME PatchAlone, OutcomeInv, PublishInv, NEW q \in Requests,
         Arrive(q) \/ Serve(q) \/ Abort(q)
  PROVE  PublishInv'
  <1> /\ TypeOK /\ ControlTypeOK /\ HistoryInv /\ StoreInv
    BY DEF OutcomeInv, TypeOK, HistoryInv
  <1>1. StoreInv' /\ Grows
    BY RequestKeeps DEF OutcomeInv, Kept
  <1>2. ASSUME NEW p \in Requests \ {q}
        PROVE  pc'[p] = pc[p] /\ job'[p] = job[p] /\ reg'[p] = reg[p]
    BY OthersStay
  <1>3. ASSUME NEW p \in Requests
        PROVE  OpAllowed(p)'
    BY <1>2, OpAllowedStep DEF PublishInv, OpAllowed
  <1>4. ASSUME NEW p \in Requests, pc'[p] \in Holding,
               NEW d \in GetVersion(reg[p].record, reg[p].current)'
        PROVE  versions'[d].state \in Served
    <2>1. CASE pc[p] \in Holding /\ reg'[p].record = reg[p].record
                 /\ reg'[p].current = reg[p].current
      <3>1. GetVersion(reg[p].record, reg[p].current) # {}
        BY <2>1, PublishedExists
        DEF HistoryInv, RequestInv, CurrentRead, Holding, AfterCurrentRead
      <3>2. d \in GetVersion(reg[p].record, reg[p].current)
        BY <1>1, <2>1, <3>1, VersionStays DEF StoreInv
      <3>3. d \in DOMAIN versions /\ versions[d].state \in Served
        BY <2>1, <3>2 DEF PublishInv, ReplacesServed, GetVersion, VersionsOf
      <3> QED
        BY <3>3, ServedStays
    <2>2. CASE p = q /\ PatchBase(q) /\ UNCHANGED store
                 /\ reg'[q].record \in GetMeta(job[q].id)
                 /\ reg'[q].current = meta[reg'[q].record].current
      <3>1. d \in GetVersion(reg'[q].record, meta[reg'[q].record].current)
        BY <2>2 DEF store, GetVersion, VersionsOf
      <3> QED
        BY <2>2, <3>1 DEF PublishInv, CurrentServed, GetMeta, store
    <2> QED
      BY <1>2, <1>4, <2>1, <2>2, HoldStep
  <1>5. ASSUME NEW p \in Requests
        PROVE  DecidesHeld(p)'
    <2>1. CASE pc[p] \in {"reject", "retract"} /\ reg'[p] = reg[p]
                 /\ job'[p] = job[p]
      <3>1. PICK d \in GetVersion(reg[p].record, job[p].number) :
              versions[d].state \in Held
        BY <2>1 DEF PublishInv, DecidesHeld
      <3>2. d \in DOMAIN versions
        BY DEF GetVersion, VersionsOf
      <3>3. versions'[d].state \in Held
              /\ d \in GetVersion(reg[p].record, job[p].number)'
        BY <1>1, <2>1, <3>1, <3>2, Stays, ServedStays
      <3> QED
        BY <3>3 DEF DecidesHeld
    <2>2. CASE p = q /\ (RejectLoad(q) \/ RetractLoad(q))
      <3> SUFFICES ASSUME pc'[p] \in {"reject", "retract"} PROVE DecidesHeld(p)'
        BY DEF DecidesHeld
      <3>1. /\ reg'[q].record = job[q].id.of /\ job' = job
            /\ versions' = versions /\ Pending(job[q]) # {}
        BY <2>2 DEF RejectLoad, RetractLoad, Remember, NoReg, Answer, store,
                    ControlTypeOK
      <3>2. PICK d \in Pending(job[q]) : TRUE
        BY <3>1
      <3>3. d \in GetVersion(job[q].id.of, job[q].number)
              /\ versions[d].state \in Held
        BY PendingNames DEF Pending, Held
      <3>4. d \in GetVersion(reg[q].record, job[q].number)'
        BY <3>1, <3>3 DEF GetVersion, VersionsOf
      <3> QED
        BY <2>2, <3>1, <3>3, <3>4 DEF DecidesHeld
    <2>3. CASE pc'[p] \notin {"reject", "retract"}
      BY <2>3 DEF DecidesHeld
    <2> QED
      BY <1>2, <2>1, <2>2, <2>3, StepMoves DEF Moves, Answers, Entry
  <1> QED
    BY <1>3, <1>4, <1>5, UnpointedStep, CurrentServedStep
    DEF PublishInv, ReplacesServed

LEMMA PublishInit == Init => PublishInv
  <1> SUFFICES ASSUME Init PROVE PublishInv
    OBVIOUS
  <1>1. \A q \in Requests : pc[q] = "idle"
    BY DEF Init
  <1>2. CurrentServed
    BY DEF Init, StoreInit, CurrentServed, GetVersion, VersionsOf, Served
  <1> QED
    BY <1>1, <1>2
    DEF PublishInv, OpAllowed, Unpointed, ReplacesServed, DecidesHeld, Holding,
        Steps, CreateSteps, PatchSteps, AcceptSteps, RejectSteps, RetractSteps,
        CurrentSteps

LEMMA AbortsStep ==
  ASSUME NEW q \in Requests, Arrive(q) \/ Serve(q) \/ Abort(q)
  PROVE  aborts' = aborts \/ (aborts' = aborts + 1 /\ Abort(q))
  <1>1. Abort(q) => aborts' = aborts + 1
    BY DEF Abort
  <1> SUFFICES ASSUME ~Abort(q) PROVE aborts' = aborts
    BY <1>1
  <1> USE DEF Goto, Remember, Answer, Refuse
  <1>2. CASE Arrive(q)
    BY <1>2 DEF Arrive, StartCreate, StartPatch, StartAccept, StartReject,
                StartRetract, StartSetCurrent, Start
  <1>3. CASE \/ CreateInsertMeta(q) \/ CreateInsertVersion(q)
             \/ PatchResolve(q) \/ PatchNumber(q) \/ PatchInsert(q)
    BY <1>3 DEF CreateInsertMeta, CreateInsertVersion, PatchResolve,
                PatchNumber, PatchInsert
  <1>4. CASE \/ AcceptLoad(q) \/ AcceptDecide(q) \/ AcceptPromote(q)
             \/ AcceptNumber(q) \/ AcceptInsert(q) \/ AcceptClose(q)
    BY <1>4 DEF AcceptLoad, AcceptDecide, AcceptPromote, AcceptNumber,
                AcceptInsert, AcceptClose
  <1>5. CASE PatchRead(q)
    BY <1>5 DEF PatchRead
  <1>6. CASE PatchBase(q)
    BY <1>6 DEF PatchBase
  <1>7. CASE \/ RejectLoad(q) \/ RejectMark(q) \/ RetractLoad(q)
             \/ RetractMark(q) \/ SetCurrentResolve(q) \/ SetCurrentRead(q)
             \/ SetCurrentRestore(q) \/ ArchiveCurrent(q) \/ PointMeta(q)
    BY <1>7 DEF RejectLoad, RejectMark, RetractLoad, RetractMark,
                SetCurrentResolve, SetCurrentRead, SetCurrentRestore,
                ArchiveCurrent, PointMeta
  <1> QED
    BY <1>2, <1>3, <1>4, <1>5, <1>6, <1>7 DEF Serve

LEMMA PointGoes ==
  ASSUME NEW q \in Requests, Arrive(q) \/ Serve(q) \/ Abort(q),
         pc[q] = "pointPatch", ~Abort(q)
  PROVE  PointMeta(q)
  BY DEF Arrive, StartCreate, StartPatch, StartAccept, StartReject, StartRetract,
         StartSetCurrent, Start, Serve, CreateInsertMeta, CreateInsertVersion,
         PatchResolve, PatchRead, PatchBase, PatchNumber, PatchInsert,
         AcceptLoad, AcceptDecide, AcceptPromote, AcceptNumber, AcceptInsert,
         AcceptClose, RejectLoad, RejectMark, RetractLoad, RetractMark,
         SetCurrentResolve, SetCurrentRead, SetCurrentRestore, ArchiveCurrent,
         AfterArchive

LEMMA CurrentLiveStep ==
  ASSUME PatchAlone, OutcomeInv, PublishInv, NEW q \in Requests,
         Arrive(q) \/ Serve(q) \/ Abort(q), CurrentLiveOrBeingReplaced
  PROVE  CurrentLiveOrBeingReplaced'
  <1> SUFFICES ASSUME aborts' = 0, NEW r \in DOMAIN meta',
                      NEW d \in GetVersion(r, meta[r].current)',
                      versions'[d].state # "live"
               PROVE  \E o \in InFlight' : /\ pc'[o] = "pointPatch"
                                           /\ reg'[o].record = r
                                           /\ reg'[o].current = meta'[r].current
    BY DEF CurrentLiveOrBeingReplaced
  <1> /\ TypeOK /\ ControlTypeOK /\ HistoryInv /\ Unpointed(q)
    BY DEF OutcomeInv, TypeOK, PublishInv
  <1> /\ pc \in [Requests -> Steps \cup Answers \cup {"idle"}]
      /\ reg \in [Requests -> Locals] /\ aborts \in Nat
    BY WorkflowAssumption DEF ControlTypeOK
  <1>1. /\ r \in DOMAIN meta /\ meta'[r].current = meta[r].current
        /\ d \in GetVersion(r, meta[r].current) /\ d \in DOMAIN versions
    BY CurrentAfter DEF GetVersion, VersionsOf
  <1>2. aborts = 0 /\ ~Abort(q)
    <2>1. aborts' = aborts \/ (aborts' = aborts + 1 /\ Abort(q))
      BY AbortsStep
    <2> QED
      BY <2>1 DEF Abort
  <1>3. CASE versions[d].state = "live"
    <2>1. /\ ArchiveCurrent(q) /\ pc[q] = "archive"
          /\ d \in GetVersion(reg[q].record, reg[q].current)
      BY <1>1, <1>3, PatchRewrites DEF Held
    <2>2. pc'[q] = "pointPatch" /\ reg' = reg
      BY <2>1 DEF ArchiveCurrent, AfterArchive, Goto
    <2>3. reg[q].record = r /\ reg[q].current = meta[r].current
      BY <1>1, <2>1 DEF GetVersion, VersionsOf
    <2> QED
      BY <1>1, <2>2, <2>3 DEF InFlight, Steps, PatchSteps
  <1>4. CASE versions[d].state # "live"
    <2>1. PICK o \in InFlight : /\ pc[o] = "pointPatch" /\ reg[o].record = r
                                /\ reg[o].current = meta[r].current
      BY <1>1, <1>2, <1>4 DEF CurrentLiveOrBeingReplaced
    <2>2. o \in Requests
      BY DEF InFlight
    <2>3. CASE o # q
      <3>1. pc'[o] = pc[o] /\ reg'[o] = reg[o]
        BY <2>2, <2>3, OthersStay
      <3> QED
        BY <1>1, <2>1, <2>2, <3>1 DEF InFlight, Steps, PatchSteps
    <2>4. CASE o = q
      <3>1. PointMeta(q)
        BY <1>2, <2>1, <2>4, PointGoes
      <3>2. meta'[r].current = reg[q].next
        BY <1>1, <2>1, <2>4, <3>1
        DEF PointMeta, setMetaCurrentVersion, TypeOK, StoreTypeOK, EntityMeta
      <3> QED
        BY <1>1, <2>1, <2>4, <3>2 DEF Unpointed
    <2> QED
      BY <2>3, <2>4
  <1> QED
    BY <1>3, <1>4

(* When systems are created and changed by PATCH, and submissions rejected  *)
(* or withdrawn, but no accept or set-current runs and no request ends      *)
(* early, then however many PATCHes race a system's current version is live *)
(* or about to be replaced: none drops out of the listing for good.         *)
THEOREM PatchAloneStaysListed ==
  ASSUME IdsApart, PatchAlone
  PROVE  Spec => []CurrentLiveOrBeingReplaced
  <1>1. Init => OutcomeInv /\ PublishInv /\ CurrentLiveOrBeingReplaced
    <2>1. Init => CurrentLiveOrBeingReplaced
      BY DEF Init, StoreInit, CurrentLiveOrBeingReplaced, GetVersion, VersionsOf
    <2> QED
      BY <2>1, OutcomeInit, PublishInit
  <1>2. OutcomeInv /\ PublishInv /\ CurrentLiveOrBeingReplaced /\ [Next]_vars
          => OutcomeInv' /\ PublishInv' /\ CurrentLiveOrBeingReplaced'
    <2> SUFFICES ASSUME OutcomeInv, PublishInv, CurrentLiveOrBeingReplaced,
                        [Next]_vars
                 PROVE  PublishInv' /\ CurrentLiveOrBeingReplaced'
      BY OutcomeStep
    <2>1. CASE UNCHANGED vars
      BY <2>1
      DEF vars, store, control, PublishInv, CurrentLiveOrBeingReplaced,
          CurrentServed, OpAllowed, Unpointed, ReplacesServed, DecidesHeld,
          InFlight, GetVersion, VersionsOf
    <2>2. ASSUME NEW q \in Requests, Arrive(q) \/ Serve(q) \/ Abort(q)
          PROVE  PublishInv' /\ CurrentLiveOrBeingReplaced'
      BY <2>2, PublishStep, CurrentLiveStep
    <2> QED
      BY <2>1, <2>2 DEF Next
  <1> QED
    BY <1>1, <1>2, PTL DEF Spec

-----------------------------------------------------------------------------
(* One request at a time.                                                   *)

Serial == MaxInFlight = 1

OneInFlight == \A p, q \in InFlight : p = q

LEMMA OneInFlightStep ==
  ASSUME Serial, ControlTypeOK, OneInFlight, NEW q \in Requests,
         Arrive(q) \/ Serve(q) \/ Abort(q)
  PROVE  OneInFlight' /\ \A p \in Requests \ {q} : pc'[p] \notin Steps
  <1>1. \A p \in Requests \ {q} : pc'[p] = pc[p]
    BY OthersStay
  <1>2. \A p \in Requests \ {q} : pc[p] \notin Steps
    <2>1. CASE Arrive(q)
      <3>1. Cardinality(InFlight) < MaxInFlight
        BY <2>1 DEF Arrive, StartCreate, StartPatch, StartAccept, StartReject,
                    StartRetract, StartSetCurrent, Start
      <3>2. \A p : Cardinality({p}) = 1
        BY FS_Singleton
      <3>3. ASSUME NEW p \in InFlight PROVE FALSE
        <4>1. InFlight = {p}
          BY <3>3 DEF OneInFlight
        <4> QED
          BY <3>1, <3>2, <4>1 DEF Serial
      <3> QED
        BY <3>3 DEF InFlight
    <2>2. CASE Serve(q) \/ Abort(q)
      BY <2>2, ServesInFlight DEF OneInFlight, InFlight
    <2> QED
      BY <2>1, <2>2
  <1> QED
    BY <1>1, <1>2 DEF OneInFlight, InFlight

PointSteps == {"pointPatch", "pointAccept", "pointDerived", "pointTarget"}
ReadSteps  == (AfterCurrentRead \ {"close"}) \cup {"read", "base", "readTarget"}

(* The pointer stays where the request read it until it moves it.           *)
CurrentHeld(q) ==
    pc[q] \in ReadSteps => meta[reg[q].record].current = reg[q].current

(* What it is about to point to is live.                                    *)
NextLive(q) ==
    /\ pc[q] \in {"archive", "archiveDerived"} => reg[q].next # reg[q].current
    /\ pc[q] \in {"archive", "archiveDerived"} \cup PointSteps =>
         \A d \in GetVersion(reg[q].record, reg[q].next) :
           versions[d].state = "live"

(* The submission it decides is still pending.                              *)
StillPending(q) ==
    /\ pc[q] = "decide" => Pending(job[q]) # {}
    /\ pc[q] \in {"numberDerived", "insertDerived", "archiveDerived",
                  "pointDerived", "close", "reject", "retract"} =>
         \E d \in GetVersion(reg[q].record, job[q].number) :
           versions[d].state = "submitted"

(* An accept publishes a version based on the current one.                  *)
BasedOnCurrent(q) ==
    /\ pc[q] \in {"unseat", "promote", "pointAccept"} =>
         \E s \in GetVersion(reg[q].record, job[q].number) :
           versions[s].base = reg[q].current
    /\ pc[q] \in {"archiveDerived", "pointDerived"} =>
         \E d \in GetVersion(reg[q].record, reg[q].next) :
           versions[d].base = reg[q].current

Alone(q) == /\ CurrentHeld(q) /\ NextLive(q) /\ StillPending(q)
            /\ BasedOnCurrent(q)

AloneInv == OneInFlight /\ \A q \in Requests : Alone(q)

LEMMA IdleAlone ==
  ASSUME NEW q, pc[q] \notin Steps
  PROVE  Alone(q)
  BY DEF Alone, CurrentHeld, NextLive, StillPending, BasedOnCurrent,
         ReadSteps, PointSteps, AfterCurrentRead, Steps, CreateSteps, PatchSteps,
         AcceptSteps, RejectSteps, RetractSteps, CurrentSteps

(* What the steps that read and insert leave the request with.              *)
LEMMA ResolveReads ==
  ASSUME ControlTypeOK, NEW q \in Requests, pc'[q] \notin Answers,
         PatchResolve(q) \/ SetCurrentResolve(q) \/ AcceptDecide(q)
  PROVE  /\ reg'[q].current = meta[reg'[q].record].current
         /\ reg'[q].record \in DOMAIN meta
         /\ PatchResolve(q) \/ reg'[q].record \in GetMeta(job[q].id)
  <1> /\ pc \in [Requests -> Steps \cup Answers \cup {"idle"}]
      /\ reg \in [Requests -> Locals] /\ DOMAIN job = Requests
    BY DEF ControlTypeOK
  <1>1. \A r, n : Located(r, n).record = r
                  /\ Located(r, n).current = meta[r].current
    BY DEF Located
  <1>2. CASE PatchResolve(q)
    <2>1. PICK r \in ResolveMeta(job[q].id) : reg'[q] = Located(r, NoVersion)
      BY <1>2 DEF PatchResolve, Remember, Answer, Answers
    <2>2. r \in DOMAIN meta
      BY DEF ResolveMeta, GetMeta
    <2> QED
      BY <1>1, <1>2, <2>1, <2>2
  <1>3. CASE SetCurrentResolve(q)
    <2>1. PICK r \in GetMeta(job[q].id) : reg'[q] = Located(r, job[q].number)
      BY <1>3 DEF SetCurrentResolve, Remember, Answer, Answers
    <2> QED
      BY <1>1, <2>1 DEF GetMeta
  <1>4. CASE AcceptDecide(q)
    <2> DEFINE Copied(r, s, c, b) ==
                 [Located(r, NoVersion) EXCEPT
                    !.content = Merged(job[q].fields, versions[s].content,
                                  versions[c].content, versions[b].content),
                    !.author = versions[s].submittedBy,
                    !.reviewedBy = job[q].user]
    <2>1. ~Answer(q, "refused")
      BY DEF Answer, Answers
    <2>2. PICK r \in GetMeta(job[q].id) :
            \E s \in Addressed(job[q]) :
              \/ Remember(q, "unseat", Located(r, job[q].number))
              \/ \E c, b : Remember(q, "numberDerived", Copied(r, s, c, b))
      BY <1>4, <2>1 DEF AcceptDecide
    <2>3. \A s, c, b : Copied(r, s, c, b).record = r
                       /\ Copied(r, s, c, b).current = meta[r].current
      BY DEF Located
    <2> HIDE DEF Copied
    <2>4. reg'[q].record = r /\ reg'[q].current = meta[r].current
      BY <1>1, <2>2, <2>3 DEF Remember
    <2> QED
      BY <2>4 DEF GetMeta
  <1> QED
    BY <1>2, <1>3, <1>4

LEMMA BaseReads ==
  ASSUME ControlTypeOK, NEW q \in Requests, pc'[q] \notin Answers, PatchBase(q)
  PROVE  /\ UNCHANGED store /\ job' = job
         /\ reg'[q].record \in GetMeta(job[q].id)
         /\ reg'[q].current = meta[reg'[q].record].current
         /\ reg'[q].content = reg[q].content
  <1> /\ pc \in [Requests -> Steps \cup Answers \cup {"idle"}]
      /\ reg \in [Requests -> Locals]
    BY DEF ControlTypeOK
  <1>1. PICK r \in GetMeta(job[q].id) :
          Remember(q, "numberPatch", [reg[q] EXCEPT !.record = r,
                                        !.current = meta[r].current])
    BY DEF PatchBase, Answer, Answers
  <1>2. LET l == [reg[q] EXCEPT !.record = r, !.current = meta[r].current]
        IN  l.record = r /\ l.current = meta[r].current
            /\ l.content = reg[q].content
    BY DEF Locals
  <1> QED
    BY <1>1, <1>2 DEF PatchBase, Remember

LEMMA CarriesLocals ==
  ASSUME ControlTypeOK, NEW q \in Requests, pc'[q] \notin Answers,
         PatchRead(q) \/ PatchNumber(q) \/ AcceptNumber(q)
  PROVE  /\ UNCHANGED store /\ job' = job
         /\ reg'[q].record = reg[q].record /\ reg'[q].current = reg[q].current
         /\ PatchRead(q) \/ reg'[q].content = reg[q].content
  <1> /\ pc \in [Requests -> Steps \cup Answers \cup {"idle"}]
      /\ reg \in [Requests -> Locals]
    BY DEF ControlTypeOK
  <1>1. CASE PatchRead(q)
    <2>1. PICK d : Remember(q, "base", [reg[q] EXCEPT
                     !.content = Overlay(versions[d].content, job[q].patch),
                     !.reviewedBy = versions[d].reviewedBy,
                     !.resulting = versions[d].resulting])
      BY <1>1 DEF PatchRead, Answer, Answers
    <2>2. LET l == [reg[q] EXCEPT
                      !.content = Overlay(versions[d].content, job[q].patch),
                      !.reviewedBy = versions[d].reviewedBy,
                      !.resulting = versions[d].resulting]
          IN  l.record = reg[q].record /\ l.current = reg[q].current
      BY DEF Locals
    <2> QED
      BY <1>1, <2>1, <2>2 DEF PatchRead, Remember
  <1>2. CASE PatchNumber(q) \/ AcceptNumber(q)
    <2>1. PICK step, n : Remember(q, step, [reg[q] EXCEPT !.next = n])
      BY <1>2 DEF PatchNumber, AcceptNumber
    <2>2. LET l == [reg[q] EXCEPT !.next = n]
          IN  l.record = reg[q].record /\ l.current = reg[q].current
              /\ l.content = reg[q].content
      BY DEF Locals
    <2> QED
      BY <1>2, <2>1, <2>2 DEF PatchNumber, AcceptNumber, Remember
  <1> QED
    BY <1>1, <1>2

LEMMA InsertGoes ==
  ASSUME ControlTypeOK, NEW q \in Requests, PatchInsert(q) \/ AcceptInsert(q),
         pc'[q] \notin Answers
  PROVE  /\ reg' = reg /\ job' = job /\ meta' = meta
         /\ ~VersionTaken(reg[q].record, reg[q].next)
         /\ pc[q] \in {"insertPatch", "insertDerived"}
         /\ pc'[q] \in {"archive", "archiveDerived"}
         /\ q \in DOMAIN versions' /\ versions'[q].record = reg[q].record
         /\ versions'[q].version = reg[q].next /\ versions'[q].state = "live"
         /\ versions'[q].base = reg[q].current
         /\ \A d \in DOMAIN versions \ {q} : versions'[d] = versions[d]
         /\ DOMAIN versions' = DOMAIN versions \cup {q}
  <1> USE DEF InsertVersion, Goto, Refuse, Answer, Answers, ControlTypeOK
  <1>1. CASE PatchInsert(q)
    <2>1. /\ InsertVersion(q, NewVersion(q)) /\ Goto(q, "archive")
          /\ ~VersionTaken(reg[q].record, reg[q].next)
          /\ PatchState(job[q].user) = "live" /\ pc[q] = "insertPatch"
      BY <1>1 DEF PatchInsert
    <2>2. /\ NewVersion(q).record = reg[q].record
          /\ NewVersion(q).version = reg[q].next
          /\ NewVersion(q).state = "live"
          /\ NewVersion(q).base = reg[q].current
      BY <2>1 DEF NewVersion
    <2> QED
      BY <2>1, <2>2
  <1>2. CASE AcceptInsert(q)
    <2>1. /\ InsertVersion(q, DerivedVersion(q)) /\ Goto(q, "archiveDerived")
          /\ ~VersionTaken(reg[q].record, reg[q].next) /\ pc[q] = "insertDerived"
      BY <1>2 DEF AcceptInsert
    <2>2. /\ DerivedVersion(q).record = reg[q].record
          /\ DerivedVersion(q).version = reg[q].next
          /\ DerivedVersion(q).state = "live"
          /\ DerivedVersion(q).base = reg[q].current
      BY DEF DerivedVersion
    <2> QED
      BY <2>1, <2>2
  <1> QED
    BY <1>1, <1>2

LEMMA CurrentHeldStep ==
  ASSUME OutcomeInv, NEW q \in Requests, Arrive(q) \/ Serve(q) \/ Abort(q),
         CurrentHeld(q)
  PROVE  CurrentHeld(q)'
  <1> SUFFICES ASSUME pc'[q] \in ReadSteps PROVE CurrentHeld(q)'
    BY DEF CurrentHeld
  <1> /\ TypeOK /\ ControlTypeOK /\ HistoryInv /\ StoreInv /\ RequestInv(q)
    BY DEF OutcomeInv, TypeOK, HistoryInv
  <1> /\ pc \in [Requests -> Steps \cup Answers \cup {"idle"}]
      /\ reg \in [Requests -> Locals] /\ DOMAIN job = Requests
    BY DEF ControlTypeOK
  <1> USE DEF Answers, Entry, ReadSteps, AfterCurrentRead
  <1>1. CASE PatchResolve(q) \/ SetCurrentResolve(q) \/ AcceptDecide(q)
    <2>1. meta' = meta
      BY <1>1 DEF PatchResolve, SetCurrentResolve, AcceptDecide, store
    <2>2. reg'[q].current = meta[reg'[q].record].current
      BY <1>1, ResolveReads
    <2> QED
      BY <2>1, <2>2 DEF CurrentHeld
  <1>2. CASE PatchBase(q)
    <2>1. /\ UNCHANGED store
          /\ reg'[q].current = meta[reg'[q].record].current
      BY <1>2, BaseReads
    <2> QED
      BY <2>1 DEF CurrentHeld, store
  <1>3. CASE PatchRead(q) \/ PatchNumber(q) \/ AcceptNumber(q)
    <2>1. meta' = meta /\ pc[q] \in ReadSteps
      BY <1>3 DEF PatchRead, PatchNumber, AcceptNumber, store
    <2>2. reg'[q].record = reg[q].record /\ reg'[q].current = reg[q].current
      BY <1>3, CarriesLocals
    <2> QED
      BY <2>1, <2>2 DEF CurrentHeld
  <1>4. CASE \/ PatchInsert(q) \/ AcceptPromote(q) \/ AcceptInsert(q)
             \/ SetCurrentRead(q) \/ SetCurrentRestore(q) \/ ArchiveCurrent(q)
    <2>1. /\ pc[q] \in ReadSteps /\ reg' = reg /\ meta' = meta
      BY <1>4
      DEF PatchInsert, AcceptPromote, AcceptInsert, SetCurrentRead,
          SetCurrentRestore, ArchiveCurrent, AfterArchive, archiveVersion,
          setVersionState, InsertVersion, Goto, Answer, Refuse, store
    <2> QED
      BY <2>1 DEF CurrentHeld
  <1> QED
    BY <1>1, <1>2, <1>3, <1>4, StepMoves DEF Moves

LEMMA NextLiveStep ==
  ASSUME OutcomeInv, NEW q \in Requests, Arrive(q) \/ Serve(q) \/ Abort(q),
         NextLive(q)
  PROVE  NextLive(q)'
  <1> SUFFICES ASSUME pc'[q] \in {"archive", "archiveDerived"} \cup PointSteps
               PROVE  NextLive(q)'
    BY DEF NextLive
  <1> /\ TypeOK /\ ControlTypeOK /\ HistoryInv /\ StoreInv /\ RequestInv(q)
      /\ StoreTypeOK
    BY DEF OutcomeInv, TypeOK, HistoryInv
  <1>1. StoreInv' /\ Grows
    BY RequestKeeps DEF OutcomeInv, Kept
  <1>2. CASE PatchInsert(q) \/ AcceptInsert(q)
    <2> DEFINE doc == versions'[q]
    <2>1. /\ reg' = reg /\ ~VersionTaken(reg[q].record, reg[q].next)
          /\ pc[q] \in {"insertPatch", "insertDerived"}
          /\ pc'[q] \in {"archive", "archiveDerived"}
          /\ q \in DOMAIN versions' /\ doc.record = reg[q].record
          /\ doc.version = reg[q].next /\ doc.state = "live"
      BY <1>2, InsertGoes DEF PointSteps, Answers
    <2>2. reg[q].next # reg[q].current
      <3>1. IsPublished(reg[q].record, reg[q].current)
        BY <2>1 DEF RequestInv, CurrentRead, AfterCurrentRead
      <3> QED
        BY <2>1, <3>1 DEF IsPublished, VersionTaken
    <2>3. \A d \in GetVersion(reg[q].record, reg[q].next)' : d = q
      BY <1>1, <2>1 DEF GetVersion, VersionsOf, NumbersUnique, StoreInv
    <2> QED
      BY <2>1, <2>2, <2>3 DEF NextLive, PointSteps
  <1>3. CASE ArchiveCurrent(q) /\ pc[q] \in {"archive", "archiveDerived"}
    <2>1. /\ reg' = reg /\ archiveVersion(reg[q].record, reg[q].current)
          /\ reg[q].next # reg[q].current
          /\ pc'[q] \notin {"archive", "archiveDerived"}
      BY <1>3 DEF ArchiveCurrent, AfterArchive, Goto, NextLive, ControlTypeOK
    <2>2. ASSUME NEW d \in GetVersion(reg[q].record, reg[q].next)'
          PROVE  versions'[d].state = "live"
      <3>1. d \in GetVersion(reg[q].record, reg[q].next)
        BY <1>1, <1>3, <2>1, <2>2, VersionStays, PublishedExists
        DEF RequestInv, NumberFound, StoreInv
      <3>2. d \notin GetVersion(reg[q].record, reg[q].current)
        BY <2>1, <3>1 DEF GetVersion
      <3>3. versions'[d] = versions[d]
        BY <2>1, <3>1, <3>2 DEF archiveVersion, setVersionState, GetVersion,
                                VersionsOf
      <3> QED
        BY <1>3, <3>1, <3>3 DEF NextLive
    <2> QED
      BY <2>1, <2>2 DEF NextLive
  <1>4. CASE AcceptPromote(q) \/ SetCurrentRestore(q)
    <2>1. /\ reg' = reg /\ pc'[q] \notin {"archive", "archiveDerived"}
          /\ pc[q] \in {"promote", "restore"}
      BY <1>4 DEF AcceptPromote, SetCurrentRestore, Goto, ControlTypeOK
    <2>2. reg[q].next = job[q].number
            /\ GetVersion(reg[q].record, reg[q].next) # {}
      BY <2>1 DEF RequestInv, NumberFound
    <2>3. ASSUME NEW d \in GetVersion(reg[q].record, reg[q].next)'
          PROVE  versions'[d].state = "live"
      <3>1. d \in GetVersion(reg[q].record, job[q].number)
        BY <1>1, <2>1, <2>2, <2>3, VersionStays DEF StoreInv
      <3>2. versions[d] \in GameSystemVersion /\ d \in DOMAIN versions
        BY <3>1 DEF StoreTypeOK, GetVersion, VersionsOf
      <3>3. CASE AcceptPromote(q)
        <4>1. versions'[d] = [versions[d] EXCEPT !.state = "live",
                                                 !.reviewedBy = job[q].user]
          BY <3>1, <3>2, <3>3 DEF AcceptPromote, setVersionState
        <4> QED
          BY <3>2, <4>1 DEF GameSystemVersion
      <3>4. CASE SetCurrentRestore(q)
        BY <3>1, <3>2, <3>4 DEF SetCurrentRestore, setVersionState,
                                GameSystemVersion
      <3> QED
        BY <1>4, <3>3, <3>4
    <2> QED
      BY <2>1, <2>3 DEF NextLive
  <1> QED
    BY <1>2, <1>3, <1>4, StepMoves DEF Moves, Answers, Entry, PointSteps

(* A pending version is not the one a request found current.                *)
LEMMA PendingNotCurrent ==
  ASSUME NumbersUnique, NEW r, NEW n, IsPublished(r, n), NEW d \in DOMAIN versions,
         versions[d].state = "submitted"
  PROVE  d \notin GetVersion(r, n)
  <1>1. PICK e \in GetVersion(r, n) : versions[e].state # "submitted"
    BY DEF IsPublished
  <1> QED
    BY <1>1, AtMostOne

LEMMA PendingFound ==
  ASSUME IdsApart, StoreInv, NEW j, Pending(j) # {}, NEW r \in GetMeta(j.id)
  PROVE  \E d \in GetVersion(r, j.number) : versions[d].state = "submitted"
  <1>1. PICK d \in Pending(j) : TRUE
    OBVIOUS
  <1>2. /\ j.id = MetaId(j.id.of) /\ d \in GetVersion(j.id.of, j.number)
        /\ versions[d].state = "submitted"
    BY <1>1, PendingNames DEF Pending
  <1>3. r = j.id.of
    BY <1>2, GetMetaNames, IdForms
  <1> QED
    BY <1>2, <1>3

LEMMA StillPendingStep ==
  ASSUME OutcomeInv, NEW q \in Requests, Arrive(q) \/ Serve(q) \/ Abort(q),
         StillPending(q)
  PROVE  StillPending(q)'
  <1> DEFINE Deciding == {"numberDerived", "insertDerived", "archiveDerived",
                          "pointDerived", "close", "reject", "retract"}
  <1> SUFFICES ASSUME pc'[q] \in Deciding \cup {"decide"}
               PROVE  StillPending(q)'
    BY DEF StillPending
  <1> /\ TypeOK /\ ControlTypeOK /\ HistoryInv /\ StoreInv /\ RequestInv(q)
      /\ StoreTypeOK /\ IdsApart
    BY DEF OutcomeInv, TypeOK, HistoryInv
  <1> /\ pc \in [Requests -> Steps \cup Answers \cup {"idle"}]
      /\ reg \in [Requests -> Locals] /\ DOMAIN job = Requests
    BY DEF ControlTypeOK
  <1>1. CASE AcceptLoad(q)
    <2>1. UNCHANGED store /\ job' = job /\ pc'[q] = "decide"
      BY <1>1 DEF AcceptLoad, Goto, Answer, Answers
    <2>2. Pending(job[q]) # {}
      BY <1>1, <2>1 DEF AcceptLoad, Answer
    <2> QED
      BY <2>1, <2>2 DEF StillPending, Pending, Addressed, store
  <1>2. CASE AcceptDecide(q) /\ pc'[q] = "numberDerived"
    <2>1. /\ UNCHANGED store /\ job' = job /\ pc[q] = "decide"
          /\ Pending(job[q]) # {}
      BY <1>2 DEF AcceptDecide, Remember, Answer, StillPending
    <2>2. reg'[q].record \in GetMeta(job[q].id)
      BY <1>2, ResolveReads DEF Answers, AcceptDecide, PatchResolve
    <2> QED
      BY <1>2, <2>1, <2>2, PendingFound
      DEF StillPending, GetVersion, VersionsOf, store
  <1>3. CASE AcceptNumber(q)
    <2>1. /\ UNCHANGED store /\ job' = job /\ reg'[q].record = reg[q].record
          /\ pc[q] = "numberDerived" /\ pc'[q] = "insertDerived"
      BY <1>3, CarriesLocals DEF AcceptNumber, Remember, Answers
    <2> QED
      BY <2>1 DEF StillPending, GetVersion, VersionsOf, store
  <1>4. CASE AcceptInsert(q)
    <2>1. /\ reg' = reg /\ job' = job /\ pc[q] = "insertDerived"
          /\ \A d \in DOMAIN versions \ {q} : versions'[d] = versions[d]
          /\ DOMAIN versions' = DOMAIN versions \cup {q}
          /\ pc'[q] = "archiveDerived"
      BY <1>4, InsertGoes DEF AcceptInsert, Answers, Refuse, Answer, Goto
    <2>2. q \notin DOMAIN versions
      BY <2>1 DEF RequestInv, Fresh, BeforeInsert
    <2> QED
      BY <2>1, <2>2 DEF StillPending, GetVersion, VersionsOf
  <1>5. CASE ArchiveCurrent(q) /\ pc[q] = "archiveDerived"
    <2>1. /\ reg' = reg /\ job' = job /\ pc'[q] = "pointDerived"
          /\ archiveVersion(reg[q].record, reg[q].current)
      BY <1>5 DEF ArchiveCurrent, AfterArchive, Goto
    <2>2. PICK d \in GetVersion(reg[q].record, job[q].number) :
            versions[d].state = "submitted"
      BY <1>5 DEF StillPending
    <2>3. d \notin GetVersion(reg[q].record, reg[q].current)
      BY <1>5, <2>2, PendingNotCurrent
      DEF RequestInv, CurrentRead, AfterCurrentRead, GetVersion, VersionsOf,
          StoreInv
    <2>4. d \in DOMAIN versions' /\ versions'[d] = versions[d]
      BY <2>1, <2>3 DEF archiveVersion, setVersionState, GetVersion, VersionsOf
    <2> QED
      BY <2>1, <2>2, <2>4 DEF StillPending, GetVersion, VersionsOf
  <1>6. CASE PointMeta(q) /\ pc[q] = "pointDerived"
    <2>1. /\ reg' = reg /\ job' = job /\ pc'[q] = "close" /\ versions' = versions
      BY <1>6 DEF PointMeta, Goto, setMetaCurrentVersion
    <2> QED
      BY <1>6, <2>1 DEF StillPending, GetVersion, VersionsOf
  <1>7. CASE RejectLoad(q) \/ RetractLoad(q)
    <2>1. /\ UNCHANGED store /\ job' = job /\ pc'[q] \in {"reject", "retract"}
          /\ reg'[q] = [NoReg EXCEPT !.record = job[q].id.of]
          /\ Pending(job[q]) # {}
      BY <1>7 DEF RejectLoad, RetractLoad, Remember, Answer, Answers
    <2>2. reg'[q].record = job[q].id.of
      BY <2>1 DEF NoReg
    <2>3. PICK d \in Pending(job[q]) : TRUE
      BY <2>1
    <2>4. d \in GetVersion(job[q].id.of, job[q].number)
          /\ versions[d].state = "submitted"
      BY <2>3, PendingNames DEF Pending
    <2> QED
      BY <2>1, <2>2, <2>4 DEF StillPending, GetVersion, VersionsOf, store
  <1> QED
    BY <1>1, <1>2, <1>3, <1>4, <1>5, <1>6, <1>7, StepMoves
    DEF Moves, Answers, Entry

LEMMA BasedOnCurrentStep ==
  ASSUME OutcomeInv, NEW q \in Requests, Arrive(q) \/ Serve(q) \/ Abort(q),
         BasedOnCurrent(q)
  PROVE  BasedOnCurrent(q)'
  <1> SUFFICES ASSUME pc'[q] \in {"unseat", "promote", "pointAccept",
                                  "archiveDerived", "pointDerived"}
               PROVE  BasedOnCurrent(q)'
    BY DEF BasedOnCurrent
  <1> /\ TypeOK /\ ControlTypeOK
      /\ pc \in [Requests -> Steps \cup Answers \cup {"idle"}]
      /\ reg \in [Requests -> Locals] /\ DOMAIN job = Requests
    BY DEF OutcomeInv, TypeOK, ControlTypeOK
  <1>1. Grows
    BY RequestKeeps DEF OutcomeInv, Kept
  <1>2. CASE AcceptDecide(q)
    <2> DEFINE Copied(r, s, c, b) ==
                 [Located(r, NoVersion) EXCEPT
                    !.content = Merged(job[q].fields, versions[s].content,
                                  versions[c].content, versions[b].content),
                    !.author = versions[s].submittedBy,
                    !.reviewedBy = job[q].user]
    <2>1. ~Answer(q, "refused") /\ pc'[q] = "unseat"
      BY <1>2 DEF AcceptDecide, Remember, Answer
    <2>2. PICK r \in GetMeta(job[q].id) :
            \E s \in GetVersion(r, job[q].number) :
              \/ /\ Remember(q, "unseat", Located(r, job[q].number))
                 /\ versions[s].base = meta[r].current
              \/ \E c, b : Remember(q, "numberDerived", Copied(r, s, c, b))
      BY <1>2, <2>1, DecideFinds DEF OutcomeInv, HistoryInv
    <2>3. PICK s \in GetVersion(r, job[q].number) :
              \/ /\ Remember(q, "unseat", Located(r, job[q].number))
                 /\ versions[s].base = meta[r].current
              \/ \E c, b : Remember(q, "numberDerived", Copied(r, s, c, b))
      BY <2>2
    <2> HIDE DEF Copied
    <2>4. /\ reg'[q] = Located(r, job[q].number) /\ job' = job
          /\ versions[s].base = meta[r].current
      BY <2>1, <2>3 DEF Remember
    <2>5. reg'[q].record = r /\ reg'[q].current = meta[r].current
      BY <2>4 DEF Located
    <2> QED
      BY <1>2, <2>1, <2>4, <2>5
      DEF BasedOnCurrent, AcceptDecide, GetVersion, VersionsOf, store
  <1>3. CASE AcceptInsert(q)
    <2>1. pc'[q] = "archiveDerived"
      BY <1>3 DEF AcceptInsert, Refuse, Answer, Goto
    <2>2. /\ reg' = reg /\ q \in DOMAIN versions'
          /\ versions'[q].record = reg[q].record
          /\ versions'[q].version = reg[q].next
          /\ versions'[q].base = reg[q].current
      BY <1>3, <2>1, InsertGoes DEF Answers
    <2> QED
      BY <2>1, <2>2 DEF BasedOnCurrent, GetVersion, VersionsOf
  <1>4. CASE AcceptPromote(q) \/ ArchiveCurrent(q)
    <2>1. reg' = reg /\ job' = job
      BY <1>4 DEF AcceptPromote, ArchiveCurrent, Goto
    <2>2. \/ /\ pc[q] \in {"unseat", "promote"}
             /\ pc'[q] \in {"promote", "pointAccept"}
          \/ pc[q] = "archiveDerived" /\ pc'[q] = "pointDerived"
      BY <1>4 DEF AcceptPromote, ArchiveCurrent, AfterArchive, Goto
    <2>3. \A d \in DOMAIN versions :
            /\ versions'[d].base = versions[d].base
            /\ \A r, n : d \in GetVersion(r, n) => d \in GetVersion(r, n)'
      BY <1>1, Stays
    <2>4. \A r, n : GetVersion(r, n) \subseteq DOMAIN versions
      BY DEF GetVersion, VersionsOf
    <2> QED
      BY <2>1, <2>2, <2>3, <2>4 DEF BasedOnCurrent
  <1> QED
    BY <1>2, <1>3, <1>4, StepMoves DEF Moves, Answers, Entry

LEMMA AloneInit == Init => AloneInv
  <1> SUFFICES ASSUME Init PROVE AloneInv
    OBVIOUS
  <1>1. \A q \in Requests : pc[q] \notin Steps
    BY DEF Init, Steps, CreateSteps, PatchSteps, AcceptSteps, RejectSteps,
           RetractSteps, CurrentSteps
  <1> QED
    BY <1>1, IdleAlone DEF AloneInv, OneInFlight, InFlight

LEMMA AloneStep ==
  ASSUME Serial, OutcomeInv, AloneInv, [Next]_vars
  PROVE  AloneInv'
  <1>1. CASE UNCHANGED vars
    BY <1>1 DEF vars, store, control, AloneInv, OneInFlight, InFlight, Alone,
                CurrentHeld, NextLive, StillPending, Pending, Addressed,
                BasedOnCurrent, GetVersion, VersionsOf
  <1>2. ASSUME NEW q \in Requests, Arrive(q) \/ Serve(q) \/ Abort(q)
        PROVE  AloneInv'
    <2>1. OneInFlight' /\ \A p \in Requests \ {q} : pc'[p] \notin Steps
      BY <1>2, OneInFlightStep DEF AloneInv, OutcomeInv, TypeOK
    <2>2. \A p \in Requests \ {q} : Alone(p)'
      BY <2>1 DEF Alone, CurrentHeld, NextLive, StillPending,
                  BasedOnCurrent, ReadSteps, PointSteps, AfterCurrentRead, Steps,
                  CreateSteps, PatchSteps, AcceptSteps, RejectSteps,
                  RetractSteps, CurrentSteps
    <2>3. Alone(q)
      BY DEF AloneInv
    <2>4. Alone(q)'
      BY <1>2, <2>3, CurrentHeldStep, NextLiveStep, StillPendingStep,
         BasedOnCurrentStep DEF Alone
    <2> QED
      BY <2>1, <2>2, <2>4 DEF AloneInv
  <1> QED
    BY <1>1, <1>2 DEF Next

-----------------------------------------------------------------------------
(* What follows of requests handled one at a time.                          *)

SerialInv == OutcomeInv /\ EditorialInv /\ AloneInv

LEMMA SerialInit ==
  ASSUME IdsApart
  PROVE  Init => SerialInv
  BY OutcomeInit, EditorialInit, AloneInit DEF SerialInv

LEMMA SerialStep ==
  ASSUME Serial, SerialInv, [Next]_vars
  PROVE  SerialInv'
  BY OutcomeStep, EditorialStep, AloneStep DEF SerialInv

(* Of requests handled one at a time, wherever they end early: the version  *)
(* the pointer is moved to is live, so no earlier failure keeps a system    *)
(* out of the listing once another version is published or chosen.          *)
THEOREM SerialRepairs ==
  ASSUME IdsApart, Serial
  PROVE  Spec => PublishRepairs
  <1> DEFINE P == \A q \in Requests : PointMeta(q) =>
                    \A d \in GetVersion(reg[q].record, reg[q].next) :
                      versions[d].state = "live"
  <1>1. SerialInv => P
    BY DEF SerialInv, AloneInv, Alone, NextLive, PointMeta, PointSteps
  <1>2. SerialInv /\ [Next]_vars => SerialInv'
    BY SerialStep
  <1>3. PublishRepairs <=> [][P]_vars
    BY DEF PublishRepairs
  <1> QED
    BY <1>1, <1>2, <1>3, SerialInit, PTL DEF Spec

LEMMA AcceptKeepsConflicts ==
  ASSUME SerialInv, NEW q \in Requests, PointMeta(q),
         pc[q] \in {"pointAccept", "pointDerived"},
         NEW old \in GetVersion(reg[q].record, meta[reg[q].record].current),
         NEW new \in GetVersion(reg[q].record, meta'[reg[q].record].current),
         NEW s \in GetVersion(reg[q].record, job[q].number),
         NEW b \in GetVersion(reg[q].record, versions[s].base),
         NEW f \in Fields, ~Same(old, b, f)
  PROVE  Same(new, old, f)
  <1>1. /\ StoreTypeOK /\ ControlTypeOK /\ StoreInv /\ NumbersUnique
        /\ RequestInv(q) /\ CurrentHeld(q) /\ BasedOnCurrent(q) /\ MergeFound(q)
    BY DEF SerialInv, OutcomeInv, TypeOK, HistoryInv, StoreInv, AloneInv, Alone,
           EditorialInv
  <1>2. meta[reg[q].record].current = reg[q].current
    BY <1>1 DEF CurrentHeld, ReadSteps, AfterCurrentRead
  <1>3. CASE pc[q] = "pointAccept"
    <2>1. PICK t \in GetVersion(reg[q].record, job[q].number) :
            versions[t].base = reg[q].current
      BY <1>1, <1>3 DEF BasedOnCurrent
    <2>2. t = s
      BY <1>1, AtMostOne
    <2>3. b = old
      BY <1>1, <1>2, <2>1, <2>2, AtMostOne
    <2> QED
      BY <2>3 DEF Same
  <1>4. CASE pc[q] = "pointDerived"
    <2>1. reg[q].record \in DOMAIN meta
      BY <1>1, <1>4, PublishedExists, ExistsKnown
      DEF RequestInv, CurrentRead, AfterCurrentRead
    <2>2. meta'[reg[q].record].current = reg[q].next
      BY <1>1, <2>1
      DEF PointMeta, setMetaCurrentVersion, StoreTypeOK, EntityMeta
    <2>3. PICK t \in GetVersion(reg[q].record, job[q].number),
               d \in GetVersion(reg[q].record, reg[q].next) : DerivedFrom(d, t)
      BY <1>1, <1>4 DEF MergeFound
    <2>4. t = s /\ d = new
      BY <1>1, <2>2, <2>3, AtMostOne
    <2>5. versions[new].base = reg[q].current
      BY <1>1, <1>4, <2>2, AtMostOne DEF BasedOnCurrent
    <2>6. /\ versions[new].record = reg[q].record
          /\ versions[s].record = reg[q].record
      BY DEF GetVersion, VersionsOf
    <2>7. CopyOf(versions[new].content, versions[s].content,
                 versions[old].content, versions[b].content)
      BY <1>2, <2>3, <2>4, <2>5, <2>6 DEF DerivedFrom
    <2> QED
      BY <2>7 DEF CopyOf, Same
  <1> QED
    BY <1>3, <1>4

(* Of requests handled one at a time: an accept never replaces the value of *)
(* a field that has left the submission's base (AcceptVersion: conflicts    *)
(* are kept for the reviewer, never silently overwritten).                  *)
THEOREM SerialKeepsConflicts ==
  ASSUME IdsApart, Serial
  PROVE  Spec => ConflictsNotOverwritten
  <1> DEFINE P == \A q \in Requests :
                    PointMeta(q) /\ pc[q] \in {"pointAccept", "pointDerived"} =>
                      LET r == reg[q].record IN
                      \A old \in GetVersion(r, meta[r].current),
                         new \in GetVersion(r, meta'[r].current),
                         s   \in GetVersion(r, job[q].number) :
                        \A b \in GetVersion(r, versions[s].base) :
                          \A f \in Target(versions[s].content,
                                          versions[b].content, job[q].fields) :
                            ~Same(old, b, f) => Same(new, old, f)
  <1>1. SerialInv => P
    <2>1. \A s, b, fields : Target(s, b, fields) \subseteq Fields
      BY DEF Target, changedFields
    <2> QED
      BY <2>1, AcceptKeepsConflicts
  <1>2. SerialInv /\ [Next]_vars => SerialInv'
    BY SerialStep
  <1>3. ConflictsNotOverwritten <=> [][P]_vars
    BY DEF ConflictsNotOverwritten
  <1> QED
    BY <1>1, <1>2, <1>3, SerialInit, PTL DEF Spec

-----------------------------------------------------------------------------
(* At rest the one live version is the current one.                         *)

LiveOf(r) == {d \in VersionsOf(r) : versions[d].state = "live"}

OneLive(r) == LiveOf(r) = GetVersion(r, meta[r].current)

(* Between archiving the old version, raising the new one and moving the    *)
(* pointer, the steps at which a record may not be in order, and which of   *)
(* its versions is live there.                                              *)
Moving == {"archive", "archiveDerived", "promote", "restore"} \cup PointSteps

MovingLive(q) ==
    LET r == reg[q].record IN
    /\ pc[q] \in {"archive", "archiveDerived"} =>
         LiveOf(r) = GetVersion(r, reg[q].current) \cup GetVersion(r, reg[q].next)
    /\ pc[q] \in {"promote", "restore"} => LiveOf(r) = {}
    /\ pc[q] \in PointSteps => LiveOf(r) = GetVersion(r, reg[q].next)

Moved(q, r) == pc[q] \in Moving /\ reg[q].record = r

RestInv ==
    aborts = 0 =>
      /\ \A q \in Requests : MovingLive(q)
      /\ \A r \in DOMAIN meta : OneLive(r) \/ \E q \in Requests : Moved(q, r)

(* The same, seen from the one request in flight.                           *)
RestOf(q) == MovingLive(q) /\ \A r \in DOMAIN meta : OneLive(r) \/ Moved(q, r)

LEMMA MovingSteps == Moving \subseteq Steps \ Answers
  BY DEF Moving, PointSteps, Steps, PatchSteps, AcceptSteps, CurrentSteps, Answers

(* A step at which nothing in the store changes.                            *)
LEMMA RestQuiet ==
  ASSUME NEW q, UNCHANGED store, RestOf(q), pc[q] \notin Moving,
         pc'[q] \notin Moving
  PROVE  RestOf(q)'
  BY DEF RestOf, MovingLive, Moved, Moving, OneLive, LiveOf, GetVersion,
         VersionsOf, store

LEMMA RestCreated ==
  ASSUME TypeOK, HistoryInv, NEW q \in Requests, RestOf(q),
         CreateInsertMeta(q) \/ CreateInsertVersion(q)
  PROVE  RestOf(q)'
  <1> /\ ControlTypeOK /\ StoreInv /\ RequestInv(q) /\ StoreTypeOK
    BY DEF TypeOK, HistoryInv
  <1> /\ pc \in [Requests -> Steps \cup Answers \cup {"idle"}]
      /\ DOMAIN job = Requests
    BY DEF ControlTypeOK
  <1>1. pc[q] \notin Moving /\ pc'[q] \notin Moving
    BY DEF CreateInsertMeta, CreateInsertVersion, Refuse, Answer, Goto, Moving,
           PointSteps
  <1>2. \A r \in DOMAIN meta : OneLive(r)
    BY <1>1 DEF RestOf, Moved
  <1> SUFFICES ASSUME NEW r \in DOMAIN meta' PROVE OneLive(r)'
    BY <1>1 DEF RestOf, MovingLive, Moving
  <1>3. CASE CreateInsertMeta(q)
    <2>1. CASE Refuse(q)
      BY <1>2, <2>1 DEF Refuse, store, OneLive, LiveOf, GetVersion, VersionsOf
    <2>2. CASE ~Refuse(q)
      <3>1. /\ versions' = versions /\ DOMAIN meta' = DOMAIN meta \cup {q}
            /\ \A s \in DOMAIN meta \ {q} : meta'[s] = meta[s]
            /\ pc[q] = "insertMeta"
        BY <1>3, <2>2 DEF CreateInsertMeta, InsertMeta
      <3>2. CASE r = q
        <4>1. VersionsOf(q) = {}
          BY <3>1, ExistsKnown DEF RequestInv, Fresh
        <4> QED
          BY <3>1, <3>2, <4>1 DEF OneLive, LiveOf, GetVersion, VersionsOf
      <3>3. CASE r # q
        BY <1>2, <3>1, <3>3 DEF OneLive, LiveOf, GetVersion, VersionsOf
      <3> QED
        BY <3>2, <3>3
    <2> QED
      BY <2>1, <2>2
  <1>4. CASE CreateInsertVersion(q)
    <2> DEFINE first == [record |-> q, version |-> 1,
                         content |-> job[q].body.content, state |-> "live",
                         base |-> NoVersion, submittedBy |-> job[q].user,
                         reviewedBy |-> job[q].body.reviewedBy,
                         resulting |-> job[q].body.resulting]
    <2>1. first.record = q /\ first.version = 1 /\ first.state = "live"
      OBVIOUS
    <2>2. /\ meta' = meta /\ DOMAIN versions' = DOMAIN versions \cup {q}
          /\ versions'[q] = first
          /\ \A d \in DOMAIN versions \ {q} : versions'[d] = versions[d]
          /\ pc[q] = "insertFirst"
      <3>1. InsertVersion(q, first) /\ pc[q] = "insertFirst"
        BY <1>4, CreateIsFirst DEF CreateInsertVersion
      <3> HIDE DEF first
      <3> QED
        BY <3>1 DEF InsertVersion
    <2> HIDE DEF first
    <2>3. VersionsOf(q) = {} /\ q \in DOMAIN meta /\ q \notin DOMAIN versions
      BY <2>2 DEF RequestInv, Fresh, BeforeInsert
    <2>4. meta[q].current = 1
      BY <2>3 DEF StoreInv, CurrentKnown, WasCurrent
    <2>5. CASE r = q
      BY <2>1, <2>2, <2>3, <2>4, <2>5 DEF OneLive, LiveOf, GetVersion, VersionsOf
    <2>6. CASE r # q
      BY <1>2, <2>1, <2>2, <2>3, <2>6 DEF OneLive, LiveOf, GetVersion, VersionsOf
    <2> QED
      BY <2>5, <2>6
  <1> QED
    BY <1>3, <1>4

(* A version is inserted: live, on its way to be current, or pending.       *)
LEMMA RestInserted ==
  ASSUME TypeOK, HistoryInv, NEW q \in Requests, RestOf(q), CurrentHeld(q),
         PatchInsert(q) \/ AcceptInsert(q)
  PROVE  RestOf(q)'
  <1> /\ ControlTypeOK /\ StoreInv /\ RequestInv(q) /\ StoreTypeOK
    BY DEF TypeOK, HistoryInv
  <1> /\ pc \in [Requests -> Steps \cup Answers \cup {"idle"}]
      /\ reg \in [Requests -> Locals] /\ DOMAIN job = Requests
    BY DEF ControlTypeOK
  <1>1. pc[q] \in {"insertPatch", "insertDerived"} /\ pc[q] \notin Moving
    BY DEF PatchInsert, AcceptInsert, Moving, PointSteps
  <1>2. \A r \in DOMAIN meta : OneLive(r)
    BY <1>1 DEF RestOf, Moved
  <1>3. CASE Refuse(q)
    <2>1. UNCHANGED store /\ pc'[q] \notin Moving
      BY <1>3, MovingSteps DEF Refuse, Answer, Answers
    <2> QED
      BY <1>1, <2>1, RestQuiet
  <1>4. CASE ~Refuse(q)
    <2> DEFINE doc == versions'[q]
    <2>1. /\ meta' = meta /\ DOMAIN versions' = DOMAIN versions \cup {q}
          /\ \A d \in DOMAIN versions \ {q} : versions'[d] = versions[d]
          /\ ~VersionTaken(reg[q].record, reg[q].next)
          /\ doc = NewVersion(q) \/ doc = DerivedVersion(q)
      BY <1>4 DEF PatchInsert, AcceptInsert, InsertVersion
    <2>2. doc.record = reg[q].record /\ doc.version = reg[q].next
      BY <2>1 DEF NewVersion, DerivedVersion
    <2>3. q \notin DOMAIN versions
      BY <1>1 DEF RequestInv, Fresh, BeforeInsert
    <2>4. /\ IsPublished(reg[q].record, reg[q].current)
          /\ reg[q].record \in DOMAIN meta
          /\ meta[reg[q].record].current = reg[q].current
          /\ reg[q].next # reg[q].current
      <3>1. IsPublished(reg[q].record, reg[q].current)
        BY <1>1 DEF RequestInv, CurrentRead, AfterCurrentRead
      <3>2. meta[reg[q].record].current = reg[q].current
        BY <1>1 DEF CurrentHeld, ReadSteps, AfterCurrentRead
      <3> QED
        BY <2>1, <3>1, <3>2, PublishedExists, ExistsKnown
        DEF IsPublished, VersionTaken
    <2>5. \A r, n : GetVersion(r, n)' = IF r = reg[q].record /\ n = reg[q].next
                                        THEN {q} ELSE GetVersion(r, n)
      BY <2>1, <2>2, <2>3 DEF VersionTaken, GetVersion, VersionsOf
    <2>6. \A r : LiveOf(r)' = IF r = reg[q].record /\ doc.state = "live"
                              THEN LiveOf(r) \cup {q} ELSE LiveOf(r)
      BY <2>1, <2>2, <2>3 DEF LiveOf, VersionsOf
    <2>7. \A r \in DOMAIN meta :
            \/ r # reg[q].record \/ doc.state # "live" => OneLive(r)'
      BY <1>2, <2>1, <2>4, <2>5, <2>6 DEF OneLive
    <2>8. CASE doc.state = "live"
      <3>1. pc'[q] \in {"archive", "archiveDerived"} /\ reg' = reg
        <4>1. CASE PatchInsert(q)
          <5>1. doc = NewVersion(q)
            BY <1>4, <4>1 DEF PatchInsert, InsertVersion
          <5>2. PatchState(job[q].user) = "live"
            BY <2>8, <5>1 DEF NewVersion
          <5> QED
            BY <1>4, <4>1, <5>2 DEF PatchInsert, Goto
        <4>2. CASE AcceptInsert(q)
          BY <1>4, <4>2 DEF AcceptInsert, Goto
        <4> QED
          BY <4>1, <4>2
      <3>2. LiveOf(reg[q].record)' = GetVersion(reg[q].record, reg[q].current)'
                                  \cup GetVersion(reg[q].record, reg[q].next)'
        BY <1>2, <2>4, <2>5, <2>6, <2>8, <3>1 DEF OneLive
      <3> QED
        BY <2>1, <2>7, <3>1, <3>2
        DEF RestOf, MovingLive, Moved, Moving, PointSteps
    <2>9. CASE doc.state # "live"
      <3>1. pc'[q] \notin Moving
        <4>1. PatchInsert(q) /\ doc = NewVersion(q)
          BY <1>4, <2>9
          DEF PatchInsert, AcceptInsert, InsertVersion, DerivedVersion
        <4>2. PatchState(job[q].user) # "live"
          BY <2>9, <4>1 DEF NewVersion
        <4>3. pc'[q] = "done"
          BY <1>4, <4>1, <4>2 DEF PatchInsert, Answer
        <4> QED
          BY <4>3, MovingSteps DEF Answers
      <3> QED
        BY <2>1, <2>7, <2>9, <3>1 DEF RestOf, MovingLive, Moving
    <2> QED
      BY <2>8, <2>9
  <1> QED
    BY <1>3, <1>4

LEMMA RestArchived ==
  ASSUME TypeOK, HistoryInv, NEW q \in Requests, RestOf(q), CurrentHeld(q),
         NextLive(q), ArchiveCurrent(q)
  PROVE  RestOf(q)'
  <1> /\ ControlTypeOK /\ StoreInv /\ RequestInv(q) /\ StoreTypeOK
      /\ pc \in [Requests -> Steps \cup Answers \cup {"idle"}]
    BY DEF TypeOK, HistoryInv, ControlTypeOK
  <1> DEFINE r == reg[q].record
             c == reg[q].current
  <1>1. /\ pc[q] \in {"archive", "unseat", "archiveDerived", "rollback"}
        /\ archiveVersion(r, c) /\ reg' = reg
        /\ pc[q] \in {"archive", "archiveDerived"} => pc'[q] \in PointSteps
        /\ pc[q] \in {"unseat", "rollback"} => pc'[q] \in {"promote", "restore"}
    BY DEF ArchiveCurrent, AfterArchive, Goto, PointSteps
  <1>2. /\ meta' = meta
        /\ \A s, m : GetVersion(s, m)' = GetVersion(s, m)
        /\ \A s : LiveOf(s)' = LiveOf(s) \ GetVersion(r, c)
    BY <1>1 DEF archiveVersion, setVersionState, StoreTypeOK, GameSystemVersion,
                LiveOf, GetVersion, VersionsOf
  <1>3. meta[r].current = c /\ r \in DOMAIN meta
    BY <1>1, PublishedExists, ExistsKnown
    DEF CurrentHeld, ReadSteps, RequestInv, CurrentRead, AfterCurrentRead
  <1>4. \A s \in DOMAIN meta \ {r} : OneLive(s)'
    <2>1. \A s \in DOMAIN meta \ {r} : OneLive(s)
      BY DEF RestOf, Moved
    <2>2. \A s : s # r => LiveOf(s) \cap GetVersion(r, c) = {}
      BY DEF LiveOf, GetVersion, VersionsOf
    <2> QED
      BY <1>2, <2>1, <2>2 DEF OneLive
  <1>5. pc'[q] \in Moving
    BY <1>1 DEF Moving
  <1>6. CASE pc[q] \in {"archive", "archiveDerived"}
    <2>1. LiveOf(r) = GetVersion(r, c) \cup GetVersion(r, reg[q].next)
      BY <1>6 DEF RestOf, MovingLive
    <2>2. reg[q].next # c
      BY <1>6 DEF NextLive
    <2>3. GetVersion(r, c) \cap GetVersion(r, reg[q].next) = {}
      BY <2>2 DEF GetVersion
    <2>4. LiveOf(r)' = GetVersion(r, reg[q].next)'
      BY <1>1, <1>2, <2>1, <2>3
    <2> QED
      BY <1>1, <1>2, <1>4, <1>5, <1>6, <2>4
      DEF RestOf, MovingLive, Moved, PointSteps
  <1>7. CASE pc[q] \in {"unseat", "rollback"}
    <2>1. OneLive(r)
      BY <1>3, <1>7 DEF RestOf, Moved, Moving, PointSteps
    <2>2. LiveOf(r)' = {}
      BY <1>1, <1>2, <1>3, <2>1 DEF OneLive
    <2> QED
      BY <1>1, <1>2, <1>4, <1>5, <1>7, <2>2
      DEF RestOf, MovingLive, Moved, PointSteps
  <1> QED
    BY <1>1, <1>6, <1>7

LEMMA RestRaised ==
  ASSUME TypeOK, HistoryInv, NEW q \in Requests, RestOf(q),
         AcceptPromote(q) \/ SetCurrentRestore(q)
  PROVE  RestOf(q)'
  <1> /\ StoreTypeOK /\ RequestInv(q)
      /\ pc \in [Requests -> Steps \cup Answers \cup {"idle"}]
    BY DEF TypeOK, HistoryInv, ControlTypeOK
  <1> DEFINE r == reg[q].record
             n == reg[q].next
  <1>1. /\ pc[q] \in {"promote", "restore"} /\ reg' = reg /\ n = job[q].number
        /\ pc'[q] \in PointSteps
    BY DEF AcceptPromote, SetCurrentRestore, Goto, PointSteps, RequestInv,
           NumberFound
  <1>2. \A d \in DOMAIN versions :
          /\ versions'[d].record = versions[d].record
          /\ versions'[d].version = versions[d].version
          /\ versions'[d].state = IF d \in GetVersion(r, n) THEN "live"
                                  ELSE versions[d].state
    <2>1. \A d \in DOMAIN versions : versions[d] \in GameSystemVersion
      BY DEF StoreTypeOK
    <2>2. CASE AcceptPromote(q)
      <3>1. \A d \in DOMAIN versions :
              versions'[d] = IF d \in GetVersion(r, n)
                             THEN [versions[d] EXCEPT !.state = "live",
                                                      !.reviewedBy = job[q].user]
                             ELSE versions[d]
        BY <1>1, <2>2 DEF AcceptPromote, setVersionState
      <3> QED
        BY <2>1, <3>1 DEF GameSystemVersion
    <2>3. CASE SetCurrentRestore(q)
      <3>1. \A d \in DOMAIN versions :
              versions'[d] = IF d \in GetVersion(r, n)
                             THEN [versions[d] EXCEPT !.state = "live"]
                             ELSE versions[d]
        BY <1>1, <2>3 DEF SetCurrentRestore, setVersionState
      <3> QED
        BY <2>1, <3>1 DEF GameSystemVersion
    <2> QED
      BY <2>2, <2>3
  <1>3. meta' = meta /\ DOMAIN versions' = DOMAIN versions
    BY DEF AcceptPromote, SetCurrentRestore, setVersionState
  <1>4. /\ \A s, m : GetVersion(s, m)' = GetVersion(s, m)
        /\ \A s : LiveOf(s)' = LiveOf(s) \cup (VersionsOf(s) \cap GetVersion(r, n))
    BY <1>2, <1>3 DEF LiveOf, GetVersion, VersionsOf
  <1>5. \A s \in DOMAIN meta \ {r} : OneLive(s)'
    <2>1. \A s \in DOMAIN meta \ {r} : OneLive(s)
      BY DEF RestOf, Moved
    <2>2. \A s : s # r => VersionsOf(s) \cap GetVersion(r, n) = {}
      BY DEF GetVersion, VersionsOf
    <2> QED
      BY <1>3, <1>4, <2>1, <2>2 DEF OneLive
  <1>6. LiveOf(r)' = GetVersion(r, n)'
    <2>1. LiveOf(r) = {}
      BY <1>1 DEF RestOf, MovingLive
    <2> QED
      BY <1>1, <1>4, <2>1 DEF GetVersion
  <1> QED
    BY <1>1, <1>3, <1>5, <1>6 DEF RestOf, MovingLive, Moved, Moving, PointSteps

LEMMA RestPointed ==
  ASSUME TypeOK, HistoryInv, NEW q \in Requests, RestOf(q), PointMeta(q)
  PROVE  RestOf(q)'
  <1> /\ StoreTypeOK
      /\ pc \in [Requests -> Steps \cup Answers \cup {"idle"}]
    BY DEF TypeOK, ControlTypeOK
  <1>1. /\ pc[q] \in PointSteps /\ versions' = versions
        /\ pc'[q] \in {"done", "close"} /\ DOMAIN meta' = DOMAIN meta
        /\ \A r \in DOMAIN meta :
             meta'[r].current = IF r = reg[q].record THEN reg[q].next
                                ELSE meta[r].current
    BY DEF PointMeta, setMetaCurrentVersion, Goto, Answer, PointSteps, StoreTypeOK,
           EntityMeta
  <1>2. pc'[q] \notin Moving
    BY <1>1 DEF Moving, PointSteps
  <1>3. \A r, n : GetVersion(r, n)' = GetVersion(r, n) /\ LiveOf(r)' = LiveOf(r)
    BY <1>1 DEF GetVersion, VersionsOf, LiveOf
  <1>4. LiveOf(reg[q].record) = GetVersion(reg[q].record, reg[q].next)
    BY <1>1 DEF RestOf, MovingLive
  <1>5. ASSUME NEW r \in DOMAIN meta'
        PROVE  OneLive(r)'
    BY <1>1, <1>3, <1>4 DEF RestOf, OneLive, Moved
  <1> QED
    BY <1>2, <1>5 DEF RestOf, MovingLive, Moving

(* Deciding a submission changes no live version.                           *)
LEMMA RestDecided ==
  ASSUME TypeOK, HistoryInv, NEW q \in Requests, RestOf(q), StillPending(q),
         AcceptClose(q) \/ RejectMark(q) \/ RetractMark(q)
  PROVE  RestOf(q)'
  <1> /\ StoreTypeOK /\ NumbersUnique
      /\ pc \in [Requests -> Steps \cup Answers \cup {"idle"}]
    BY DEF TypeOK, HistoryInv, StoreInv, ControlTypeOK
  <1> DEFINE r == reg[q].record
             n == job[q].number
  <1>1. /\ pc[q] \in {"close", "reject", "retract"} /\ pc'[q] = "done"
        /\ meta' = meta /\ DOMAIN versions' = DOMAIN versions
    BY DEF AcceptClose, RejectMark, RetractMark, setVersionState, Answer
  <1>2. pc[q] \notin Moving /\ pc'[q] \notin Moving
    BY <1>1 DEF Moving, PointSteps
  <1>3. \A d \in GetVersion(r, n) : versions[d].state = "submitted"
    BY <1>1, AtMostOne DEF StillPending
  <1>4. \A d \in DOMAIN versions :
          /\ versions'[d].record = versions[d].record
          /\ versions'[d].version = versions[d].version
          /\ versions'[d].state = "live" <=> versions[d].state = "live"
    <2> SUFFICES ASSUME NEW d \in DOMAIN versions
                 PROVE  /\ versions'[d].record = versions[d].record
                        /\ versions'[d].version = versions[d].version
                        /\ versions'[d].state = "live"
                             <=> versions[d].state = "live"
      OBVIOUS
    <2>1. CASE d \notin GetVersion(r, n)
      BY <2>1 DEF AcceptClose, RejectMark, RetractMark, setVersionState
    <2>2. CASE d \in GetVersion(r, n)
      <3>1. versions[d] \in GameSystemVersion /\ versions[d].state = "submitted"
        BY <1>3, <2>2 DEF StoreTypeOK
      <3>2. CASE AcceptClose(q)
        <4>1. versions'[d] = [versions[d] EXCEPT !.state = "partially_accepted",
                                !.reviewedBy = job[q].user,
                                !.resulting = reg[q].next]
          BY <2>2, <3>2 DEF AcceptClose, setVersionState
        <4> QED
          BY <3>1, <4>1 DEF GameSystemVersion
      <3>3. CASE RejectMark(q)
        <4>1. versions'[d] = [versions[d] EXCEPT !.state = "rejected",
                                !.reviewedBy = job[q].user]
          BY <2>2, <3>3 DEF RejectMark, setVersionState
        <4> QED
          BY <3>1, <4>1 DEF GameSystemVersion
      <3>4. CASE RetractMark(q)
        <4>1. versions'[d] = [versions[d] EXCEPT !.state = "withdrawn"]
          BY <2>2, <3>4 DEF RetractMark, setVersionState
        <4> QED
          BY <3>1, <4>1 DEF GameSystemVersion
      <3> QED
        BY <3>2, <3>3, <3>4
    <2> QED
      BY <2>1, <2>2
  <1>5. \A s, m : GetVersion(s, m)' = GetVersion(s, m) /\ LiveOf(s)' = LiveOf(s)
    BY <1>1, <1>4 DEF GetVersion, VersionsOf, LiveOf
  <1> QED
    BY <1>1, <1>2, <1>5 DEF RestOf, MovingLive, Moved, Moving, OneLive

LEMMA RestServed ==
  ASSUME SerialInv, NEW q \in Requests, Arrive(q) \/ Serve(q), RestOf(q)
  PROVE  RestOf(q)'
  <1> /\ TypeOK /\ ControlTypeOK /\ HistoryInv /\ Alone(q)
      /\ pc \in [Requests -> Steps \cup Answers \cup {"idle"}]
    BY DEF SerialInv, OutcomeInv, AloneInv, TypeOK, ControlTypeOK
  <1>1. CASE Arrive(q)
    <2>1. UNCHANGED store /\ pc[q] \notin Moving /\ pc'[q] \notin Moving
      BY <1>1 DEF Arrive, StartCreate, StartPatch, StartAccept, StartReject,
                  StartRetract, StartSetCurrent, Start, Moving, PointSteps
    <2> QED
      BY <2>1, RestQuiet
  <1>2. CASE \/ PatchResolve(q) \/ PatchRead(q) \/ PatchBase(q)
             \/ PatchNumber(q) \/ AcceptLoad(q) \/ AcceptDecide(q)
             \/ AcceptNumber(q) \/ RejectLoad(q) \/ RetractLoad(q)
             \/ SetCurrentResolve(q) \/ SetCurrentRead(q)
    <2>1. UNCHANGED store /\ pc[q] \notin Moving
      BY <1>2 DEF PatchResolve, PatchRead, PatchBase, PatchNumber, AcceptLoad,
                  AcceptDecide, AcceptNumber, RejectLoad, RetractLoad,
                  SetCurrentResolve, SetCurrentRead, Moving, PointSteps
    <2>2. pc'[q] \notin Moving
      <3>1. CASE \/ PatchResolve(q) \/ PatchRead(q) \/ PatchBase(q)
                 \/ PatchNumber(q) \/ AcceptLoad(q)
        BY <3>1 DEF PatchResolve, PatchRead, PatchBase, PatchNumber, AcceptLoad,
                    Remember, Goto, Answer, Moving, PointSteps
      <3>2. CASE AcceptDecide(q) \/ AcceptNumber(q)
        BY <3>2 DEF AcceptDecide, AcceptNumber, Remember, Answer, Moving,
                    PointSteps
      <3>3. CASE \/ RejectLoad(q) \/ RetractLoad(q) \/ SetCurrentResolve(q)
                 \/ SetCurrentRead(q)
        BY <3>3 DEF RejectLoad, RetractLoad, SetCurrentResolve, SetCurrentRead,
                    Remember, Goto, Answer, Moving, PointSteps
      <3> QED
        BY <1>2, <3>1, <3>2, <3>3
    <2> QED
      BY <2>1, <2>2, RestQuiet
  <1> QED
    BY <1>1, <1>2, RestCreated, RestInserted, RestArchived, RestRaised,
       RestPointed, RestDecided DEF Serve, Alone

LEMMA RestStep ==
  ASSUME Serial, SerialInv, RestInv, [Next]_vars
  PROVE  RestInv'
  <1>1. CASE UNCHANGED vars
    BY <1>1 DEF vars, store, control, RestInv, MovingLive, OneLive, Moved, LiveOf,
                GetVersion, VersionsOf
  <1>2. ASSUME NEW q \in Requests, Arrive(q) \/ Serve(q) \/ Abort(q), aborts' = 0
        PROVE  RestInv'
    <2>1. ControlTypeOK /\ aborts \in Nat
      BY WorkflowAssumption DEF SerialInv, OutcomeInv, TypeOK, ControlTypeOK
    <2>2. aborts = 0 /\ ~Abort(q)
      BY <1>2, <2>1, AbortsStep DEF Abort
    <2>3. \A p \in Requests \ {q} : pc'[p] \notin Moving /\ pc[p] \notin Moving
      BY <1>2, <2>1, OneInFlightStep, OthersStay, MovingSteps
      DEF SerialInv, AloneInv
    <2>4. RestOf(q)
      BY <2>2, <2>3 DEF RestInv, RestOf, Moved
    <2>5. RestOf(q)'
      BY <1>2, <2>2, <2>4, RestServed
    <2>6. ASSUME NEW p \in Requests \ {q} PROVE MovingLive(p)'
      BY <2>3 DEF MovingLive, Moving
    <2> QED
      BY <2>5, <2>6 DEF RestInv, RestOf
  <1>3. ASSUME aborts' # 0 PROVE RestInv'
    BY <1>3 DEF RestInv
  <1> QED
    BY <1>1, <1>2, <1>3 DEF Next

(* Of requests handled one at a time, none of which ends early: between     *)
(* them the listing shows every system once, in its current version.        *)
THEOREM SerialRestsOneLive ==
  ASSUME IdsApart, Serial
  PROVE  Spec => []AtRestOneLive
  <1>1. Init => RestInv
    <2> SUFFICES ASSUME Init PROVE RestInv
      OBVIOUS
    <2>1. \A q \in Requests : MovingLive(q)
      BY DEF Init, MovingLive, PointSteps
    <2>2. \A r \in DOMAIN meta : OneLive(r)
      BY DEF Init, StoreInit, OneLive, LiveOf, GetVersion, VersionsOf
    <2> QED
      BY <2>1, <2>2 DEF RestInv
  <1>2. SerialInv /\ RestInv /\ [Next]_vars => SerialInv' /\ RestInv'
    BY SerialStep, RestStep
  <1>3. RestInv => AtRestOneLive
    <2>1. \A r \in DOMAIN meta : {d \in List : versions[d].record = r} = LiveOf(r)
      BY DEF List, LiveOf, VersionsOf
    <2> QED
      BY <2>1, MovingSteps DEF RestInv, AtRestOneLive, InFlight, Moved, OneLive
  <1> QED
    BY <1>1, <1>2, <1>3, SerialInit, PTL DEF Spec

-----------------------------------------------------------------------------
(* What a PATCH copies.                                                     *)

(* From its read to its insert, a PATCH holds its body laid over a version  *)
(* of its record that is out of review, whatever is current by then.        *)
PatchSource(q) ==
    pc[q] \in {"base", "numberPatch", "insertPatch"} =>
      \E d \in VersionsOf(reg[q].record) :
        /\ versions[d].state # "submitted"
        /\ reg[q].content = Overlay(versions[d].content, job[q].patch)

LEMMA SourceKept ==
  ASSUME Grows, NEW q \in Requests, reg'[q].record = reg[q].record,
         reg'[q].content = reg[q].content, job'[q] = job[q],
         pc[q] \in {"base", "numberPatch", "insertPatch"}, PatchSource(q)
  PROVE  PatchSource(q)'
  <1>1. PICK d \in VersionsOf(reg[q].record) :
          /\ versions[d].state # "submitted"
          /\ reg[q].content = Overlay(versions[d].content, job[q].patch)
    BY DEF PatchSource
  <1>2. d \in DOMAIN versions /\ versions[d].record = reg[q].record
    BY <1>1 DEF VersionsOf
  <1>3. /\ d \in DOMAIN versions' /\ versions'[d].record = versions[d].record
        /\ versions'[d].content = versions[d].content
    BY <1>2, Stays
  <1>4. versions'[d].state # "submitted"
    BY <1>1, <1>2 DEF Grows
  <1>5. d \in VersionsOf(reg[q].record)'
    BY <1>2, <1>3 DEF VersionsOf
  <1> QED
    BY <1>1, <1>3, <1>4, <1>5 DEF PatchSource

LEMMA SourceRead ==
  ASSUME ControlTypeOK, StoreInv, NEW q \in Requests, RequestInv(q),
         PatchRead(q), pc'[q] = "base"
  PROVE  PatchSource(q)'
  <1> /\ pc \in [Requests -> Steps \cup Answers \cup {"idle"}]
      /\ reg \in [Requests -> Locals]
    BY DEF ControlTypeOK
  <1>1. PICK d \in GetVersion(reg[q].record, reg[q].current) :
          reg'[q] = [reg[q] EXCEPT
                       !.content = Overlay(versions[d].content, job[q].patch),
                       !.reviewedBy = versions[d].reviewedBy,
                       !.resulting = versions[d].resulting]
    BY DEF PatchRead, Remember, Answer, Answers
  <1>2. /\ reg'[q].content = Overlay(versions[d].content, job[q].patch)
        /\ reg'[q].record = reg[q].record
    BY <1>1 DEF Locals
  <1>3. versions' = versions /\ job' = job
    BY CarriesLocals DEF Answers, store
  <1>4. d \in VersionsOf(reg[q].record)
    BY <1>1 DEF GetVersion
  <1>5. IsPublished(reg[q].record, reg[q].current)
    BY <1>4 DEF PatchRead, RequestInv, CurrentRead, WasCurrent
  <1>6. versions[d].state # "submitted"
    BY <1>1, <1>5, AtMostOne DEF IsPublished, StoreInv
  <1> QED
    BY <1>2, <1>3, <1>4, <1>6 DEF PatchSource, VersionsOf

LEMMA SourceStep ==
  ASSUME OutcomeInv, NEW q \in Requests, Arrive(q) \/ Serve(q) \/ Abort(q),
         PatchSource(q), Grows
  PROVE  PatchSource(q)'
  <1> SUFFICES ASSUME pc'[q] \in {"base", "numberPatch", "insertPatch"}
               PROVE  PatchSource(q)'
    BY DEF PatchSource
  <1> /\ IdsApart /\ ControlTypeOK /\ StoreInv /\ RequestInv(q)
    BY DEF OutcomeInv, TypeOK, HistoryInv
  <1>1. CASE PatchRead(q)
    <2>1. pc'[q] = "base"
      BY <1>1 DEF PatchRead, Remember, Answer, ControlTypeOK
    <2> QED
      BY <1>1, <2>1, SourceRead
  <1>2. CASE PatchBase(q)
    <2>1. /\ job' = job /\ reg'[q].content = reg[q].content /\ pc[q] = "base"
          /\ reg'[q].record \in GetMeta(job[q].id)
      BY <1>2, BaseReads DEF Answers, PatchBase
    <2>2. reg'[q].record = reg[q].record
      BY <2>1, SameRecord DEF RequestInv
    <2> QED
      BY <2>1, <2>2, SourceKept
  <1>3. CASE PatchNumber(q)
    <2>1. /\ job' = job /\ reg'[q].record = reg[q].record
          /\ reg'[q].content = reg[q].content /\ pc[q] = "numberPatch"
      BY <1>3, CarriesLocals DEF Answers, PatchNumber, PatchRead
    <2> QED
      BY <2>1, SourceKept
  <1> QED
    BY <1>1, <1>2, <1>3, StepMoves DEF Moves, Answers, Entry

CopiesInv == OutcomeInv /\ \A q \in Requests : PatchSource(q)

LEMMA CopiesStep ==
  ASSUME CopiesInv, [Next]_vars
  PROVE  CopiesInv'
  <1>1. OutcomeInv'
    BY OutcomeStep DEF CopiesInv
  <1>2. CASE UNCHANGED vars
    BY <1>1, <1>2 DEF CopiesInv, vars, store, control, PatchSource, VersionsOf
  <1>3. ASSUME NEW q \in Requests, Arrive(q) \/ Serve(q) \/ Abort(q),
               NEW p \in Requests
        PROVE  PatchSource(p)'
    <2>1. Grows /\ PatchSource(p)
      BY <1>3, RequestKeeps DEF CopiesInv, OutcomeInv, Kept
    <2>2. CASE p = q
      BY <1>3, <2>1, <2>2, SourceStep DEF CopiesInv
    <2>3. CASE p # q
      <3>1. pc'[p] = pc[p] /\ job'[p] = job[p] /\ reg'[p] = reg[p]
        BY <1>3, <2>3, OthersStay DEF CopiesInv, OutcomeInv, TypeOK
      <3> QED
        BY <2>1, <3>1, SourceKept DEF PatchSource
    <2> QED
      BY <2>2, <2>3
  <1> QED
    BY <1>1, <1>2, <1>3 DEF CopiesInv, Next

LEMMA PatchStoresOverlay ==
  ASSUME CopiesInv, NEW q \in Requests, Arrive(q) \/ Serve(q) \/ Abort(q),
         NEW n \in DOMAIN versions' \ DOMAIN versions, job[n].op = "patch"
  PROVE  \E d \in VersionsOf(versions'[n].record) :
           /\ versions[d].state # "submitted"
           /\ versions'[n].content = Overlay(versions[d].content, job[n].patch)
  <1>1. ControlTypeOK /\ PatchSource(q) /\ n = q
    BY Inserted DEF CopiesInv, OutcomeInv, TypeOK
  <1>2. PatchInsert(q) /\ versions'[q] = NewVersion(q)
    <2>1. CASE CreateInsertVersion(q)
      <3>1. job[q] \in CreateJob
        BY <1>1, <2>1, JobOfStep DEF CreateInsertVersion, CreateSteps
      <3> QED
        BY <1>1, <3>1 DEF CreateJob
    <2>2. CASE AcceptInsert(q)
      <3>1. job[q] \in AcceptJob
        BY <1>1, <2>2, JobOfStep DEF AcceptInsert, AcceptSteps
      <3> QED
        BY <1>1, <3>1 DEF AcceptJob
    <2> QED
      BY <2>1, <2>2, Inserted
  <1>3. /\ versions'[q].record = reg[q].record
        /\ versions'[q].content = reg[q].content
    BY <1>2 DEF NewVersion
  <1> QED
    BY <1>1, <1>2, <1>3 DEF PatchSource, PatchInsert

(* However publishes, decisions and rollbacks race with it, what a PATCH    *)
(* stores is its body over one version of its own system that was out of    *)
(* review: a submission not yet decided reaches no other version this way.  *)
THEOREM PatchAlwaysCopiesPublished ==
  ASSUME IdsApart
  PROVE  Spec => PatchCopiesPublished
  <1> DEFINE P == \A q \in Requests \cap (DOMAIN versions' \ DOMAIN versions) :
                    job[q].op = "patch" =>
                      \E d \in VersionsOf(versions'[q].record) :
                        /\ versions[d].state # "submitted"
                        /\ versions'[q].content
                             = Overlay(versions[d].content, job[q].patch)
  <1>1. Init => CopiesInv
    BY OutcomeInit DEF CopiesInv, PatchSource, Init
  <1>2. CopiesInv /\ [Next]_vars => CopiesInv' /\ P
    <2>1. CopiesInv /\ Next => P
      BY PatchStoresOverlay DEF Next, vars, store
    <2>2. UNCHANGED vars => P
      BY DEF vars, store
    <2> QED
      BY <2>1, <2>2, CopiesStep
  <1>3. PatchCopiesPublished <=> [][P]_vars
    BY DEF PatchCopiesPublished
  <1> QED
    BY <1>1, <1>2, <1>3, PTL DEF Spec
=============================================================================
