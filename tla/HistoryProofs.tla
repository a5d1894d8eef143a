---------------------------- MODULE HistoryProofs ----------------------------
(***************************************************************************)
(* The workflow keeps HistoryInv, whatever requests race or end early. It  *)
(* therefore never makes an unreviewed version current, and implements the *)
(* append-only history of SystemHistory.                                   *)
(***************************************************************************)
EXTENDS VersioningInvariant, VersioningProofs, FiniteSetTheorems

-----------------------------------------------------------------------------
(* What any operation may do to the collections.                            *)

(* Nothing is lost: systems keep their slug, versions everything but their  *)
(* state and review trail, and a decided version is never pending again.    *)
Grows ==
    /\ DOMAIN meta \subseteq DOMAIN meta'
    /\ \A r \in DOMAIN meta : meta'[r].slug = meta[r].slug
    /\ DOMAIN versions \subseteq DOMAIN versions'
    /\ \A d \in DOMAIN versions :
         /\ Immutable(versions'[d]) = Immutable(versions[d])
         /\ versions[d].state # "submitted" => versions'[d].state # "submitted"

(* And what is added is q's; a record's first version is published as 1.    *)
AddsOnly(q) ==
    /\ DOMAIN meta' \subseteq DOMAIN meta \cup {q}
    /\ DOMAIN versions' \subseteq DOMAIN versions \cup {q}
    /\ \A r : VersionsOf(r) = {} =>
         VersionsOf(r)' = {} \/ (r = q /\ IsPublished(r, 1)')

(* What it is to a reader of the abstract history.                          *)
Maps == [History!Next]_(History!hvars)

LEMMA HistoryMap ==
  \A r, n : /\ History!Numbered(r, n) = GetVersion(r, n)
            /\ History!Decided(r, n) # {} <=> IsPublished(r, n)
  <1>1. \A r, n : History!Numbered(r, n) = GetVersion(r, n)
    BY DEF History!Numbered, GetVersion, VersionsOf, Immutable
  <1>2. \A r, n : GetVersion(r, n) \subseteq DOMAIN versions
    BY DEF GetVersion, VersionsOf
  <1> QED
    BY <1>1, <1>2 DEF History!Decided, IsPublished

LEMMA GrowsKeeps ==
  ASSUME Grows
  PROVE  /\ \A r, n : GetVersion(r, n) # {} => GetVersion(r, n)' # {}
         /\ \A r, n : IsPublished(r, n) => IsPublished(r, n)'
         /\ \A r : VersionsOf(r) # {} => VersionsOf(r)' # {}
  <1>1. ASSUME NEW d \in DOMAIN versions
        PROVE  /\ d \in DOMAIN versions'
               /\ versions'[d].record = versions[d].record
               /\ versions'[d].version = versions[d].version
               /\ versions[d].state # "submitted" =>
                    versions'[d].state # "submitted"
    BY DEF Grows, Immutable
  <1> QED
    BY <1>1 DEF GetVersion, VersionsOf, IsPublished

LEMMA PublishedExists ==
  \A r, n : IsPublished(r, n) => GetVersion(r, n) # {} /\ VersionsOf(r) # {}
  BY DEF IsPublished, GetVersion

LEMMA ExistsKnown ==
  ASSUME StoreInv, NEW r, VersionsOf(r) # {}
  PROVE  r \in DOMAIN meta
  BY DEF StoreInv, RecordsKnown, VersionsOf

(* Others' facts survive.                                                   *)
LEMMA OthersKept ==
  ASSUME Grows, NEW q \in Requests, AddsOnly(q), NEW p \in Requests \ {q},
         pc'[p] = pc[p], job'[p] = job[p], reg'[p] = reg[p], RequestInv(p)
  PROVE  RequestInv(p)'
  <1>1. Fresh(p)'
    BY DEF RequestInv, Fresh, AddsOnly, Grows
  <1>2. RecordRead(p)'
    BY GrowsKeeps DEF RequestInv, RecordRead, StillNames, Grows
  <1>3. CurrentRead(p)'
    BY GrowsKeeps DEF RequestInv, CurrentRead, WasCurrent, Grows, AddsOnly
  <1>4. NumberFound(p)'
    BY GrowsKeeps DEF RequestInv, NumberFound
  <1> QED
    BY <1>1, <1>2, <1>3, <1>4 DEF RequestInv

-----------------------------------------------------------------------------
(* The four kinds of write.                                                 *)

(* setVersionState in every use, and reads.                                 *)
Restates ==
    /\ meta' = meta
    /\ DOMAIN versions' = DOMAIN versions
    /\ \A d \in DOMAIN versions :
         /\ Immutable(versions'[d]) = Immutable(versions[d])
         /\ versions[d].state # "submitted" => versions'[d].state # "submitted"

LEMMA RestateKeeps ==
  ASSUME StoreInv, Restates, NEW q
  PROVE  StoreInv' /\ Grows /\ AddsOnly(q)
  <1>1. Grows
    BY DEF Restates, Grows
  <1>2. \A d \in DOMAIN versions : /\ versions'[d].record = versions[d].record
                                   /\ versions'[d].version = versions[d].version
                                   /\ versions'[d].base = versions[d].base
    BY DEF Restates, Immutable
  <1>3. \A r : VersionsOf(r)' = VersionsOf(r)
    BY <1>2 DEF VersionsOf, Restates
  <1>4. AddsOnly(q)
    BY <1>3 DEF AddsOnly, Restates
  <1>5. NumbersUnique' /\ RecordsKnown' /\ SlugsUnique'
    BY <1>2 DEF StoreInv, NumbersUnique, RecordsKnown, SlugsUnique, Restates
  <1>6. NoGaps'
    BY <1>1, <1>2, GrowsKeeps DEF StoreInv, NoGaps, Restates
  <1>7. BasePublished'
    BY <1>1, <1>2, GrowsKeeps DEF StoreInv, BasePublished, Restates
  <1>8. CurrentKnown'
    BY <1>1, <1>3, GrowsKeeps DEF StoreInv, CurrentKnown, WasCurrent, Restates
  <1> QED
    BY <1>1, <1>4, <1>5, <1>6, <1>7, <1>8 DEF StoreInv

LEMMA PointKeeps ==
  ASSUME StoreTypeOK, StoreInv, NEW q, NEW r, NEW n, NEW user,
         IsPublished(r, n), setMetaCurrentVersion(r, n, user)
  PROVE  StoreInv' /\ Grows /\ AddsOnly(q) /\ Maps
  <1>1. Grows
    BY DEF setMetaCurrentVersion, Grows
  <1>2. \A x, m : /\ VersionsOf(x)' = VersionsOf(x)
                  /\ GetVersion(x, m)' = GetVersion(x, m)
                  /\ IsPublished(x, m)' = IsPublished(x, m)
    BY DEF setMetaCurrentVersion, VersionsOf, GetVersion, IsPublished
  <1>3. AddsOnly(q)
    BY <1>2 DEF AddsOnly, setMetaCurrentVersion
  <1>4. NumbersUnique' /\ RecordsKnown' /\ SlugsUnique' /\ NoGaps'
          /\ BasePublished'
    BY <1>2 DEF StoreInv, NumbersUnique, RecordsKnown, SlugsUnique, NoGaps,
                BasePublished, setMetaCurrentVersion
  <1>5. CurrentKnown'
    BY <1>2, PublishedExists
    DEF StoreInv, CurrentKnown, WasCurrent, setMetaCurrentVersion
  <1>6. Maps
    <2>1. r \in DOMAIN meta
      BY PublishedExists, ExistsKnown
    <2>2. /\ DOMAIN meta' = DOMAIN meta /\ meta'[r].current = n
          /\ \A x \in DOMAIN meta : x # r => meta'[x] = meta[x]
      BY <2>1 DEF setMetaCurrentVersion, StoreTypeOK, EntityMeta
    <2>3. [x \in DOMAIN meta' |-> meta'[x].current]
            = [[x \in DOMAIN meta |-> meta[x].current] EXCEPT ![r] = n]
      BY <2>1, <2>2
    <2>4. History!MovePointer(r, n)
      BY <2>1, <2>3, HistoryMap
      DEF History!MovePointer, setMetaCurrentVersion
    <2>5. /\ r \in DOMAIN [x \in DOMAIN meta |-> meta[x].current]'
          /\ [x \in DOMAIN meta |-> meta[x].current]'[r] = n
      BY <2>1, <2>2
    <2>6. PICK m : m = [x \in DOMAIN meta |-> meta[x].current]'[r]
                   /\ History!MovePointer(r, m)
      BY <2>4, <2>5
    <2>7. History!Next
      BY <2>5, <2>6 DEF History!Next, History!MovePointer
    <2> QED
      BY <2>7 DEF Maps
  <1> QED
    BY <1>1, <1>3, <1>4, <1>5, <1>6 DEF StoreInv

LEMMA InsertMetaKeeps ==
  ASSUME StoreInv, NEW q, NEW doc, q \notin DOMAIN meta,
         ~SlugInUse(doc.slug), doc.current = 1, InsertMeta(q, doc)
  PROVE  StoreInv' /\ Grows /\ AddsOnly(q) /\ Maps /\ VersionsOf(q)' = {}
  <1>1. Grows
    BY DEF InsertMeta, Grows
  <1>2. \A x, m : /\ VersionsOf(x)' = VersionsOf(x)
                  /\ GetVersion(x, m)' = GetVersion(x, m)
                  /\ IsPublished(x, m)' = IsPublished(x, m)
    BY DEF InsertMeta, VersionsOf, GetVersion, IsPublished
  <1>3. AddsOnly(q)
    BY <1>2 DEF AddsOnly, InsertMeta
  <1>4. NumbersUnique' /\ RecordsKnown' /\ NoGaps' /\ BasePublished'
    BY <1>2 DEF StoreInv, NumbersUnique, RecordsKnown, NoGaps, BasePublished,
                InsertMeta
  <1>5. SlugsUnique'
    BY DEF StoreInv, SlugsUnique, SlugInUse, InsertMeta
  <1>6. VersionsOf(q) = {}
    BY ExistsKnown
  <1>7. CurrentKnown'
    BY <1>2, <1>6 DEF StoreInv, CurrentKnown, WasCurrent, InsertMeta
  <1>8. Maps
    <2>1. History!Register(q)
      BY DEF History!Register, InsertMeta
    <2> QED
      BY <2>1 DEF Maps, History!Next, InsertMeta
  <1> QED
    BY <1>1, <1>2, <1>3, <1>4, <1>5, <1>6, <1>7, <1>8 DEF StoreInv

(* An inserted version takes an unused number after used ones, in a record  *)
(* that has versions, on a published base; or it is the first of its own.   *)
Appendable(q, doc) ==
    /\ doc.record \in DOMAIN meta
    /\ doc.version \in Nat \ {0}
    /\ GetVersion(doc.record, doc.version) = {}
    /\ \A n \in 1 .. doc.version - 1 : GetVersion(doc.record, n) # {}
    /\ \/ /\ doc.version > 1
          /\ IsPublished(doc.record, doc.base)
       \/ /\ doc.version = 1 /\ doc.base = NoVersion /\ doc.record = q
          /\ VersionsOf(q) = {} /\ doc.state # "submitted"

LEMMA InsertVersionKeeps ==
  ASSUME StoreTypeOK, StoreInv, NEW q, NEW doc \in GameSystemVersion,
         q \notin DOMAIN versions, Appendable(q, doc), InsertVersion(q, doc)
  PROVE  StoreInv' /\ Grows /\ AddsOnly(q) /\ Maps
  <1>1. Grows
    BY DEF InsertVersion, Grows
  <1>2. \A d \in DOMAIN versions : d \in DOMAIN versions' /\ versions'[d] = versions[d]
    BY DEF InsertVersion
  <1>3. DOMAIN versions' = DOMAIN versions \cup {q} /\ versions'[q] = doc
          /\ meta' = meta
    BY DEF InsertVersion
  <1>4. \A r : r # doc.record => VersionsOf(r)' = VersionsOf(r)
    BY <1>2, <1>3 DEF VersionsOf
  <1>5. VersionsOf(doc.record) # {} \/ (doc.record = q /\ IsPublished(q, 1)')
    BY <1>2, <1>3, PublishedExists DEF Appendable, IsPublished, GetVersion, VersionsOf
  <1>6. AddsOnly(q)
    BY <1>3, <1>4, <1>5 DEF AddsOnly
  <1>7. NumbersUnique'
    BY <1>2, <1>3 DEF StoreInv, NumbersUnique, Appendable, GetVersion, VersionsOf
  <1>8. RecordsKnown' /\ SlugsUnique'
    BY <1>2, <1>3 DEF StoreInv, RecordsKnown, SlugsUnique, Appendable
  <1>9. NoGaps'
    BY <1>1, <1>2, <1>3, GrowsKeeps DEF StoreInv, NoGaps, Appendable
  <1>10. BasePublished'
    BY <1>1, <1>2, <1>3, GrowsKeeps DEF StoreInv, BasePublished, Appendable
  <1>11. CurrentKnown'
    <2>1. ASSUME NEW r \in DOMAIN meta
          PROVE  WasCurrent(r, meta[r].current)'
      BY <1>1, <1>3, <1>4, <1>5, GrowsKeeps
      DEF StoreInv, CurrentKnown, WasCurrent, Appendable
    <2> QED
      BY <1>3, <2>1 DEF CurrentKnown
  <1>12. Maps
    <2> DEFINE h == [d \in DOMAIN versions |-> Immutable(versions[d])]
               p == {d \in DOMAIN versions : versions[d].state = "submitted"}
    <2>1. DOMAIN h' = DOMAIN h \cup {q} /\ h'[q] = Immutable(doc)
            /\ \A d \in DOMAIN h : h'[d] = h[d]
      BY <1>2, <1>3
    <2>2. p' \in {p, p \cup {q}}
      BY <1>2, <1>3
    <2>3. /\ Immutable(doc).record = doc.record
          /\ Immutable(doc).version = doc.version
          /\ Immutable(doc).base = doc.base
      BY DEF Immutable
    <2>4. IF doc.version = 1 THEN doc.base = 0
          ELSE History!Decided(doc.record, doc.base) # {}
      BY HistoryMap DEF Appendable, NoVersion
    <2>5. History!Numbered(doc.record, doc.version) = {}
            /\ \A n \in 1 .. doc.version - 1 : History!Numbered(doc.record, n) # {}
      BY HistoryMap DEF Appendable
    <2>6. doc.record \in DOMAIN [r \in DOMAIN meta |-> meta[r].current]
      BY DEF Appendable
    <2>7. History!Append(q)
      BY <1>3, <2>1, <2>2, <2>3, <2>4, <2>5, <2>6 DEF History!Append
    <2> QED
      BY <1>3, <2>7 DEF Maps, History!Next
  <1> QED
    BY <1>1, <1>6, <1>7, <1>8, <1>9, <1>10, <1>11, <1>12 DEF StoreInv

-----------------------------------------------------------------------------
(* A request that goes from step to step.                                   *)

Kept(q) == StoreInv' /\ Grows /\ AddsOnly(q) /\ Maps /\ RequestInv(q)'

LEMMA ReadKeeps ==
  ASSUME StoreInv, UNCHANGED store, NEW q
  PROVE  /\ StoreInv' /\ Grows /\ AddsOnly(q) /\ Maps
         /\ meta' = meta /\ versions' = versions
  <1>1. Maps
    BY DEF Maps, History!hvars, store
  <1> QED
    BY <1>1, RestateKeeps DEF Restates, store

(* Nothing is expected of a request that has been answered.                 *)
LEMMA EndedKeeps ==
  ASSUME NEW q, pc'[q] \in Answers
  PROVE  RequestInv(q)'
  BY DEF Answers, RequestInv, Fresh, RecordRead, CurrentRead, NumberFound,
         BeforeInsert, AfterCurrentRead

LEMMA AnswerKeeps ==
  ASSUME ControlTypeOK, NEW q \in Requests, NEW answer \in Answers,
         Answer(q, answer)
  PROVE  RequestInv(q)'
  BY EndedKeeps DEF Answer, ControlTypeOK

LEMMA RefuseKeeps ==
  ASSUME ControlTypeOK, StoreInv, NEW q \in Requests, UNCHANGED store,
         NEW answer \in Answers, Answer(q, answer)
  PROVE  Kept(q)
  BY AnswerKeeps, ReadKeeps DEF Kept

LEMMA ArriveKeeps ==
  ASSUME ControlTypeOK, HistoryInv, NEW q \in Requests, Arrive(q)
  PROVE  Kept(q)
  <1>1. UNCHANGED store /\ pc[q] = "idle"
    BY DEF Arrive, StartCreate, StartPatch, StartAccept, StartReject,
           StartRetract, StartSetCurrent, Start
  <1>2. pc'[q] \in {"insertMeta", "resolve", "loadAccept", "loadReject",
                    "loadRetract", "resolveTarget"}
    BY DEF Arrive, StartCreate, StartPatch, StartAccept, StartReject,
           StartRetract, StartSetCurrent, Start, ControlTypeOK
  <1>3. Fresh(q)'
    BY <1>1, <1>2 DEF HistoryInv, RequestInv, Fresh, BeforeInsert, store
  <1>4. RecordRead(q)' /\ CurrentRead(q)' /\ NumberFound(q)'
    BY <1>2 DEF RecordRead, CurrentRead, NumberFound, AfterCurrentRead
  <1> QED
    BY <1>1, <1>3, <1>4, ReadKeeps DEF Kept, RequestInv, HistoryInv

(* Nobody has stored a version of a record before the creation does.        *)
LEMMA CreateIsFirst ==
  ASSUME NEW q \in Requests, RequestInv(q), CreateInsertVersion(q)
  PROVE  /\ InsertVersion(q, [record |-> q, version |-> 1,
                              content |-> job[q].body.content, state |-> "live",
                              base |-> NoVersion, submittedBy |-> job[q].user,
                              reviewedBy |-> job[q].body.reviewedBy,
                              resulting |-> job[q].body.resulting])
         /\ Answer(q, "done")
  <1>1. ~VersionTaken(q, 1)
    BY DEF CreateInsertVersion, RequestInv, Fresh, VersionTaken, GetVersion
  <1> QED
    BY <1>1 DEF CreateInsertVersion

LEMMA CreateKeeps ==
  ASSUME TypeOK, HistoryInv, NEW q \in Requests,
         CreateInsertMeta(q) \/ CreateInsertVersion(q)
  PROVE  Kept(q)
  <1> StoreTypeOK /\ ControlTypeOK /\ StoreInv /\ RequestInv(q)
    BY DEF TypeOK, HistoryInv
  <1>1. CASE CreateInsertMeta(q)
    <2>1. CASE Refuse(q)
      BY <2>1, RefuseKeeps DEF Refuse, Answers
    <2>2. CASE ~SlugInUse(job[q].slug)
      <3> DEFINE doc == [slug |-> job[q].slug, current |-> 1,
                         updatedBy |-> job[q].user]
      <3>1. InsertMeta(q, doc) /\ Goto(q, "insertFirst")
        BY <1>1, <2>2 DEF CreateInsertMeta
      <3>2. q \notin DOMAIN meta /\ q \notin DOMAIN versions
        BY <1>1 DEF CreateInsertMeta, RequestInv, Fresh, BeforeInsert
      <3>3. StoreInv' /\ Grows /\ AddsOnly(q) /\ Maps /\ VersionsOf(q)' = {}
        <4>1. doc.slug = job[q].slug /\ doc.current = 1
          OBVIOUS
        <4> HIDE DEF doc
        <4> QED
          BY <2>2, <3>1, <3>2, <4>1, InsertMetaKeeps
      <3>4. pc'[q] = "insertFirst"
        BY <3>1 DEF Goto, ControlTypeOK
      <3>5. q \in DOMAIN meta' /\ versions' = versions
        BY <3>1 DEF InsertMeta
      <3>6. RequestInv(q)'
        BY <3>2, <3>3, <3>4, <3>5
        DEF RequestInv, Fresh, RecordRead, CurrentRead, NumberFound,
            BeforeInsert, AfterCurrentRead
      <3> QED
        BY <3>3, <3>6 DEF Kept
    <2> QED
      BY <1>1, <2>1, <2>2 DEF CreateInsertMeta
  <1>2. CASE CreateInsertVersion(q)
    <2> DEFINE doc == [record |-> q, version |-> 1,
                       content |-> job[q].body.content, state |-> "live",
                       base |-> NoVersion, submittedBy |-> job[q].user,
                       reviewedBy |-> job[q].body.reviewedBy,
                       resulting |-> job[q].body.resulting]
    <2>1. InsertVersion(q, doc) /\ Answer(q, "done")
      BY <1>2, CreateIsFirst
    <2>2. /\ q \notin DOMAIN versions /\ q \in DOMAIN meta
          /\ VersionsOf(q) = {}
      BY <1>2 DEF CreateInsertVersion, RequestInv, Fresh, BeforeInsert
    <2>3. doc \in GameSystemVersion
      <3>1. job[q] \in CreateJob
        BY <1>2, JobOfStep DEF CreateInsertVersion, CreateSteps
      <3> QED
        BY <3>1, JobTypes
        DEF GameSystemVersion, VersionState, NoVersion, ObjectIds
    <2>4. Appendable(q, doc)
      BY <2>2 DEF Appendable, GetVersion
    <2> HIDE DEF doc
    <2>5. StoreInv' /\ Grows /\ AddsOnly(q) /\ Maps
      BY <2>1, <2>2, <2>3, <2>4, InsertVersionKeeps
    <2> QED
      BY <2>1, <2>5, AnswerKeeps DEF Kept, Answers
  <1> QED
    BY <1>1, <1>2

(* If no slug is spelled like an _id, the ways to name a system are apart.  *)
LEMMA IdForms ==
  ASSUME IdsApart
  PROVE  \A x, y : /\ MetaId(x) # SlugId(y) /\ MetaId(x) # DocId(y)
                   /\ SlugId(x) # DocId(y)
                   /\ MetaId(x) = MetaId(y) => x = y
                   /\ SlugId(x) = SlugId(y) => x = y
  <1>1. \A x : /\ MetaId(x).form = "meta" /\ MetaId(x).of = x
               /\ SlugId(x).form = "slug" /\ SlugId(x).of = x
               /\ DocId(x).form = "doc"
    BY DEF MetaId, SlugId, DocId, IdsApart
  <1> QED
    BY <1>1

(* The record a request found is the one its id still names.                *)
LEMMA SameRecord ==
  ASSUME IdsApart, StoreInv, NEW q, pc[q] = "base", RecordRead(q),
         NEW r \in GetMeta(job[q].id)
  PROVE  r = reg[q].record /\ VersionsOf(r) # {}
  <1>1. r \in DOMAIN meta /\ job[q].id \in {MetaId(r), SlugId(meta[r].slug)}
    BY DEF GetMeta
  <1>2. StillNames(q) /\ reg[q].record \in DOMAIN meta
    BY <1>1, IdForms DEF RecordRead
  <1>3. r = reg[q].record
    BY <1>1, <1>2, IdForms DEF StillNames, StoreInv, SlugsUnique
  <1> QED
    BY <1>3 DEF RecordRead

(* nextVersionNumber comes after numbers in use, none of them free.         *)
LEMMA NumberAfter ==
  ASSUME StoreTypeOK, StoreInv, NEW r, VersionsOf(r) # {},
         NEW n \in nextVersionNumber(r)
  PROVE  n > 1 /\ \A m \in 1 .. n - 1 : GetVersion(r, m) # {}
  <1>1. PICK d \in VersionsOf(r) : n = versions[d].version + 1
    <2>1. PICK e \in VersionsOf(r) : TRUE
      OBVIOUS
    <2>2. versions[e].version \in Nat \ {0} /\ versions[e].version < n
      BY <2>1 DEF nextVersionNumber, StoreTypeOK, GameSystemVersion, VersionsOf
    <2> QED
      BY <2>2 DEF nextVersionNumber
  <1>2. versions[d].version \in Nat \ {0} /\ d \in DOMAIN versions
          /\ versions[d].record = r
    BY <1>1 DEF StoreTypeOK, GameSystemVersion, VersionsOf
  <1>3. GetVersion(r, versions[d].version) # {}
    BY <1>2 DEF GetVersion, VersionsOf
  <1>4. \A m \in 1 .. versions[d].version - 1 : GetVersion(r, m) # {}
    BY <1>2 DEF StoreInv, NoGaps
  <1> QED
    BY <1>1, <1>2, <1>3, <1>4

(* The document a PATCH inserts fits, and so does a derived version.        *)
LEMMA NextFits ==
  ASSUME StoreTypeOK, StoreInv, ControlTypeOK, NEW q \in Requests,
         pc[q] \in {"insertPatch", "insertDerived"}, RequestInv(q),
         ~VersionTaken(reg[q].record, reg[q].next), NEW doc,
         doc.record = reg[q].record, doc.version = reg[q].next,
         doc.base = reg[q].current
  PROVE  Appendable(q, doc)
  <1>1. IsPublished(reg[q].record, reg[q].current) /\ reg[q].next > 1
          /\ \A n \in 1 .. reg[q].next - 1 : GetVersion(reg[q].record, n) # {}
    BY DEF RequestInv, CurrentRead, NumberFound, AfterCurrentRead
  <1>2. reg[q].record \in DOMAIN meta
    BY <1>1, PublishedExists, ExistsKnown
  <1>3. reg[q].next \in Nat
    BY DEF ControlTypeOK, Locals
  <1> QED
    BY <1>1, <1>2, <1>3 DEF Appendable, VersionTaken

(* The inserted version is there and published unless it awaits review.     *)
LEMMA InsertedPublished ==
  ASSUME NEW q, NEW doc, doc.state # "submitted", InsertVersion(q, doc)
  PROVE  IsPublished(doc.record, doc.version)'
  BY DEF InsertVersion, IsPublished, GetVersion, VersionsOf

LEMMA PatchKeeps ==
  ASSUME TypeOK, NextKnown, HistoryInv, NEW q \in Requests,
         \/ PatchResolve(q) \/ PatchRead(q) \/ PatchBase(q)
         \/ PatchNumber(q) \/ PatchInsert(q)
  PROVE  Kept(q)
  <1> IdsApart /\ StoreTypeOK /\ ControlTypeOK /\ StoreInv /\ RequestInv(q)
    BY DEF TypeOK, HistoryInv
  <1> pc \in [Requests -> Steps \cup Answers \cup {"idle"}]
        /\ reg \in [Requests -> Locals] /\ DOMAIN job = Requests
    BY DEF ControlTypeOK
  <1> USE DEF Answers
  <1>1. CASE PatchResolve(q)
    <2>1. ASSUME NEW r \in ResolveMeta(job[q].id),
                 Remember(q, "read", Located(r, NoVersion))
          PROVE  RequestInv(q)'
      <3>1. r \in DOMAIN meta
              /\ (job[q].id \in {MetaId(r), SlugId(meta[r].slug)}
                    \/ \E d \in ObjectIds : job[q].id = DocId(d))
        BY IdForms DEF ResolveMeta, GetMeta, StoreTypeOK
      <3>2. pc'[q] = "read" /\ reg'[q].record = r /\ job' = job
              /\ reg'[q].current = meta[r].current
        BY <2>1 DEF Remember, Located
      <3>3. meta' = meta /\ versions' = versions
        BY <1>1 DEF PatchResolve, store
      <3>4. Fresh(q)'
        BY <1>1, <3>2, <3>3
        DEF PatchResolve, RequestInv, Fresh, BeforeInsert
      <3>5. RecordRead(q)'
        BY <3>1, <3>2, <3>3 DEF RecordRead, StillNames
      <3>6. WasCurrent(r, meta[r].current)
        BY <3>1 DEF StoreInv, CurrentKnown
      <3>7. CurrentRead(q)'
        BY <3>1, <3>2, <3>3, <3>6
        DEF CurrentRead, AfterCurrentRead, WasCurrent, IsPublished, GetVersion,
            VersionsOf
      <3> QED
        BY <3>2, <3>4, <3>5, <3>7 DEF RequestInv, NumberFound
    <2> QED
      BY <1>1, <2>1, RefuseKeeps, ReadKeeps DEF PatchResolve, Kept
  <1>2. CASE PatchRead(q)
    <2>1. ASSUME NEW d \in GetVersion(reg[q].record, reg[q].current), NEW l,
                 l.record = reg[q].record, Remember(q, "base", l)
          PROVE  RequestInv(q)'
      <3>1. VersionsOf(reg[q].record) # {}
        BY DEF GetVersion
      <3>2. pc'[q] = "base" /\ reg'[q].record = reg[q].record /\ job' = job
        BY <2>1 DEF Remember
      <3>3. meta' = meta /\ versions' = versions
        BY <1>2 DEF PatchRead, store
      <3>4. Fresh(q)'
        BY <1>2, <3>2, <3>3 DEF PatchRead, RequestInv, Fresh, BeforeInsert
      <3>5. RecordRead(q)'
        BY <1>2, <3>1, <3>2, <3>3
        DEF PatchRead, RequestInv, RecordRead, StillNames, VersionsOf
      <3> QED
        BY <3>2, <3>4, <3>5
        DEF RequestInv, CurrentRead, NumberFound, AfterCurrentRead
    <2>2. \A d : [reg[q] EXCEPT
                    !.content = Overlay(versions[d].content, job[q].patch),
                    !.reviewedBy = versions[d].reviewedBy,
                    !.resulting = versions[d].resulting].record = reg[q].record
      BY DEF Locals
    <2> QED
      BY <1>2, <2>1, <2>2, RefuseKeeps, ReadKeeps DEF PatchRead, Kept
  <1>3. CASE PatchBase(q)
    <2>1. ASSUME NEW r \in GetMeta(job[q].id),
                 Remember(q, "numberPatch", [reg[q] EXCEPT !.record = r,
                                               !.current = meta[r].current])
          PROVE  RequestInv(q)'
      <3>1. r \in DOMAIN meta /\ VersionsOf(r) # {}
        BY <1>3, SameRecord DEF PatchBase, GetMeta, RequestInv
      <3>2. IsPublished(r, meta[r].current)
        BY <3>1 DEF StoreInv, CurrentKnown, WasCurrent
      <3>3. pc'[q] = "numberPatch" /\ reg'[q].record = r
              /\ reg'[q].current = meta[r].current
        BY <2>1 DEF Remember, Locals
      <3>4. meta' = meta /\ versions' = versions
        BY <1>3 DEF PatchBase, store
      <3>5. Fresh(q)'
        BY <1>3, <3>3, <3>4 DEF PatchBase, RequestInv, Fresh, BeforeInsert
      <3>6. CurrentRead(q)'
        BY <3>2, <3>3, <3>4
        DEF CurrentRead, AfterCurrentRead, IsPublished, GetVersion, VersionsOf
      <3> QED
        BY <3>3, <3>5, <3>6 DEF RequestInv, RecordRead, NumberFound
    <2> QED
      BY <1>3, <2>1, RefuseKeeps, ReadKeeps DEF PatchBase, Kept
  <1>4. CASE PatchNumber(q)
    <2>1. PICK n \in nextVersionNumber(reg[q].record) :
            Remember(q, "insertPatch", [reg[q] EXCEPT !.next = n])
      BY <1>4 DEF PatchNumber
    <2>2. pc'[q] = "insertPatch" /\ reg'[q].record = reg[q].record
            /\ reg'[q].current = reg[q].current /\ reg'[q].next = n
      BY <2>1 DEF Remember, Locals
    <2>3. IsPublished(reg[q].record, reg[q].current)
      BY <1>4 DEF PatchNumber, RequestInv, CurrentRead, AfterCurrentRead
    <2>4. n > 1 /\ \A m \in 1 .. n - 1 : GetVersion(reg[q].record, m) # {}
      BY <2>3, PublishedExists, NumberAfter
    <2>5. meta' = meta /\ versions' = versions
      BY <1>4 DEF PatchNumber, store
    <2>6. Fresh(q)'
      BY <1>4, <2>2, <2>5 DEF PatchNumber, RequestInv, Fresh, BeforeInsert
    <2>7. CurrentRead(q)' /\ NumberFound(q)'
      BY <2>2, <2>3, <2>4, <2>5
      DEF CurrentRead, NumberFound, IsPublished, GetVersion, VersionsOf
    <2>8. RecordRead(q)'
      BY <2>2 DEF RecordRead
    <2> QED
      BY <1>4, <2>6, <2>7, <2>8, ReadKeeps DEF PatchNumber, RequestInv, Kept
  <1>5. CASE PatchInsert(q)
    <2>1. CASE Refuse(q)
      BY <2>1, RefuseKeeps DEF Refuse
    <2>2. CASE ~VersionTaken(reg[q].record, reg[q].next)
      <3>1. InsertVersion(q, NewVersion(q))
        BY <1>5, <2>2 DEF PatchInsert
      <3>2. NewVersion(q) \in GameSystemVersion
        <4>1. job[q].user \in Users
          BY <1>5, JobOfStep, JobTypes DEF PatchInsert, PatchSteps
        <4>2. reg[q].next # 0
          BY <1>5 DEF PatchInsert, NextKnown, NumberedSteps
        <4> QED
          BY <4>1, <4>2 DEF NewVersion, GameSystemVersion, Locals, PatchState,
                            VersionState
      <3>3. Appendable(q, NewVersion(q))
        BY <1>5, <2>2, NextFits DEF PatchInsert, NewVersion
      <3>4. q \notin DOMAIN versions
        BY <1>5 DEF PatchInsert, RequestInv, Fresh, BeforeInsert
      <3>5. StoreInv' /\ Grows /\ AddsOnly(q) /\ Maps
        BY <3>1, <3>2, <3>3, <3>4, InsertVersionKeeps
      <3>6. CASE PatchState(job[q].user) = "live"
        <4>1. pc'[q] = "archive" /\ reg' = reg
          BY <1>5, <2>2, <3>6 DEF PatchInsert, Goto
        <4>2. IsPublished(reg[q].record, reg[q].next)'
          BY <3>1, <3>6, <4>1, InsertedPublished DEF NewVersion
        <4>3. IsPublished(reg[q].record, reg[q].current)'
          <5>1. IsPublished(reg[q].record, reg[q].current)
            BY <1>5 DEF PatchInsert, RequestInv, CurrentRead, AfterCurrentRead
          <5> QED
            BY <3>5, <4>1, <5>1, GrowsKeeps
        <4> QED
          BY <3>5, <4>1, <4>2, <4>3
          DEF Kept, RequestInv, Fresh, RecordRead, CurrentRead, NumberFound,
              BeforeInsert
      <3>7. CASE PatchState(job[q].user) # "live"
        BY <1>5, <2>2, <3>5, <3>7, AnswerKeeps DEF PatchInsert, Kept
      <3> QED
        BY <3>6, <3>7
    <2> QED
      BY <1>5, <2>1, <2>2 DEF PatchInsert
  <1> QED
    BY <1>1, <1>2, <1>3, <1>4, <1>5

(* A marked version is no longer pending and keeps what it says; the other  *)
(* versions are left alone.                                                 *)
Decided(v, w) == Immutable(w) = Immutable(v) /\ w.state # "submitted"

Marks(r, n) ==
    /\ meta' = meta
    /\ DOMAIN versions' = DOMAIN versions
    /\ \A d \in DOMAIN versions :
         IF d \in GetVersion(r, n) THEN Decided(versions[d], versions'[d])
         ELSE versions'[d] = versions[d]

LEMMA MarkKeeps ==
  ASSUME StoreInv, NEW r, NEW n, Marks(r, n), NEW q
  PROVE  /\ StoreInv' /\ Grows /\ AddsOnly(q) /\ Maps
         /\ GetVersion(r, n) # {} => IsPublished(r, n)'
  <1>1. Restates
    BY DEF Marks, Restates, Decided
  <1>2. ASSUME NEW d \in GetVersion(r, n)
        PROVE  d \in GetVersion(r, n)' /\ versions'[d].state # "submitted"
    BY DEF Marks, Decided, Immutable, GetVersion, VersionsOf
  <1>3. Maps
    <2> DEFINE p == {d \in DOMAIN versions : versions[d].state = "submitted"}
    <2>1. [d \in DOMAIN versions' |-> Immutable(versions'[d])]
            = [d \in DOMAIN versions |-> Immutable(versions[d])]
      BY <1>1 DEF Restates
    <2>2. CASE p' = p
      BY <1>1, <2>1, <2>2 DEF Restates, Maps, History!hvars
    <2>3. CASE p' # p
      <3>1. PICK d \in GetVersion(r, n) : d \in p
        BY <2>3 DEF Marks, Decided, GetVersion, VersionsOf
      <3>2. GetVersion(r, n) = {d}
        BY <3>1 DEF StoreInv, NumbersUnique, GetVersion, VersionsOf
      <3>3. p' = p \ {d}
        BY <3>2 DEF Marks, Decided
      <3>4. History!Decide(d)
        BY <1>1, <2>1, <3>1, <3>3 DEF Restates, History!Decide
      <3> QED
        BY <3>1, <3>4 DEF Maps, History!Next
    <2> QED
      BY <2>2, <2>3
  <1> QED
    BY <1>1, <1>2, <1>3, RestateKeeps DEF IsPublished

(* The fields each handler sets leave the rest of a version alone.          *)
LEMMA Decisions ==
  ASSUME NEW v \in GameSystemVersion, NEW user, NEW n
  PROVE  /\ Decided(v, [v EXCEPT !.state = "archived"])
         /\ Decided(v, [v EXCEPT !.state = "live", !.reviewedBy = user])
         /\ Decided(v, [v EXCEPT !.state = "partially_accepted",
                                 !.reviewedBy = user, !.resulting = n])
         /\ Decided(v, [v EXCEPT !.state = "rejected", !.reviewedBy = user])
         /\ Decided(v, [v EXCEPT !.state = "withdrawn"])
         /\ Decided(v, [v EXCEPT !.state = "live"])
  BY DEF Decided, Immutable, GameSystemVersion

LEMMA DecisionKeeps ==
  ASSUME TypeOK, HistoryInv, NEW q \in Requests,
         \/ RejectLoad(q) \/ RejectMark(q) \/ RetractLoad(q) \/ RetractMark(q)
         \/ AcceptClose(q)
  PROVE  Kept(q)
  <1> StoreTypeOK /\ ControlTypeOK /\ StoreInv /\ RequestInv(q)
    BY DEF TypeOK, HistoryInv
  <1> USE DEF Answers
  <1>1. CASE RejectLoad(q) \/ RetractLoad(q)
    <2>1. UNCHANGED store
      BY <1>1 DEF RejectLoad, RetractLoad
    <2>2. CASE Answer(q, "refused")
      BY <2>1, <2>2, RefuseKeeps
    <2>3. CASE pc'[q] \in {"reject", "retract"}
      BY <2>1, <2>3, ReadKeeps
      DEF Kept, RequestInv, Fresh, RecordRead, CurrentRead, NumberFound,
          BeforeInsert, AfterCurrentRead
    <2> QED
      BY <1>1, <2>2, <2>3 DEF RejectLoad, RetractLoad, Remember, ControlTypeOK
  <1>2. CASE RejectMark(q) \/ RetractMark(q) \/ AcceptClose(q)
    <2>1. Answer(q, "done")
      BY <1>2 DEF RejectMark, RetractMark, AcceptClose
    <2>2. RejectMark(q) => Marks(reg[q].record, job[q].number)
      <3>1. \A v \in GameSystemVersion :
              Decided(v, [v EXCEPT !.state = "rejected",
                                   !.reviewedBy = job[q].user])
        BY Decisions
      <3> QED
        BY <3>1 DEF RejectMark, setVersionState, StoreTypeOK, Decided, Marks
    <2>3. RetractMark(q) => Marks(reg[q].record, job[q].number)
      BY Decisions
      DEF RetractMark, setVersionState, StoreTypeOK, Decided, Marks
    <2>4. AcceptClose(q) => Marks(reg[q].record, job[q].number)
      <3>1. \A v \in GameSystemVersion :
              Decided(v, [v EXCEPT !.state = "partially_accepted",
                                   !.reviewedBy = job[q].user,
                                   !.resulting = reg[q].next])
        BY Decisions
      <3> QED
        BY <3>1 DEF AcceptClose, setVersionState, StoreTypeOK, Decided, Marks
    <2>5. Marks(reg[q].record, job[q].number)
      BY <1>2, <2>2, <2>3, <2>4
    <2> QED
      BY <2>1, <2>5, MarkKeeps, AnswerKeeps DEF Kept
  <1> QED
    BY <1>1, <1>2

(* The version an accept has loaded is one of the record it then finds.     *)
LEMMA AddressedHere ==
  ASSUME IdsApart, NEW j, NEW r \in GetMeta(j.id)
  PROVE  Addressed(j) \subseteq GetVersion(r, j.number)
  <1>1. j.id \in {MetaId(r), SlugId(meta[r].slug)}
    BY DEF GetMeta
  <1> QED
    BY <1>1, IdForms DEF Addressed, GetVersion, VersionsOf

(* What an accept does next, and with which versions.                       *)
LEMMA DecideFinds ==
  ASSUME IdsApart, NEW q \in Requests, AcceptDecide(q), ~Answer(q, "refused")
  PROVE  \E r \in GetMeta(job[q].id) : \E s \in GetVersion(r, job[q].number) :
           \/ /\ Remember(q, "unseat", Located(r, job[q].number))
              /\ versions[s].base = meta[r].current
           \/ \E c \in GetVersion(r, meta[r].current),
                 b \in GetVersion(r, versions[s].base) :
                Remember(q, "numberDerived",
                  [Located(r, NoVersion) EXCEPT
                     !.content = Merged(job[q].fields, versions[s].content,
                                   versions[c].content, versions[b].content),
                     !.author = versions[s].submittedBy,
                     !.reviewedBy = job[q].user])
  BY AddressedHere DEF AcceptDecide

LEMMA AcceptKeeps ==
  ASSUME TypeOK, NextKnown, HistoryInv, NEW q \in Requests,
         \/ AcceptLoad(q) \/ AcceptDecide(q) \/ AcceptPromote(q)
         \/ AcceptNumber(q) \/ AcceptInsert(q)
  PROVE  Kept(q)
  <1> IdsApart /\ StoreTypeOK /\ ControlTypeOK /\ StoreInv /\ RequestInv(q)
    BY DEF TypeOK, HistoryInv
  <1> pc \in [Requests -> Steps \cup Answers \cup {"idle"}]
        /\ reg \in [Requests -> Locals] /\ DOMAIN job = Requests
    BY DEF ControlTypeOK
  <1> USE DEF Answers
  <1>1. CASE AcceptLoad(q)
    <2>1. CASE Goto(q, "decide")
      <3>1. pc'[q] = "decide" /\ meta' = meta /\ versions' = versions
        BY <1>1, <2>1 DEF AcceptLoad, Goto, store
      <3>2. Fresh(q)'
        BY <1>1, <3>1 DEF AcceptLoad, RequestInv, Fresh, BeforeInsert
      <3> QED
        BY <1>1, <3>1, <3>2, ReadKeeps
        DEF AcceptLoad, Kept, RequestInv, RecordRead, CurrentRead, NumberFound,
            AfterCurrentRead
    <2> QED
      BY <1>1, <2>1, RefuseKeeps DEF AcceptLoad
  <1>2. CASE AcceptDecide(q)
    <2> DEFINE Copied(r, s, c, b) ==
                 [Located(r, NoVersion) EXCEPT
                    !.content = Merged(job[q].fields, versions[s].content,
                                  versions[c].content, versions[b].content),
                    !.author = versions[s].submittedBy,
                    !.reviewedBy = job[q].user]
    <2>1. ASSUME NEW r \in GetMeta(job[q].id),
                 NEW s \in GetVersion(r, job[q].number), NEW step, NEW l,
                 Remember(q, step, l), l.record = r,
                 l.current = meta[r].current,
                 \/ step = "unseat" /\ l.next = job[q].number
                 \/ step = "numberDerived"
          PROVE  RequestInv(q)'
      <3>1. pc'[q] = step /\ reg'[q] = l /\ job' = job
        BY <2>1 DEF Remember
      <3>2. meta' = meta /\ versions' = versions
        BY <1>2 DEF AcceptDecide, store
      <3>3. IsPublished(r, meta[r].current)
        BY DEF GetMeta, GetVersion, StoreInv, CurrentKnown, WasCurrent
      <3>4. Fresh(q)'
        BY <1>2, <2>1, <3>1, <3>2
        DEF AcceptDecide, RequestInv, Fresh, BeforeInsert
      <3>5. RecordRead(q)'
        BY <2>1, <3>1 DEF RecordRead
      <3>6. CurrentRead(q)' /\ NumberFound(q)'
        BY <2>1, <3>1, <3>2, <3>3
        DEF CurrentRead, NumberFound, IsPublished, GetVersion, VersionsOf
      <3> QED
        BY <3>4, <3>5, <3>6 DEF RequestInv
    <2>2. \A r : /\ Located(r, job[q].number).record = r
                 /\ Located(r, job[q].number).current = meta[r].current
                 /\ Located(r, job[q].number).next = job[q].number
      BY DEF Located
    <2>3. \A r, s, c, b :
            /\ Copied(r, s, c, b).record = r
            /\ Copied(r, s, c, b).current = meta[r].current
      BY DEF Located
    <2>4. CASE Answer(q, "refused")
      BY <1>2, <2>4, RefuseKeeps DEF AcceptDecide
    <2>5. CASE ~Answer(q, "refused")
      <3>1. PICK r \in GetMeta(job[q].id) :
              \E s \in GetVersion(r, job[q].number) :
                \/ Remember(q, "unseat", Located(r, job[q].number))
                \/ \E c, b : Remember(q, "numberDerived", Copied(r, s, c, b))
        BY <1>2, <2>5, DecideFinds
      <3>2. PICK s \in GetVersion(r, job[q].number) :
              \/ Remember(q, "unseat", Located(r, job[q].number))
              \/ \E c, b : Remember(q, "numberDerived", Copied(r, s, c, b))
        BY <3>1
      <3>3. RequestInv(q)'
        <4> HIDE DEF Copied
        <4>1. CASE Remember(q, "unseat", Located(r, job[q].number))
          BY <2>1, <2>2, <4>1
        <4>2. CASE \E c, b : Remember(q, "numberDerived", Copied(r, s, c, b))
          BY <2>1, <2>3, <4>2
        <4> QED
          BY <3>2, <4>1, <4>2
      <3> QED
        BY <1>2, <3>3, ReadKeeps DEF AcceptDecide, Kept
    <2> QED
      BY <2>4, <2>5
  <1>3. CASE AcceptPromote(q)
    <2>1. Marks(reg[q].record, job[q].number)
      BY <1>3, Decisions
      DEF AcceptPromote, setVersionState, StoreTypeOK, Decided, Marks
    <2>2. pc'[q] = "pointAccept" /\ reg' = reg /\ job' = job
      BY <1>3 DEF AcceptPromote, Goto
    <2>3. /\ GetVersion(reg[q].record, job[q].number) # {}
          /\ reg[q].next = job[q].number
          /\ IsPublished(reg[q].record, reg[q].current)
      BY <1>3 DEF AcceptPromote, RequestInv, NumberFound, CurrentRead,
                  AfterCurrentRead
    <2>4. StoreInv' /\ Grows /\ AddsOnly(q) /\ Maps
            /\ IsPublished(reg[q].record, job[q].number)'
      BY <2>1, <2>2, <2>3, MarkKeeps
    <2>5. IsPublished(reg[q].record, reg[q].next)'
            /\ IsPublished(reg[q].record, reg[q].current)'
      BY <2>2, <2>3, <2>4, GrowsKeeps
    <2> QED
      BY <2>2, <2>4, <2>5
      DEF Kept, RequestInv, Fresh, RecordRead, CurrentRead, NumberFound,
          BeforeInsert
  <1>4. CASE AcceptNumber(q)
    <2>1. PICK n \in nextVersionNumber(reg[q].record) :
            Remember(q, "insertDerived", [reg[q] EXCEPT !.next = n])
      BY <1>4 DEF AcceptNumber
    <2>2. pc'[q] = "insertDerived" /\ reg'[q].record = reg[q].record
            /\ reg'[q].current = reg[q].current /\ reg'[q].next = n
      BY <2>1 DEF Remember, Locals
    <2>3. IsPublished(reg[q].record, reg[q].current)
      BY <1>4 DEF AcceptNumber, RequestInv, CurrentRead, AfterCurrentRead
    <2>4. n > 1 /\ \A m \in 1 .. n - 1 : GetVersion(reg[q].record, m) # {}
      BY <2>3, PublishedExists, NumberAfter
    <2>5. meta' = meta /\ versions' = versions
      BY <1>4 DEF AcceptNumber, store
    <2>6. Fresh(q)'
      BY <1>4, <2>2, <2>5 DEF AcceptNumber, RequestInv, Fresh, BeforeInsert
    <2>7. CurrentRead(q)' /\ NumberFound(q)'
      BY <2>2, <2>3, <2>4, <2>5
      DEF CurrentRead, NumberFound, IsPublished, GetVersion, VersionsOf
    <2>8. RecordRead(q)'
      BY <2>2 DEF RecordRead
    <2> QED
      BY <1>4, <2>6, <2>7, <2>8, ReadKeeps DEF AcceptNumber, RequestInv, Kept
  <1>5. CASE AcceptInsert(q)
    <2>1. CASE Refuse(q)
      BY <2>1, RefuseKeeps DEF Refuse
    <2>2. CASE ~VersionTaken(reg[q].record, reg[q].next)
      <3>1. InsertVersion(q, DerivedVersion(q)) /\ Goto(q, "archiveDerived")
        BY <1>5, <2>2 DEF AcceptInsert
      <3>2. DerivedVersion(q) \in GameSystemVersion
        <4>1. reg[q].next # 0
          BY <1>5 DEF AcceptInsert, NextKnown, NumberedSteps
        <4> QED
          BY <4>1 DEF DerivedVersion, GameSystemVersion, Locals, VersionState,
                      NoVersion
      <3>3. Appendable(q, DerivedVersion(q))
        BY <1>5, <2>2, NextFits DEF AcceptInsert, DerivedVersion
      <3>4. q \notin DOMAIN versions
        BY <1>5 DEF AcceptInsert, RequestInv, Fresh, BeforeInsert
      <3>5. StoreInv' /\ Grows /\ AddsOnly(q) /\ Maps
        BY <3>1, <3>2, <3>3, <3>4, InsertVersionKeeps
      <3>6. pc'[q] = "archiveDerived" /\ reg' = reg
        BY <3>1 DEF Goto
      <3>7. IsPublished(reg[q].record, reg[q].next)'
        BY <3>1, <3>6, InsertedPublished DEF DerivedVersion
      <3>8. IsPublished(reg[q].record, reg[q].current)'
        <4>1. IsPublished(reg[q].record, reg[q].current)
          BY <1>5 DEF AcceptInsert, RequestInv, CurrentRead, AfterCurrentRead
        <4> QED
          BY <3>5, <3>6, <4>1, GrowsKeeps
      <3> QED
        BY <3>5, <3>6, <3>7, <3>8
        DEF Kept, RequestInv, Fresh, RecordRead, CurrentRead, NumberFound,
            BeforeInsert
    <2> QED
      BY <1>5, <2>1, <2>2 DEF AcceptInsert
  <1> QED
    BY <1>1, <1>2, <1>3, <1>4, <1>5

LEMMA SetCurrentKeeps ==
  ASSUME TypeOK, HistoryInv, NEW q \in Requests,
         SetCurrentResolve(q) \/ SetCurrentRead(q) \/ SetCurrentRestore(q)
  PROVE  Kept(q)
  <1> StoreTypeOK /\ ControlTypeOK /\ StoreInv /\ RequestInv(q)
    BY DEF TypeOK, HistoryInv
  <1> pc \in [Requests -> Steps \cup Answers \cup {"idle"}]
        /\ reg \in [Requests -> Locals] /\ DOMAIN job = Requests
    BY DEF ControlTypeOK
  <1> USE DEF Answers
  <1>1. CASE SetCurrentResolve(q)
    <2>1. ASSUME NEW r \in GetMeta(job[q].id),
                 Remember(q, "readTarget", Located(r, job[q].number))
          PROVE  RequestInv(q)'
      <3>1. pc'[q] = "readTarget" /\ job' = job /\ reg'[q].record = r
              /\ reg'[q].current = meta[r].current
              /\ reg'[q].next = job[q].number
        BY <2>1 DEF Remember, Located
      <3>2. meta' = meta /\ versions' = versions
        BY <1>1 DEF SetCurrentResolve, store
      <3>3. r \in DOMAIN meta /\ WasCurrent(r, meta[r].current)
        BY DEF GetMeta, StoreInv, CurrentKnown
      <3>4. CurrentRead(q)'
        BY <3>1, <3>2, <3>3
        DEF CurrentRead, AfterCurrentRead, WasCurrent, IsPublished, GetVersion,
            VersionsOf
      <3> QED
        BY <3>1, <3>4
        DEF RequestInv, Fresh, RecordRead, NumberFound, BeforeInsert
    <2> QED
      BY <1>1, <2>1, RefuseKeeps, ReadKeeps DEF SetCurrentResolve, Kept
  <1>2. CASE SetCurrentRead(q)
    <2>1. CASE Goto(q, "rollback") /\ GetVersion(reg[q].record, job[q].number) # {}
      <3>1. pc'[q] = "rollback" /\ reg' = reg /\ job' = job
              /\ meta' = meta /\ versions' = versions
        BY <1>2, <2>1 DEF SetCurrentRead, Goto, store
      <3>2. IsPublished(reg[q].record, reg[q].current)
        BY <1>2, <2>1
        DEF SetCurrentRead, RequestInv, CurrentRead, WasCurrent, GetVersion
      <3>3. reg[q].next = job[q].number
        BY <1>2 DEF SetCurrentRead, RequestInv, NumberFound
      <3>4. CurrentRead(q)' /\ NumberFound(q)'
        BY <2>1, <3>1, <3>2, <3>3
        DEF CurrentRead, NumberFound, IsPublished, GetVersion, VersionsOf
      <3> QED
        BY <1>2, <3>1, <3>4, ReadKeeps
        DEF SetCurrentRead, Kept, RequestInv, Fresh, RecordRead, BeforeInsert
    <2> QED
      BY <1>2, <2>1, RefuseKeeps DEF SetCurrentRead
  <1>3. CASE SetCurrentRestore(q)
    <2>1. Marks(reg[q].record, job[q].number)
      BY <1>3, Decisions
      DEF SetCurrentRestore, setVersionState, StoreTypeOK, Decided, Marks
    <2>2. pc'[q] = "pointTarget" /\ reg' = reg /\ job' = job
      BY <1>3 DEF SetCurrentRestore, Goto
    <2>3. /\ GetVersion(reg[q].record, job[q].number) # {}
          /\ reg[q].next = job[q].number
          /\ IsPublished(reg[q].record, reg[q].current)
      BY <1>3 DEF SetCurrentRestore, RequestInv, NumberFound, CurrentRead,
                  AfterCurrentRead
    <2>4. StoreInv' /\ Grows /\ AddsOnly(q) /\ Maps
            /\ IsPublished(reg[q].record, job[q].number)'
      BY <2>1, <2>2, <2>3, MarkKeeps
    <2>5. IsPublished(reg[q].record, reg[q].next)'
            /\ IsPublished(reg[q].record, reg[q].current)'
      BY <2>2, <2>3, <2>4, GrowsKeeps
    <2> QED
      BY <2>2, <2>4, <2>5
      DEF Kept, RequestInv, Fresh, RecordRead, CurrentRead, NumberFound,
          BeforeInsert
  <1> QED
    BY <1>1, <1>2, <1>3

LEMMA SharedKeeps ==
  ASSUME TypeOK, HistoryInv, NEW q \in Requests,
         ArchiveCurrent(q) \/ PointMeta(q) \/ Abort(q)
  PROVE  Kept(q)
  <1> StoreTypeOK /\ ControlTypeOK /\ StoreInv /\ RequestInv(q)
    BY DEF TypeOK, HistoryInv
  <1> pc \in [Requests -> Steps \cup Answers \cup {"idle"}]
        /\ reg \in [Requests -> Locals] /\ DOMAIN job = Requests
    BY DEF ControlTypeOK
  <1> USE DEF Answers
  <1>1. CASE ArchiveCurrent(q)
    <2>1. Marks(reg[q].record, reg[q].current)
      BY <1>1, Decisions
      DEF ArchiveCurrent, archiveVersion, setVersionState, StoreTypeOK, Decided,
          Marks
    <2>2. reg' = reg /\ job' = job /\ pc'[q] = AfterArchive[pc[q]]
      BY <1>1 DEF ArchiveCurrent, Goto
    <2>3. StoreInv' /\ Grows /\ AddsOnly(q) /\ Maps
      BY <2>1, MarkKeeps
    <2>4. IsPublished(reg[q].record, reg[q].current)'
      <3>1. IsPublished(reg[q].record, reg[q].current)
        BY <1>1 DEF ArchiveCurrent, AfterArchive, RequestInv, CurrentRead,
                    AfterCurrentRead
      <3> QED
        BY <2>2, <2>3, <3>1, GrowsKeeps
    <2>5. CASE pc[q] \in {"archive", "archiveDerived"}
      <3>1. IsPublished(reg[q].record, reg[q].next)'
        BY <2>2, <2>3, <2>5, GrowsKeeps DEF RequestInv, NumberFound
      <3>2. pc'[q] \in {"pointPatch", "pointDerived"}
        BY <2>2, <2>5 DEF AfterArchive
      <3> QED
        BY <2>3, <2>4, <3>1, <3>2
        DEF Kept, RequestInv, Fresh, RecordRead, CurrentRead, NumberFound,
            BeforeInsert
    <2>6. CASE pc[q] \in {"unseat", "rollback"}
      <3>1. reg[q].next = job[q].number
              /\ GetVersion(reg[q].record, reg[q].next)' # {}
        BY <2>2, <2>3, <2>6, GrowsKeeps DEF RequestInv, NumberFound
      <3>2. pc'[q] \in {"promote", "restore"}
        BY <2>2, <2>6 DEF AfterArchive
      <3> QED
        BY <2>2, <2>3, <2>4, <3>1, <3>2
        DEF Kept, RequestInv, Fresh, RecordRead, CurrentRead, NumberFound,
            BeforeInsert
    <2> QED
      BY <1>1, <2>5, <2>6 DEF ArchiveCurrent, AfterArchive
  <1>2. CASE PointMeta(q)
    <2>1. /\ IsPublished(reg[q].record, reg[q].next)
          /\ IsPublished(reg[q].record, reg[q].current)
      BY <1>2 DEF PointMeta, RequestInv, NumberFound, CurrentRead,
                  AfterCurrentRead
    <2>2. StoreInv' /\ Grows /\ AddsOnly(q) /\ Maps
      BY <1>2, <2>1, PointKeeps DEF PointMeta
    <2>3. CASE Goto(q, "close")
      <3>1. pc'[q] = "close" /\ reg' = reg
        BY <2>3 DEF Goto
      <3>2. /\ IsPublished(reg[q].record, reg[q].next)'
            /\ IsPublished(reg[q].record, reg[q].current)'
        BY <2>1, <2>2, <3>1, GrowsKeeps
      <3> QED
        BY <2>2, <3>1, <3>2
        DEF Kept, RequestInv, Fresh, RecordRead, CurrentRead, NumberFound,
            BeforeInsert
    <2> QED
      BY <1>2, <2>2, <2>3, AnswerKeeps DEF PointMeta, Kept
  <1>3. CASE Abort(q)
    <2>1. pc'[q] \in Answers
      BY <1>3 DEF Abort
    <2> QED
      BY <1>3, <2>1, EndedKeeps, ReadKeeps DEF Abort, Kept
  <1> QED
    BY <1>1, <1>2, <1>3

-----------------------------------------------------------------------------
(* The invariant of the specification.                                      *)

LEMMA InitHistory ==
  ASSUME IdsApart
  PROVE  Init => HistoryInv
  <1> SUFFICES ASSUME Init PROVE HistoryInv
    OBVIOUS
  <1>1. /\ DOMAIN meta = {Seed} /\ meta[Seed].current = 1
        /\ DOMAIN versions = {Seed} /\ versions[Seed].record = Seed
        /\ versions[Seed].version = 1 /\ versions[Seed].state = "live"
        /\ versions[Seed].base = NoVersion
    BY DEF Init, StoreInit
  <1>2. GetVersion(Seed, 1) = {Seed} /\ VersionsOf(Seed) = {Seed}
    BY <1>1 DEF GetVersion, VersionsOf
  <1>3. StoreInv
    BY <1>1, <1>2
    DEF StoreInv, NumbersUnique, NoGaps, RecordsKnown, BasePublished,
        SlugsUnique, CurrentKnown, WasCurrent, IsPublished
  <1>4. ASSUME NEW q \in Requests PROVE RequestInv(q)
    BY <1>1, SeedAssumption
    DEF Init, RequestInv, Fresh, RecordRead, CurrentRead, NumberFound,
        AfterCurrentRead
  <1> QED
    BY <1>3, <1>4 DEF HistoryInv

(* A step is one request's and leaves the bookkeeping of the others alone.  *)
LEMMA OthersStay ==
  ASSUME ControlTypeOK, NEW q \in Requests, Arrive(q) \/ Serve(q) \/ Abort(q),
         NEW p \in Requests \ {q}
  PROVE  pc'[p] = pc[p] /\ job'[p] = job[p] /\ reg'[p] = reg[p]
  <1> DOMAIN pc = Requests /\ DOMAIN job = Requests /\ DOMAIN reg = Requests
    BY DEF ControlTypeOK
  <1> USE DEF Goto, Remember, Answer, Refuse, Start
  <1>1. CASE Arrive(q)
    BY <1>1 DEF Arrive, StartCreate, StartPatch, StartAccept, StartReject,
                StartRetract, StartSetCurrent
  <1>2. CASE CreateInsertMeta(q) \/ CreateInsertVersion(q)
    BY <1>2 DEF CreateInsertMeta, CreateInsertVersion
  <1>3. CASE PatchResolve(q) \/ PatchRead(q) \/ PatchBase(q) \/ PatchNumber(q)
    BY <1>3 DEF PatchResolve, PatchRead, PatchBase, PatchNumber
  <1>4. CASE PatchInsert(q) \/ AcceptInsert(q)
    BY <1>4 DEF PatchInsert, AcceptInsert
  <1>5. CASE AcceptLoad(q) \/ AcceptDecide(q) \/ AcceptNumber(q)
    BY <1>5 DEF AcceptLoad, AcceptDecide, AcceptNumber
  <1>6. CASE AcceptPromote(q) \/ AcceptClose(q) \/ RejectMark(q)
             \/ RetractMark(q) \/ SetCurrentRestore(q)
    BY <1>6 DEF AcceptPromote, AcceptClose, RejectMark, RetractMark,
                SetCurrentRestore
  <1>7. CASE RejectLoad(q) \/ RetractLoad(q) \/ SetCurrentResolve(q)
             \/ SetCurrentRead(q)
    BY <1>7 DEF RejectLoad, RetractLoad, SetCurrentResolve, SetCurrentRead
  <1>8. CASE ArchiveCurrent(q) \/ PointMeta(q) \/ Abort(q)
    BY <1>8 DEF ArchiveCurrent, PointMeta, Abort
  <1> QED
    BY <1>1, <1>2, <1>3, <1>4, <1>5, <1>6, <1>7, <1>8 DEF Serve

LEMMA RequestKeeps ==
  ASSUME TypeOK, NextKnown, HistoryInv, NEW q \in Requests,
         Arrive(q) \/ Serve(q) \/ Abort(q)
  PROVE  Kept(q)
  BY ArriveKeeps, CreateKeeps, PatchKeeps, AcceptKeeps, DecisionKeeps,
     SetCurrentKeeps, SharedKeeps DEF TypeOK, Serve

LEMMA HistoryStep ==
  ASSUME TypeOK, NextKnown, HistoryInv, [Next]_vars
  PROVE  HistoryInv' /\ Maps
  <1>1. CASE UNCHANGED vars
    BY <1>1
    DEF vars, control, store, HistoryInv, StoreInv, NumbersUnique, NoGaps,
        RecordsKnown, BasePublished, SlugsUnique, CurrentKnown, WasCurrent,
        IsPublished, GetVersion, VersionsOf, RequestInv, Fresh, RecordRead,
        StillNames, CurrentRead, NumberFound, Maps, History!hvars, IdsApart
  <1>2. ASSUME NEW q \in Requests, Arrive(q) \/ Serve(q) \/ Abort(q)
        PROVE  HistoryInv' /\ Maps
    <2>1. Kept(q)
      BY <1>2, RequestKeeps
    <2>2. ASSUME NEW p \in Requests \ {q} PROVE RequestInv(p)'
      BY <1>2, <2>1, OthersStay, OthersKept DEF TypeOK, HistoryInv, Kept
    <2> QED
      BY <2>1, <2>2 DEF Kept, HistoryInv, IdsApart
  <1> QED
    BY <1>1, <1>2 DEF Next

(* The facts about the collections that every write keeps, and what a       *)
(* request may rely on at each of its steps, hold for any number of         *)
(* requests that race and end early, unless a slug is spelled like an _id.  *)
THEOREM HistoryAlwaysKept ==
  ASSUME IdsApart
  PROVE  Spec => []HistoryInv
  <1>1. Init => TypeOK /\ NextKnown /\ HistoryInv
    BY InitType, InitHistory DEF Init, NextKnown, NumberedSteps
  <1>2. TypeOK /\ NextKnown /\ HistoryInv /\ [Next]_vars
          => TypeOK' /\ NextKnown' /\ HistoryInv'
    BY NextType, NextKnownStep, HistoryStep
  <1> QED
    BY <1>1, <1>2, PTL DEF Spec

(* Whatever requests race, and wherever they end early, a system that has   *)
(* versions points to one that exists and is not awaiting review: what      *)
(* GET /systems/:id serves. (No slug is spelled like an _id.)               *)
THEOREM CurrentAlwaysPublished ==
  ASSUME IdsApart
  PROVE  Spec => []CurrentPublished
  <1>1. Init => TypeOK /\ NextKnown /\ HistoryInv
    BY InitType, InitHistory DEF Init, NextKnown, NumberedSteps
  <1>2. TypeOK /\ NextKnown /\ HistoryInv /\ [Next]_vars
          => TypeOK' /\ NextKnown' /\ HistoryInv'
    BY NextType, NextKnownStep, HistoryStep
  <1>3. HistoryInv => CurrentPublished
    BY DEF HistoryInv, StoreInv, CurrentKnown, WasCurrent, CurrentPublished
  <1> QED
    BY <1>1, <1>2, <1>3, PTL DEF Spec

LEMMA InitMaps == HistoryInv /\ Init => History!Init
  <1> SUFFICES ASSUME HistoryInv, Init PROVE History!Init
    OBVIOUS
  <1>1. \A r \in DOMAIN meta : VersionsOf(r) # {} /\ WasCurrent(r, meta[r].current)
    BY DEF Init, StoreInit, VersionsOf, HistoryInv, StoreInv, CurrentKnown
  <1>2. \A r \in DOMAIN meta : History!Decided(r, meta[r].current) # {}
    BY <1>1, HistoryMap DEF WasCurrent
  <1>3. {d \in DOMAIN versions : versions[d].state = "submitted"} = {}
    BY DEF Init, StoreInit
  <1> QED
    BY <1>2, <1>3 DEF History!Init

(* To its readers the store is an append-only history: no interleaving and  *)
(* no failure loses, renumbers or rewrites a version, repeats or skips a    *)
(* number, returns a decided version to review, or moves the pointer to a   *)
(* version that is not a decided one of the same system, as long as no slug *)
(* is spelled like an _id.                                                  *)
THEOREM HistoryImplemented ==
  ASSUME IdsApart
  PROVE  Spec => ImplementsHistory
  <1>1. Init => TypeOK /\ NextKnown /\ HistoryInv /\ History!Init
    BY InitType, InitHistory, InitMaps DEF Init, NextKnown, NumberedSteps
  <1>2. TypeOK /\ NextKnown /\ HistoryInv /\ [Next]_vars
          => TypeOK' /\ NextKnown' /\ HistoryInv' /\ [History!Next]_(History!hvars)
    BY NextType, NextKnownStep, HistoryStep DEF Maps
  <1> QED
    BY <1>1, <1>2, PTL DEF Spec, ImplementsHistory, History!Spec

-----------------------------------------------------------------------------
(* How many systems an id can name, slugs spelled like an _id included.     *)

(* Two slugs are never the same string.                                     *)
LEMMA SlugsApart ==
  ASSUME NEW x, NEW y, SlugId(x) = SlugId(y)
  PROVE  x = y
  <1>1. \A z : z \notin DOMAIN SpelledAs =>
                 SlugId(z).form = "slug" /\ SlugId(z).of = z
    BY DEF SlugId
  <1>2. \A z \in DOMAIN SpelledAs :
          SlugId(z) = SpelledAs[z] /\ SlugId(z).form \in {"meta", "doc"}
    BY SpellingAssumption DEF SlugId, MetaId, DocId
  <1>3. CASE x \in DOMAIN SpelledAs /\ y \in DOMAIN SpelledAs
    BY <1>2, <1>3, SpellingAssumption
  <1>4. CASE x \notin DOMAIN SpelledAs /\ y \notin DOMAIN SpelledAs
    BY <1>1, <1>4
  <1>5. CASE ~(x \in DOMAIN SpelledAs <=> y \in DOMAIN SpelledAs)
    BY <1>1, <1>2, <1>5
  <1> QED
    BY <1>3, <1>4, <1>5

(* A string that is both an _id and a slug is one of those spelled so.      *)
LEMMA BothSpelled ==
  ASSUME NEW r, NEW x, MetaId(r) = SlugId(x)
  PROVE  x \in DOMAIN SpelledAs /\ SpelledAs[x] = MetaId(r)
  <1>1. MetaId(r).form = "meta"
    BY DEF MetaId
  <1>2. x \notin DOMAIN SpelledAs => SlugId(x).form = "slug"
    BY DEF SlugId
  <1> QED
    BY <1>1, <1>2 DEF SlugId

LEMMA SlugsStayUnique ==
  ASSUME TypeOK, SlugsUnique, [Next]_vars
  PROVE  SlugsUnique'
  <1>1. CASE UNCHANGED meta
    BY <1>1 DEF SlugsUnique
  <1>2. CASE \E q \in Requests : CreateInsertMeta(q) /\ ~SlugInUse(job[q].slug)
    BY <1>2 DEF CreateInsertMeta, InsertMeta, SlugInUse, SlugsUnique
  <1>3. CASE \E q \in Requests : PointMeta(q)
    <2>1. PICK q \in Requests : PointMeta(q)
      BY <1>3
    <2>2. /\ DOMAIN meta' = DOMAIN meta
          /\ \A r \in DOMAIN meta : meta'[r].slug = meta[r].slug
      BY <2>1 DEF PointMeta, setMetaCurrentVersion, TypeOK, StoreTypeOK, EntityMeta
    <2> QED
      BY <2>2 DEF SlugsUnique
  <1>4. \/ UNCHANGED meta
        \/ \E q \in Requests :
             PointMeta(q) \/ (CreateInsertMeta(q) /\ ~SlugInUse(job[q].slug))
    <2>1. ASSUME NEW q \in Requests, Arrive(q) \/ Abort(q)
          PROVE  UNCHANGED meta
      BY <2>1 DEF Arrive, StartCreate, StartPatch, StartAccept, StartReject,
                  StartRetract, StartSetCurrent, Start, Abort, store
    <2>2. ASSUME NEW q \in Requests, Serve(q), ~PointMeta(q)
          PROVE  UNCHANGED meta \/ (CreateInsertMeta(q) /\ ~SlugInUse(job[q].slug))
      BY <2>2 DEF Serve, CreateInsertMeta, CreateInsertVersion, InsertVersion,
           PatchResolve, PatchRead, PatchBase, PatchNumber, PatchInsert, Refuse,
           AcceptLoad, AcceptDecide, AcceptPromote, AcceptNumber, AcceptInsert,
           AcceptClose, RejectLoad, RejectMark, RetractLoad, RetractMark,
           SetCurrentResolve, SetCurrentRead, SetCurrentRestore, ArchiveCurrent,
           archiveVersion, setVersionState, store
    <2> QED
      BY <2>1, <2>2 DEF Next, vars, store
  <1> QED
    BY <1>1, <1>2, <1>3, <1>4

LEMMA OneIsSmall ==
  ASSUME NEW S, \A x, y \in S : x = y
  PROVE  Cardinality(S) \in {0, 1}
  <1>1. CASE S = {}
    BY <1>1, FS_EmptySet
  <1>2. CASE S # {}
    <2>1. PICK x : S = {x}
      BY <1>2
    <2> QED
      BY <2>1, FS_Singleton
  <1> QED
    BY <1>1, <1>2

LEMMA TwoAreSmall ==
  ASSUME NEW S, NEW T, \A x, y \in S : x = y, \A x, y \in T : x = y
  PROVE  Cardinality(S \cup T) \in {0, 1, 2}
  <1>1. CASE S = {} \/ T = {}
    BY <1>1, OneIsSmall
  <1>2. CASE S # {} /\ T # {}
    <2>1. PICK x, y : S = {x} /\ T = {y}
      BY <1>2
    <2>2. IsFiniteSet({x}) /\ Cardinality({x}) = 1
      BY FS_Singleton
    <2>3. Cardinality({x} \cup {y}) \in {1, 2}
      BY <2>2, FS_AddElement
    <2> QED
      BY <2>1, <2>3
  <1> QED
    BY <1>1, <1>2

(* The record whose `_id` a string is, and the one whose slug it is.        *)
LEMMA MetaTwoAtMost ==
  ASSUME SlugsUnique
  PROVE  \A id : Cardinality(GetMeta(id)) \in {0, 1, 2}
  <1> SUFFICES ASSUME NEW id PROVE Cardinality(GetMeta(id)) \in {0, 1, 2}
    OBVIOUS
  <1> DEFINE ById   == {r \in DOMAIN meta : id = MetaId(r)}
             BySlug == {r \in DOMAIN meta : id = SlugId(meta[r].slug)}
  <1>1. ASSUME NEW r \in ById, NEW s \in ById PROVE r = s
    <2>1. MetaId(r).of = r /\ MetaId(s).of = s
      BY DEF MetaId
    <2>2. MetaId(r) = MetaId(s)
      OBVIOUS
    <2> QED
      BY <2>1, <2>2
  <1>2. \A r, s \in BySlug : r = s
    BY SlugsApart DEF SlugsUnique
  <1>3. GetMeta(id) = ById \cup BySlug
    BY DEF GetMeta
  <1> HIDE DEF ById, BySlug
  <1> QED
    BY <1>1, <1>2, <1>3, TwoAreSmall

LEMMA AmbiguousOnlySpelled ==
  ASSUME SlugsUnique, StoreTypeOK
  PROVE  \A id : \/ \A r, s \in GetMeta(id) : r = s
                 \/ \E r \in ObjectIds : id = MetaId(r) /\ SpelledLike(r)
  <1> SUFFICES ASSUME NEW id, NEW r \in GetMeta(id), NEW s \in GetMeta(id), r # s
               PROVE  \E t \in ObjectIds : id = MetaId(t) /\ SpelledLike(t)
    OBVIOUS
  <1>1. r \in ObjectIds /\ s \in ObjectIds
    BY DEF GetMeta, StoreTypeOK
  <1>2. \A x, y : MetaId(x) = MetaId(y) => x = y
    <2>1. \A x : MetaId(x).of = x
      BY DEF MetaId
    <2> QED
      BY <2>1
  <1>3. ~(id = SlugId(meta[r].slug) /\ id = SlugId(meta[s].slug))
    BY SlugsApart DEF SlugsUnique, GetMeta
  <1>4. \/ id = MetaId(r) /\ id = SlugId(meta[s].slug)
        \/ id = MetaId(s) /\ id = SlugId(meta[r].slug)
    BY <1>2, <1>3 DEF GetMeta
  <1>5. ASSUME NEW x, NEW slug, MetaId(x) = SlugId(slug)
        PROVE  SpelledLike(x)
    BY <1>5, BothSpelled DEF SpelledLike
  <1> QED
    BY <1>1, <1>4, <1>5

(* However creations race, an id names one system, or two when a slug is    *)
(* spelled like the `_id` of the one it names, and never three.             *)
THEOREM IdsAlwaysNameOneOrTwo == Spec => []IdsNameOneOrTwo
  <1>1. Init => TypeOK /\ NextKnown /\ SlugsUnique
    BY InitType DEF Init, StoreInit, NextKnown, NumberedSteps, SlugsUnique
  <1>2. TypeOK /\ NextKnown /\ SlugsUnique /\ [Next]_vars
          => TypeOK' /\ NextKnown' /\ SlugsUnique'
    BY NextType, NextKnownStep, SlugsStayUnique
  <1>3. TypeOK /\ SlugsUnique => IdsNameOneOrTwo
    <2> SUFFICES ASSUME StoreTypeOK, SlugsUnique, NEW id
                 PROVE  Cardinality(ResolveMeta(id))
                          <= IF \E r \in ObjectIds : id \in NamesOf(r) /\ SpelledLike(r)
                             THEN 2 ELSE 1
      BY DEF IdsNameOneOrTwo, TypeOK
    <2>1. CASE GetMeta(id) # {}
      <3>1. \/ \A r, s \in GetMeta(id) : r = s
            \/ \E r \in ObjectIds : id = MetaId(r) /\ SpelledLike(r)
        BY AmbiguousOnlySpelled
      <3>2. CASE \A r, s \in GetMeta(id) : r = s
        BY <2>1, <3>2, OneIsSmall DEF ResolveMeta
      <3>3. CASE \E r \in ObjectIds : id = MetaId(r) /\ SpelledLike(r)
        BY <2>1, <3>3, MetaTwoAtMost DEF ResolveMeta, NamesOf
      <3> QED
        BY <3>1, <3>2, <3>3
    <2>2. CASE GetMeta(id) = {} /\ \E d \in DOMAIN versions : id = DocId(d)
      <3>1. PICK d \in DOMAIN versions : id = DocId(d)
        BY <2>2
      <3>2. \A e : DocId(e).of = e
        BY DEF DocId
      <3> DEFINE found == GetMeta(MetaId(versions[d].record))
      <3>3. ResolveMeta(id) = found
        <4>1. \A e \in DOMAIN versions : id = DocId(e) <=> e = d
          BY <3>1, <3>2
        <4> QED
          BY <2>2, <4>1 DEF ResolveMeta, GetMeta
      <3>4. id \in NamesOf(versions[d].record)
        BY <3>1 DEF NamesOf, VersionsOf
      <3>5. \/ \A r, s \in found : r = s
            \/ \E r \in ObjectIds : MetaId(versions[d].record) = MetaId(r)
                                      /\ SpelledLike(r)
        BY AmbiguousOnlySpelled
      <3>6. CASE \A r, s \in found : r = s
        <4> HIDE DEF found
        <4> QED
          BY <3>3, <3>6, OneIsSmall
      <3>7. CASE \E r \in ObjectIds : MetaId(versions[d].record) = MetaId(r)
                                      /\ SpelledLike(r)
        <4>1. \A r, s : MetaId(r) = MetaId(s) => r = s
          <5>1. \A r : MetaId(r).of = r
            BY DEF MetaId
          <5> QED
            BY <5>1
        <4>2. \E r \in ObjectIds : id \in NamesOf(r) /\ SpelledLike(r)
          BY <3>4, <3>7, <4>1
        <4>3. Cardinality(found) \in {0, 1, 2}
          BY MetaTwoAtMost
        <4> QED
          BY <3>3, <4>2, <4>3
      <3> QED
        BY <3>5, <3>6, <3>7
    <2>3. CASE GetMeta(id) = {} /\ ~\E d \in DOMAIN versions : id = DocId(d)
      <3>1. ResolveMeta(id) = {}
        BY <2>3 DEF ResolveMeta
      <3> QED
        BY <3>1, FS_EmptySet
    <2> QED
      BY <2>1, <2>2, <2>3
  <1> QED
    BY <1>1, <1>2, <1>3, PTL DEF Spec
=============================================================================
