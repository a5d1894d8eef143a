------------------------- MODULE VersioningInvariant -------------------------
(***************************************************************************)
(* Why the guarantees of VersioningProperties hold: the facts about the    *)
(* collections that every write keeps, and what a request may rely on at   *)
(* each of its steps although others change the store under it.            *)
(***************************************************************************)
EXTENDS VersioningProperties

(* The collections.                                                         *)

NumbersUnique ==
    \A d, e \in DOMAIN versions :
        /\ versions[d].record = versions[e].record
        /\ versions[d].version = versions[e].version
        => d = e

NoGaps == \A d \in DOMAIN versions : \A n \in 1 .. versions[d].version - 1 :
              GetVersion(versions[d].record, n) # {}

RecordsKnown == \A d \in DOMAIN versions : versions[d].record \in DOMAIN meta

BasePublished ==
    \A d \in DOMAIN versions :
        IF versions[d].version = 1 THEN versions[d].base = NoVersion
        ELSE IsPublished(versions[d].record, versions[d].base)

SlugsUnique == \A r, s \in DOMAIN meta : meta[r].slug = meta[s].slug => r = s

(* n is what a read of the record's current version may have returned.      *)
WasCurrent(r, n) == IF VersionsOf(r) = {} THEN n = 1 ELSE IsPublished(r, n)

CurrentKnown == \A r \in DOMAIN meta : WasCurrent(r, meta[r].current)

StoreInv == NumbersUnique /\ NoGaps /\ RecordsKnown /\ BasePublished
              /\ SlugsUnique /\ CurrentKnown

(* A request. Before it inserts, its documents are not there.               *)

BeforeInsert == {"idle", "insertMeta", "insertFirst", "resolve", "read", "base",
                 "numberPatch", "insertPatch", "loadAccept", "decide",
                 "numberDerived", "insertDerived"}

Fresh(q) ==
    /\ pc[q] \in BeforeInsert => q \notin DOMAIN versions
    /\ pc[q] \in {"idle", "insertMeta"} => q \notin DOMAIN meta
    /\ pc[q] = "insertFirst" => q \in DOMAIN meta /\ VersionsOf(q) = {}

(* The record it works on is the one its id still names.                    *)
StillNames(q) == job[q].id \in {MetaId(reg[q].record),
                              SlugId(meta[reg[q].record].slug)}

RecordRead(q) ==
    /\ pc[q] \in {"read", "base"} =>
         /\ reg[q].record \in DOMAIN meta
         /\ StillNames(q) \/ \E d \in ObjectIds : job[q].id = DocId(d)
    /\ pc[q] = "base" => VersionsOf(reg[q].record) # {}

(* The current version it read exists and stays published.                  *)
AfterCurrentRead ==
    {"numberPatch", "insertPatch", "archive", "pointPatch", "unseat", "promote",
     "pointAccept", "numberDerived", "insertDerived", "archiveDerived",
     "pointDerived", "close", "rollback", "restore", "pointTarget"}

CurrentRead(q) ==
    /\ pc[q] \in AfterCurrentRead => IsPublished(reg[q].record, reg[q].current)
    /\ pc[q] \in {"read", "readTarget"} =>
         /\ reg[q].record \in DOMAIN meta
         /\ WasCurrent(reg[q].record, reg[q].current)

(* The number it inserts comes after numbers in use; the number it points   *)
(* to is in use, and published by the time it points to it.                 *)
NumberFound(q) ==
    /\ pc[q] \in {"insertPatch", "insertDerived"} =>
         /\ reg[q].next > 1
         /\ \A n \in 1 .. reg[q].next - 1 : GetVersion(reg[q].record, n) # {}
    /\ pc[q] \in {"unseat", "promote", "rollback", "restore"} =>
         /\ reg[q].next = job[q].number
         /\ GetVersion(reg[q].record, reg[q].next) # {}
    /\ pc[q] = "readTarget" => reg[q].next = job[q].number
    /\ pc[q] \in {"archive", "pointPatch", "archiveDerived", "pointDerived",
                  "close", "pointAccept", "pointTarget"} =>
         IsPublished(reg[q].record, reg[q].next)

RequestInv(q) == Fresh(q) /\ RecordRead(q) /\ CurrentRead(q) /\ NumberFound(q)

(* The store keeps numbers dense and its pointers and bases published, and  *)
(* every request in flight can rely on what it has read, as long as no slug *)
(* is spelled like an `_id`: a PATCH that finds one system by an id and     *)
(* another when it reads its base keeps none of this.                       *)
HistoryInv == IdsApart /\ StoreInv /\ \A q \in Requests : RequestInv(q)
=============================================================================
