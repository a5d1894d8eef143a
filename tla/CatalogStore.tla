---------------------------- MODULE CatalogStore ----------------------------
(***************************************************************************)
(* The two MongoDB collections the service owns, game_systems_meta and     *)
(* game_systems_versions, and the single-document operations               *)
(* models/versioning.go runs on them. Each operation is atomic, as a       *)
(* single-document MongoDB operation is; no operation spans two documents, *)
(* since the code opens no transaction.                                    *)
(*                                                                         *)
(* A document is named by its `_id`. NewObjectID never repeats and each    *)
(* request inserts at most one document in each collection, so the request *)
(* that inserted it names it; Seed names the pair present at the start.    *)
(***************************************************************************)
EXTENDS Naturals, FiniteSets, FieldMerge

CONSTANTS Requests,  \* the HTTP requests of a behaviour, one handler run each
          Seed,      \* `_id` of the system that exists at the start
          Slugs,     \* system_id values
          SeedSlug,
          Users,     \* canonical users._id values
          SeedUser,
          Blank,     \* the content of a body that names no field
          SpelledAs  \* slug -> the `_id` it is spelled like, for slugs that are

ASSUME SeedAssumption ==
    /\ Seed \notin Requests
    /\ SeedSlug \in Slugs
    /\ SeedUser \in Users
    /\ Blank \in Content
    /\ None \notin Users

VARIABLES meta,      \* game_systems_meta:     `_id` -> EntityMeta
          versions   \* game_systems_versions: `_id` -> GameSystemVersion

store == <<meta, versions>>

ObjectIds == Requests \cup {Seed}
NoVersion == 0       \* a nil *int: version numbers start at 1

VersionState == {"submitted", "live", "archived", "rejected",
                 "partially_accepted", "withdrawn"}

EntityMeta == [slug : Slugs, current : Nat \ {0}, updatedBy : Users]

GameSystemVersion ==
    [record : ObjectIds, version : Nat \ {0}, content : Content,
     state : VersionState, base : Nat, submittedBy : Users,
     reviewedBy : Users \cup {None}, resulting : Nat]

StoreTypeOK ==
    /\ DOMAIN meta \subseteq ObjectIds
    /\ meta \in [DOMAIN meta -> EntityMeta]
    /\ DOMAIN versions \subseteq ObjectIds
    /\ versions \in [DOMAIN versions -> GameSystemVersion]

(* One system, created earlier: what Create leaves behind.                  *)
StoreInit ==
    /\ meta = [r \in {Seed} |->
                 [slug |-> SeedSlug, current |-> 1, updatedBy |-> SeedUser]]
    /\ versions = [d \in {Seed} |->
                     [record |-> Seed, version |-> 1, content |-> Blank,
                      state |-> "live", base |-> NoVersion,
                      submittedBy |-> SeedUser, reviewedBy |-> None,
                      resulting |-> NoVersion]]

-----------------------------------------------------------------------------
(* What a client may put in a URL to name a system: the meta record's       *)
(* `_id`, its slug, or the `_id` of one of its version documents.           *)
(* SystemIDPattern allows a slug of 24 hexadecimal digits, and nothing      *)
(* keeps such a slug from being the `_id` of another document.              *)

MetaId(r) == [form |-> "meta", of |-> r]
DocId(d)  == [form |-> "doc",  of |-> d]

SlugId(slug) == IF slug \in DOMAIN SpelledAs THEN SpelledAs[slug]
                ELSE [form |-> "slug", of |-> slug]

ASSUME SpellingAssumption ==
    /\ DOMAIN SpelledAs \subseteq Slugs
    /\ \A s \in DOMAIN SpelledAs :
         SpelledAs[s] \in {MetaId(r) : r \in ObjectIds}
                          \cup {DocId(d) : d \in ObjectIds}
    /\ \A s, t \in DOMAIN SpelledAs : SpelledAs[s] = SpelledAs[t] => s = t

(* No slug of the behaviour is spelled like an `_id`.                       *)
IdsApart == DOMAIN SpelledAs = {}

SystemIds == {MetaId(r) : r \in ObjectIds} \cup {SlugId(s) : s \in Slugs}
               \cup {DocId(d) : d \in ObjectIds}

-----------------------------------------------------------------------------
(* Reads. A query that may find nothing is the set of what it finds.        *)

(* GetMeta: the record whose `_id` or whose slug is the string. The query's *)
(* limit of 1 picks one of them when both exist.                            *)
GetMeta(id) ==
    {r \in DOMAIN meta : id \in {MetaId(r), SlugId(meta[r].slug)}}

(* The first half of Get: the meta record the id names, or, when it names   *)
(* none, GetMeta on the record_id of the version whose `_id` it is.         *)
ResolveMeta(id) ==
    IF GetMeta(id) # {} THEN GetMeta(id)
    ELSE {r \in DOMAIN meta :
            \E d \in DOMAIN versions :
              id = DocId(d) /\ r \in GetMeta(MetaId(versions[d].record))}

VersionsOf(r) == {d \in DOMAIN versions : versions[d].record = r}

(* GetVersion: the documents with this record_id and version number.        *)
GetVersion(r, n) == {d \in VersionsOf(r) : versions[d].version = n}

(* Variant: the highest number is counted up once too often.                *)
nextVersionNumberSkipping(r) ==
    {n \in {1} \cup {versions[d].version + 2 : d \in VersionsOf(r)} :
        \A d \in VersionsOf(r) : versions[d].version < n - 1}

(* nextVersionNumber: one more than the record's highest number, or 1 when  *)
(* it has no version.                                                       *)
nextVersionNumber(r) ==
    {n \in {1} \cup {versions[d].version + 1 : d \in VersionsOf(r)} :
        \A d \in VersionsOf(r) : versions[d].version < n}

(* List without search or paging: the live versions joined with their meta  *)
(* record (no code path sets deleted_at).                                   *)
List == {d \in DOMAIN versions : /\ versions[d].state = "live"
                                 /\ versions[d].record \in DOMAIN meta}

-----------------------------------------------------------------------------
(* Writes. EnsureIndexes makes system_id unique in one collection and       *)
(* (record_id, version) unique in the other: an insert whose key is taken   *)
(* fails with a duplicate key error, which the callers test for.            *)

(* Variant: EnsureIndexes failed at startup, which main only logs.          *)
SlugNotIndexed(slug) == FALSE
VersionNotIndexed(r, n) == FALSE

SlugInUse(slug) == \E r \in DOMAIN meta : meta[r].slug = slug

VersionTaken(r, n) == GetVersion(r, n) # {}

InsertMeta(id, doc) ==
    /\ meta' = [r \in DOMAIN meta \cup {id} |-> IF r = id THEN doc ELSE meta[r]]
    /\ UNCHANGED versions

InsertVersion(id, doc) ==
    /\ versions' = [d \in DOMAIN versions \cup {id} |->
                      IF d = id THEN doc ELSE versions[d]]
    /\ UNCHANGED meta

(* setVersionState: UpdateOne on the version with that number; it touches  *)
(* nothing, without an error, when there is none. $set leaves every field   *)
(* it does not name alone.                                                  *)
setVersionState(r, n, Set(_)) ==
    /\ versions' = [d \in DOMAIN versions |->
                      IF d \in GetVersion(r, n) THEN Set(versions[d])
                      ELSE versions[d]]
    /\ UNCHANGED meta

archiveVersion(r, n) ==
    setVersionState(r, n, LAMBDA v : [v EXCEPT !.state = "archived"])

(* Variant: the audit field is stamped, the pointer forgotten.              *)
stampMetaOnly(r, n, user) ==
    /\ meta' = [meta EXCEPT ![r].updatedBy = user]
    /\ UNCHANGED versions

setMetaCurrentVersion(r, n, user) ==
    /\ meta' = [meta EXCEPT ![r].current = n, ![r].updatedBy = user]
    /\ UNCHANGED versions
=============================================================================
