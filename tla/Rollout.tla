------------------------------- MODULE Rollout -------------------------------
(***************************************************************************)
(* Bringing the slugs into service: replicas that start and create the     *)
(* indexes (main in cmd/game-systems-api, EnsureIndexes in                 *)
(* models/versioning.go), the one-off migration that gives every record a  *)
(* slug (cmd/migrate-system-ids), and the writes the service takes         *)
(* meanwhile. The unique indexes Versioning assumes are state here: while  *)
(* one is missing nothing refuses a duplicate.                             *)
(*                                                                         *)
(* Of the service's writes only what an index or the migration looks at is *)
(* kept: slugs, version numbers, names and pointers.                       *)
(***************************************************************************)
EXTENDS Naturals, FiniteSets, Sequences, TLC

CONSTANTS Replicas,     \* pods of the service
          Operators,    \* people who run the migration
          Requests,     \* POST and PATCH requests, naming what they insert
          Legacy,       \* records that exist at the start
          Words, Punct, \* what names are made of
          Lower,        \* strings.ToLower on words
          LegacyName,   \* record -> name of its version 1
          LegacySlug,   \* the slugs some legacy records have already
          Losses,       \* the sets of records that may lack their versions
          CreateSlugs,  \* slugs of POST bodies
          PatchNames,   \* names of PATCH bodies
          Ops,          \* kinds of request
          MaxInFlight,  \* bound: requests handled at the same time
          MaxFailures   \* bound: failed operations and processes killed

AlnumSlug(s) == s # <<>> /\ \A i \in DOMAIN s : s[i] # ""   \* SystemIDPattern

ASSUME RolloutAssumption ==
    /\ Punct \notin Words /\ Lower \in [Words -> Words]
    /\ LegacyName \in [Legacy -> Seq(Words \cup {Punct})]
    /\ DOMAIN LegacySlug \subseteq Legacy /\ Losses \subseteq SUBSET Legacy
    /\ \A r \in DOMAIN LegacySlug : AlnumSlug(LegacySlug[r])
    /\ \A s \in CreateSlugs : AlnumSlug(s)   \* ValidateSystemID
    /\ PatchNames \subseteq Seq(Words \cup {Punct})
    /\ Legacy \cap Requests = {}
    /\ IsFiniteSet(Legacy) /\ IsFiniteSet(Requests)
    /\ MaxInFlight \in Nat /\ MaxFailures \in Nat

VARIABLES current,   \* record -> the number its pointer names
          slug,      \* record -> system_id, where the field is present
          versions,  \* documents [by, record, number, name]
          indexes,   \* the indexes that exist
          replica,   \* replica -> the step of main it is at
          pc, job,   \* request -> its next step, what was asked
          number,    \* request -> the version number it computed
          tool,      \* operator -> the migration's step and local variables
          failures   \* failures so far

store    == <<current, slug, versions>>
requests == <<pc, job, number>>
vars     == <<store, indexes, replica, requests, tool, failures>>

Put(f, x, y) == [z \in DOMAIN f \cup {x} |-> IF z = x THEN y ELSE f[z]]

Missing == {r \in DOMAIN current : r \notin DOMAIN slug \/ slug[r] = <<>>}

-----------------------------------------------------------------------------
(* Slugs: the words of a name in lower case, joined by dashes; "" is what a *)
(* leading dash leaves when the words are split again.                      *)

slugify(name) ==
    LET kept == {i \in DOMAIN name : name[i] # Punct}
        Nth(k) == CHOOSE i \in kept : Cardinality({j \in kept : j <= i}) = k
    IN  [k \in 1 .. Cardinality(kept) |-> Lower[name[Nth(k)]]]

Wordless(name) == \A i \in DOMAIN name : name[i] = Punct

Numeral(n) == ToString(n)   \* %d

ASSUME NumeralsDiffer ==
    \A m, n \in 2 .. Cardinality(Legacy \cup Requests) + 2 :
      Numeral(m) = Numeral(n) => m = n

Suffixed(base, n) == (IF base = <<>> THEN <<"">> ELSE base) \o <<Numeral(n)>>
Candidate(base, n) == IF n = 1 THEN base ELSE Suffixed(base, n)

(* Variant: only the first suffix is ever tried.                            *)
OneSuffix(base, taken) == IF base \in taken THEN Suffixed(base, 2) ELSE base

(* The slug itself, or with the first of -2, -3, ... that is not taken.     *)
FreshSlug(base, taken) ==
    LET free == {n \in 1 .. Cardinality(taken) + 1 : Candidate(base, n) \notin taken}
    IN  Candidate(base, CHOOSE n \in free : \A k \in free : n <= k)

-----------------------------------------------------------------------------
(* Startup: EnsureIndexes creates the four indexes one after the other and  *)
(* returns at the first error, which main logs before it serves. Creating   *)
(* an index that exists succeeds.                                           *)

IndexOrder == <<"slug", "number", "state", "name">>
AllIndexes == {"slug", "number", "state", "name"}

(* A missing field is a key like any other, once.                           *)
DuplicateSlugs ==
    \/ Cardinality(DOMAIN current \ DOMAIN slug) > 1
    \/ \E r, s \in DOMAIN slug : r # s /\ slug[r] = slug[s]

DuplicateNumbers ==
    \E v, w \in versions : /\ v # w
                           /\ v.record = w.record /\ v.number = w.number

Buildable(index) == /\ index = "slug" => ~DuplicateSlugs
                    /\ index = "number" => ~DuplicateNumbers

Fail == failures < MaxFailures /\ failures' = failures + 1

At(p, step) == replica' = [replica EXCEPT ![p] = step]

Boot(p) ==
    /\ replica[p] = "down"
    /\ At(p, "slug")
    /\ UNCHANGED <<store, indexes, requests, tool, failures>>

EnsureIndex(p) ==
    \E i \in DOMAIN IndexOrder :
      /\ replica[p] = IndexOrder[i]
      /\ IF Buildable(IndexOrder[i]) \/ IndexOrder[i] \in indexes
         THEN /\ indexes' = indexes \cup {IndexOrder[i]}
              /\ At(p, IF i = Len(IndexOrder) THEN "serving" ELSE IndexOrder[i + 1])
         ELSE At(p, "serving") /\ UNCHANGED indexes
      /\ UNCHANGED <<store, requests, tool, failures>>

(* The database is unreachable for this operation.                          *)
EnsureIndexFails(p) ==
    /\ replica[p] \in AllIndexes
    /\ Fail
    /\ At(p, "serving")
    /\ UNCHANGED <<store, indexes, requests, tool>>

Crash(p) ==
    /\ replica[p] # "down"
    /\ Fail
    /\ At(p, "down")
    /\ UNCHANGED <<store, indexes, requests, tool>>

(* Someone who has read the log restarts the pod (external).                *)
Redeploy(p) ==
    /\ replica[p] = "serving" /\ indexes # AllIndexes
    /\ At(p, "down")
    /\ UNCHANGED <<store, indexes, requests, tool, failures>>

-----------------------------------------------------------------------------
(* The service's writes.                                                    *)

NoJob == [op |-> "none"]
InFlight == {q \in Requests : pc[q] \notin {"idle", "done", "refused"}}

Goto(q, step) == pc' = [pc EXCEPT ![q] = step]

Arrive(q, jobs, step) ==
    /\ pc[q] = "idle"
    /\ \E p \in Replicas : replica[p] = "serving"
    /\ Cardinality(InFlight) < MaxInFlight
    /\ \E j \in jobs : j.op \in Ops /\ job' = [job EXCEPT ![q] = j]
    /\ Goto(q, step)
    /\ UNCHANGED <<store, indexes, replica, number, tool, failures>>

StartCreate(q) ==
    Arrive(q, [op : {"create"}, slug : CreateSlugs, name : PatchNames], "insertMeta")
StartPatch(q) ==
    Arrive(q, [op : {"patch"}, record : DOMAIN current, name : PatchNames], "read")

SlugTaken(s) == "slug" \in indexes /\ \E r \in DOMAIN slug : slug[r] = s
NumberTaken(r, n) ==
    "number" \in indexes /\ \E v \in versions : v.record = r /\ v.number = n

(* Variant: the pointer of a new record is left at Go's zero value.         *)
CreateInsertUnset(q) ==
    /\ pc[q] = "insertMeta"
    /\ current' = Put(current, q, 0)
    /\ slug' = Put(slug, q, job[q].slug)
    /\ Goto(q, "insertFirst")
    /\ UNCHANGED <<versions, indexes, replica, job, number, tool, failures>>

CreateInsertMeta(q) ==
    /\ pc[q] = "insertMeta"
    /\ IF SlugTaken(job[q].slug)
       THEN Goto(q, "refused") /\ UNCHANGED <<current, slug>>
       ELSE /\ current' = Put(current, q, 1)
            /\ slug' = Put(slug, q, job[q].slug)
            /\ Goto(q, "insertFirst")
    /\ UNCHANGED <<versions, indexes, replica, job, number, tool, failures>>

Doc(q, r, n, name) == [by |-> q, record |-> r, number |-> n, name |-> name]

CreateInsertVersion(q) ==
    /\ pc[q] = "insertFirst"
    /\ versions' = versions \cup {Doc(q, q, 1, job[q].name)}
    /\ Goto(q, "done")
    /\ UNCHANGED <<current, slug, indexes, replica, job, number, tool, failures>>

(* Get and nextVersionNumber: 404 without a current version.                *)
PatchRead(q) ==
    /\ pc[q] = "read"
    /\ LET r == job[q].record
           numbers == {v.number : v \in {w \in versions : w.record = r}}
       IN  IF current[r] \notin numbers
           THEN Goto(q, "refused") /\ UNCHANGED number
           ELSE /\ \E n \in numbers :
                     /\ \A k \in numbers : k <= n
                     /\ number' = [number EXCEPT ![q] = n + 1]
                /\ Goto(q, "insert")
    /\ UNCHANGED <<store, indexes, replica, job, tool, failures>>

PatchInsert(q) ==
    /\ pc[q] = "insert"
    /\ IF NumberTaken(job[q].record, number[q])
       THEN Goto(q, "refused") /\ UNCHANGED versions
       ELSE /\ versions' = versions \cup
                 {Doc(q, job[q].record, number[q], job[q].name)}
            /\ Goto(q, "point")
    /\ UNCHANGED <<current, slug, indexes, replica, job, number, tool, failures>>

PatchPoint(q) ==
    /\ pc[q] = "point"
    /\ current' = [current EXCEPT ![job[q].record] = number[q]]
    /\ Goto(q, "done")
    /\ UNCHANGED <<slug, versions, indexes, replica, job, number, tool, failures>>

-----------------------------------------------------------------------------
(* cmd/migrate-system-ids. The records and the slugs in use are read once.  *)

(* The variables of main: between two records, and with one to update.      *)
Between(step, todo, taken) == [step |-> step, todo |-> todo, taken |-> taken,
                               record |-> "none", id |-> <<>>]
Chosen(t, x, name) ==
    [step |-> "update", todo |-> t.todo \ {x}, taken |-> t.taken,
     record |-> x[1], id |-> FreshSlug(slugify(name), t.taken)]

Skipped(t, x) == Between("scan", t.todo \ {x}, t.taken)
NextRecord(t, taken) == Between("scan", t.todo, taken)
Ended(step) == Between(step, {}, {})
Running == {"scan", "update"}

Becomes(m, t) ==
    /\ UNCHANGED <<current, versions, indexes, replica, requests>>
    /\ tool' = [tool EXCEPT ![m] = t]

MigrateList(m) ==
    /\ tool[m].step \notin Running
    /\ Becomes(m, Between("scan", {<<r, current[r]>> : r \in Missing},
                               {slug[r] : r \in DOMAIN current \ Missing}))
    /\ UNCHANGED <<slug, failures>>

(* Variant: the first record that cannot be loaded ends the run.            *)
MigrateLoadOrExit(m) ==
    /\ tool[m].step = "scan" /\ tool[m].todo # {}
    /\ \E t \in tool[m].todo :
         LET found == {v \in versions : v.record = t[1] /\ v.number = t[2]}
         IN  IF found = {} THEN Becomes(m, Ended("failed"))
             ELSE \E v \in found : Becomes(m, Chosen(tool[m], t, v.name))
    /\ UNCHANGED <<slug, failures>>

(* The next record: the name of the version that was current when the       *)
(* records were listed; a record without it is skipped.                     *)
MigrateLoad(m) ==
    /\ tool[m].step = "scan" /\ tool[m].todo # {}
    /\ \E t \in tool[m].todo :
         LET found == {v \in versions : v.record = t[1] /\ v.number = t[2]}
         IN  IF found = {} THEN Becomes(m, Skipped(tool[m], t))
             ELSE \E v \in found : Becomes(m, Chosen(tool[m], t, v.name))
    /\ UNCHANGED <<slug, failures>>

(* So is one whose version could not be read.                               *)
MigrateLoadFails(m) ==
    /\ tool[m].step = "scan"
    /\ Fail
    /\ \E t \in tool[m].todo : Becomes(m, Skipped(tool[m], t))
    /\ UNCHANGED slug

(* Variant: the update does not look at what the record has by now.         *)
AlwaysMatches(r) == TRUE

Matches(r) == r \in Missing

MigrateUpdate(m) ==
    LET t == tool[m]
        clash == \E r \in DOMAIN slug \ {t.record} : slug[r] = t.id
    IN  /\ t.step = "update"
        /\ IF ~Matches(t.record)
           THEN Becomes(m, NextRecord(t, t.taken)) /\ UNCHANGED slug
           ELSE IF clash /\ "slug" \in indexes
           THEN Becomes(m, Ended("failed")) /\ UNCHANGED slug
           ELSE /\ slug' = Put(slug, t.record, t.id)
                /\ Becomes(m, NextRecord(t, t.taken \cup {t.id}))
        /\ UNCHANGED failures

MigrateComplete(m) ==
    /\ tool[m].step = "scan" /\ tool[m].todo = {}
    /\ Becomes(m, Ended("complete"))
    /\ UNCHANGED <<slug, failures>>

(* The update fails, or the process is killed.                              *)
MigrateDies(m) ==
    /\ tool[m].step \in Running
    /\ Fail
    /\ Becomes(m, Ended("failed"))
    /\ UNCHANGED slug

-----------------------------------------------------------------------------
Init ==
    /\ current = [r \in Legacy |-> 1]
    /\ slug = LegacySlug
    /\ \E lost \in Losses :
         versions = {Doc("seed", r, 1, LegacyName[r]) : r \in Legacy \ lost}
    /\ indexes = {}
    /\ replica = [p \in Replicas |-> "down"]
    /\ pc = [q \in Requests |-> "idle"]
    /\ job = [q \in Requests |-> NoJob]
    /\ number = [q \in Requests |-> 0]
    /\ tool = [m \in Operators |-> Ended("off")]
    /\ failures = 0

Serve(q) == \/ CreateInsertMeta(q) \/ CreateInsertVersion(q)
            \/ PatchRead(q) \/ PatchInsert(q) \/ PatchPoint(q)

Migrate(m) == \/ MigrateList(m) \/ MigrateLoad(m)
              \/ MigrateUpdate(m) \/ MigrateComplete(m)

Next ==
    \/ \E p \in Replicas : \/ Boot(p) \/ EnsureIndex(p) \/ EnsureIndexFails(p)
                           \/ Crash(p) \/ Redeploy(p)
    \/ \E q \in Requests : StartCreate(q) \/ StartPatch(q) \/ Serve(q)
    \/ \E m \in Operators : Migrate(m) \/ MigrateLoadFails(m) \/ MigrateDies(m)

Spec == Init /\ [][Next]_vars

(* Pods that end are restarted by Kubernetes; people restart them while     *)
(* indexes are missing, and somebody runs the migration again and again.    *)
FairSpec ==
    /\ Spec
    /\ \A p \in Replicas : WF_vars(Boot(p) \/ EnsureIndex(p) \/ Redeploy(p))
    /\ WF_vars(\E m \in Operators : Migrate(m))

-----------------------------------------------------------------------------
(* Properties.                                                              *)

RolloutTypeOK ==
    LET Records == Legacy \cup Requests IN
    /\ DOMAIN current \subseteq Records /\ DOMAIN slug \subseteq DOMAIN current
    /\ \A r \in DOMAIN current : current[r] \in Nat \ {0}
    /\ \A v \in versions : v.record \in DOMAIN current /\ v.number > 0
    /\ indexes \subseteq AllIndexes
    /\ replica \in [Replicas -> AllIndexes \cup {"down", "serving"}]
    /\ \A m \in Operators :
         /\ tool[m].step \in Running \cup {"off", "complete", "failed"}
         /\ \A t \in tool[m].todo : t[1] \in DOMAIN current

(* migrate-system-ids: a record that has a slug keeps it, whatever is run   *)
(* at the same time and however often (URLs in use stay valid).             *)
SlugsKept ==
    [][\A r \in DOMAIN slug : slug[r] # <<>> => slug'[r] = slug[r]]_vars

(* At most one operator has run the migration, and nobody created a system. *)
Undisturbed ==
    /\ \A m, n \in Operators : m = n \/ "off" \in {tool[m].step, tool[n].step}
    /\ \A q \in Requests : job[q].op # "create"

(* One operator's runs, however they end, never give two records the same   *)
(* slug or one that was in use before, although PATCHes rename systems: the *)
(* in-memory bookkeeping is enough, the index is not needed for it. That is *)
(* so if every name has a letter or digit: "" does not count as a slug.     *)
SlugsDistinct ==
    Undisturbed => \A r, s \in DOMAIN slug : slug[r] = slug[s] => r = s

(* The records no run can give a slug: those without a version, which stay  *)
(* without the field, and those with a name that makes none.                *)
Lost == {r \in Legacy \ DOMAIN LegacySlug : \A v \in versions : v.record # r}
Hopeless == Lost \cup {v.record : v \in {w \in versions : Wordless(w.name)}}

(* Then, and if no two PATCHes have stored the same number, repeating the   *)
(* migration and restarting the pods brings all other records their slugs,  *)
(* whatever failed before. It brings all four indexes too if one record at  *)
(* most is lost; two of them are two documents without a system_id, which   *)
(* the unique index does not take, and no index at all is ever built.       *)
RolloutCompletes ==
    <>[](Undisturbed /\ ~DuplicateNumbers =>
           /\ Missing \subseteq Hopeless
           /\ indexes = IF Cardinality(Lost) > 1 THEN {} ELSE AllIndexes)

-----------------------------------------------------------------------------
(* EnsureIndexes "creates the indexes game system version queries rely on": *)
(* a version number names one version. It gives up at the slug index while  *)
(* slugs are missing, the number index is not tried, and nothing refuses    *)
(* the second of two PATCHes with the same number.                          *)
NumbersDistinct == ~DuplicateNumbers
=============================================================================
