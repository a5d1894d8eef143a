------------------------------ MODULE ListQuery ------------------------------
(***************************************************************************)
(* GET /systems (parseListParams and listGameSystems in                    *)
(* server/game_systems.go, List in models/versioning.go): the parameters   *)
(* as a client sends them, what they are turned into, the aggregation      *)
(* MongoDB evaluates for one page, and a client that walks the pages while *)
(* systems are created and patched.                                        *)
(*                                                                         *)
(* A document stands for a version joined with its meta record: its `_id`, *)
(* what the filters look at, and its place in each sort order. Go's        *)
(* integers are those of -HalfRange .. HalfRange - 1.                      *)
(***************************************************************************)
EXTENDS Integers, SequencesExt

CONSTANTS Documents,       \* version documents, with their meta records
          SearchTerms,     \* what clients search for; "" is no search
          Sorts,           \* the sort parameters they send
          RawNumbers,      \* the page and per_page parameters they send
          Absent,          \* a parameter left out
          Malformed,       \* a parameter strconv.Atoi rejects
          DefaultPerPage, MaxPerPage,
          HalfRange,       \* 2^63 in the code
          MaxAdded,        \* bound: documents added during a walk
          MaxArchived      \* bound: versions archived during a walk

ASSUME ListAssumption ==
    /\ \A d \in Documents :
         /\ d.id \in Nat /\ d.name \in Nat /\ d.created \in Nat
         /\ d.live \in BOOLEAN /\ d.deleted \in BOOLEAN
         /\ d.contains \subseteq SearchTerms
    /\ \A d, e \in Documents : d.id = e.id => d = e
    /\ MaxPerPage \in Nat /\ HalfRange \in Nat /\ MaxPerPage < HalfRange
    /\ DefaultPerPage \in 1 .. MaxPerPage
    /\ RawNumbers \subseteq (-HalfRange .. HalfRange - 1) \cup {Absent, Malformed}
    /\ Absent \notin Int /\ Malformed \notin Int
    /\ MaxAdded \in Nat /\ MaxArchived \in Nat

(* There are fewer systems than Go's integers can count.                    *)
Listable == {d \in Documents : d.live /\ ~d.deleted}

ASSUME CollectionAssumption ==
    /\ IsFiniteSet(Documents)
    /\ Cardinality(Listable) + MaxPerPage < HalfRange

VARIABLES stored,   \* the documents in the collection, archived ones apart
          before,   \* those that were there when the walk began
          added,    \* how many were added since
          archived, \* how many were archived since
          phase,    \* idle, walking, walked or asked
          request,  \* the request being answered
          answer,   \* the last answer
          page,     \* the page the walk asks for next
          seen      \* the documents the walk was shown, in order

vars == <<stored, before, added, archived, phase, request, answer, page, seen>>
collection == <<stored, before, added, archived>>

-----------------------------------------------------------------------------
(* Parameters.                                                              *)

Request == [search : SearchTerms, sort : Sorts, page : RawNumbers,
            perPage : RawNumbers]

listSortKeys == {"", "name", "-name", "created", "-created"}

(* Go's zero value for a parameter left out.                                *)
Parsed(raw) == IF raw = Absent THEN 0 ELSE raw

(* Variant: the cap is forgotten.                                           *)
UncappedPerPage(n) == IF n < 1 THEN DefaultPerPage ELSE n

Page(n) == IF n < 1 THEN 1 ELSE n
PerPage(n) == IF n < 1 THEN DefaultPerPage
              ELSE IF n > MaxPerPage THEN MaxPerPage ELSE n

(* Variant: pages counted from zero.                                        *)
SkipOnePage(p, n) == p * n

(* int64(page-1) * int64(perPage).                                          *)
Skip(p, n) == (((p - 1) * n + HalfRange) % (2 * HalfRange)) - HalfRange

-----------------------------------------------------------------------------
(* The aggregation.                                                         *)

Matching(search) ==
    {d \in stored : d.live /\ ~d.deleted /\ (search = "" \/ search \in d.contains)}

Place(sort, d) == IF sort \in {"created", "-created"} THEN d.created ELSE d.name

KeyBefore(sort, d, e) ==
    IF sort \in {"-name", "-created"} THEN Place(sort, d) > Place(sort, e)
    ELSE Place(sort, d) < Place(sort, e)

(* Variant: the requested key alone.                                        *)
KeyOnly(sort, d, e) == KeyBefore(sort, d, e)

(* pageSort: the requested key, then `_id`.                                 *)
Before(sort, d, e) ==
    KeyBefore(sort, d, e) \/ (~KeyBefore(sort, e, d) /\ d.id < e.id)

(* $sort promises no more than this; what it leaves open may differ from    *)
(* one query to the next.                                                   *)
Arrangements(sort, docs) ==
    {s \in SetToSeqs(docs) :
        \A i, j \in DOMAIN s : Before(sort, s[i], s[j]) => i < j}

Window(s, skip, limit) == SubSeq(s, skip + 1, Min({skip + limit, Len(s)}))

(* Variant: the rows of the page are counted.                               *)
CountedOnPage(docs, rows) == Len(rows)

Total(docs, rows) == Cardinality(docs)

Answer(status, p, n, total, rows) ==
    [status |-> status, page |-> p, perPage |-> n, total |-> total, rows |-> rows]
Refusal(status) == Answer(status, 0, 0, 0, <<>>)

(* The answers a request may get. MongoDB rejects a negative $skip.         *)
Answers(r) ==
    LET p == Page(Parsed(r.page))
        n == PerPage(Parsed(r.perPage))
        docs == Matching(r.search)
    IN  IF Malformed \in {r.page, r.perPage} \/ r.sort \notin listSortKeys
        THEN {Refusal("invalid_request")}
        ELSE IF Skip(p, n) < 0 THEN {Refusal("query_failed")}
        ELSE {Answer("ok", p, n, Total(docs, Window(s, Skip(p, n), n)),
                     Window(s, Skip(p, n), n)) : s \in Arrangements(r.sort, docs)}

-----------------------------------------------------------------------------
Init ==
    /\ stored \in SUBSET Documents
    /\ before = stored /\ added = 0 /\ archived = 0
    /\ phase = "idle"
    /\ request \in Request
    /\ answer = Refusal("none")
    /\ page = 1
    /\ seen = <<>>

(* One request.                                                             *)
Ask ==
    /\ phase = "idle"
    /\ phase' = "asked"
    /\ answer' \in Answers(request)
    /\ UNCHANGED <<collection, request, page, seen>>

(* A client asks for page 1, 2, ... until it is shown an empty page.        *)
Walk ==
    /\ phase = "idle" /\ request.page = Absent
    /\ request.sort \in listSortKeys /\ request.perPage # Malformed
    /\ phase' = "walking"
    /\ UNCHANGED <<collection, request, answer, page, seen>>

NextPage ==
    /\ phase = "walking"
    /\ answer' \in Answers([request EXCEPT !.page = page])
    /\ seen' = seen \o answer'.rows
    /\ page' = page + 1
    /\ phase' = IF answer'.rows = <<>> THEN "walked" ELSE "walking"
    /\ UNCHANGED <<collection, request>>

(* Meanwhile a system is created, a PATCH inserts its version, or a         *)
(* rollback makes an archived one live again.                               *)
Add(d) ==
    /\ phase = "walking"
    /\ d \notin stored /\ added < MaxAdded
    /\ stored' = stored \cup {d} /\ added' = added + 1
    /\ UNCHANGED <<before, archived, phase, request, answer, page, seen>>

(* A PATCH, an accept or a rollback archives the version that was current.  *)
Archive(d) ==
    /\ phase = "walking"
    /\ d \in stored /\ d.live /\ archived < MaxArchived
    /\ stored' = stored \ {d} /\ archived' = archived + 1
    /\ UNCHANGED <<before, added, phase, request, answer, page, seen>>

Done == phase \in {"asked", "walked"}

Next == Ask \/ Walk \/ NextPage
          \/ (\E d \in Documents : Add(d) \/ Archive(d))
          \/ (Done /\ UNCHANGED vars)

Spec == Init /\ [][Next]_vars

-----------------------------------------------------------------------------
(* Properties.                                                              *)

(* An answer has the envelope's shape whatever the parameters: a page of at *)
(* least 1, a page size of 1 to MaxPerPage, no more rows than that.         *)
AnswerTypeOK ==
    /\ phase \in {"idle", "asked", "walking", "walked"}
    /\ request \in Request /\ page \in Nat
    /\ added \in Nat /\ archived \in Nat
    /\ answer.status \in {"none", "ok", "invalid_request", "query_failed"}
    /\ answer.status = "ok" =>
         /\ answer.page \in 1 .. HalfRange - 1
         /\ answer.perPage \in 1 .. MaxPerPage
         /\ answer.total \in Nat
         /\ answer.rows \in Seq(Documents) /\ Len(answer.rows) <= answer.perPage

Times(d) == Cardinality({i \in DOMAIN seen : seen[i] = d})

(* Paging through an unchanging collection shows every match once and       *)
(* nothing else, in the order asked for, rows that share a sort value       *)
(* included (List: the `_id` tiebreaker), whatever the page size.           *)
Unchanging == added = 0 /\ archived = 0

WalkExact ==
    phase = "walked" /\ Unchanging =>
        /\ ToSet(seen) = Matching(request.search)
        /\ \A d \in ToSet(seen) : Times(d) = 1
        /\ \A i, j \in DOMAIN seen :
             KeyBefore(request.sort, seen[i], seen[j]) => i < j

(* Documents added during the walk push others to later pages, where they   *)
(* may be shown again; a version that is archived, which every PATCH does,  *)
(* pulls others forward, and one of them past a client between two pages:   *)
(* a system that nobody touched may be skipped. It is one for each archived *)
(* version at most, whatever was added in between, and none if there was    *)
(* none.                                                                    *)
Skipped == (Matching(request.search) \cap before) \ ToSet(seen)

SkipsBounded == phase = "walked" => Cardinality(Skipped) <= archived

(* ListResult: Total is "independent of the page window". The total of any  *)
(* page is what a walk of an unchanging collection ends up having shown.    *)
TotalIsWalkLength ==
    phase = "walked" /\ Unchanging => answer.total = Len(seen)
=============================================================================
