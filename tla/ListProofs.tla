------------------------------ MODULE ListProofs ------------------------------
(***************************************************************************)
(* What a client that pages through GET /systems is shown, for any         *)
(* collection, search, sort order and page size. The rows of a page are    *)
(* told by their rank in the order, which is why the proofs need that the  *)
(* order leaves no two systems equal.                                      *)
(***************************************************************************)
EXTENDS ListQuery, FiniteSetTheorems, SequenceTheorems, TLAPS

-----------------------------------------------------------------------------
(* Parameters.                                                              *)

LEMMA Limits ==
  MaxPerPage \in Nat /\ HalfRange \in Nat /\ MaxPerPage < HalfRange
  BY ListAssumption

LEMMA ParamTypes ==
  ASSUME NEW raw \in RawNumbers \cup Nat, raw # Malformed
  PROVE  /\ Parsed(raw) \in Int /\ Page(Parsed(raw)) \in Nat \ {0}
         /\ raw \in RawNumbers => Page(Parsed(raw)) \in 1 .. HalfRange - 1
         /\ PerPage(Parsed(raw)) \in 1 .. MaxPerPage
  <1>1. Parsed(raw) \in Int
    BY ListAssumption DEF Parsed
  <1>2. raw \in RawNumbers => Parsed(raw) \in -HalfRange .. HalfRange - 1
    BY ListAssumption DEF Parsed
  <1> DEFINE n == Parsed(raw)
  <1> HIDE DEF n
  <1>3. 1 \in 1 .. HalfRange - 1
    BY ListAssumption
  <1>4. Page(n) \in Nat \ {0} /\ (raw \in RawNumbers => Page(n) \in 1 .. HalfRange - 1)
    BY <1>1, <1>2, <1>3, ListAssumption DEF Page, n
  <1>5. PerPage(n) \in 1 .. MaxPerPage
    BY <1>1, ListAssumption DEF PerPage, n
  <1> QED
    BY <1>1, <1>4, <1>5 DEF n

LEMMA SmallMod ==
  ASSUME NEW a \in Nat, NEW b \in Nat \ {0}, a < b
  PROVE  a % b = a
  OBVIOUS

LEMMA ModRange ==
  ASSUME NEW a \in Int, NEW b \in Nat \ {0}
  PROVE  a % b \in 0 .. b - 1
  OBVIOUS

(* The skip is what it should be as long as it fits.                        *)
LEMMA SkipExact ==
  ASSUME NEW p \in Nat \ {0}, NEW n \in Nat, (p - 1) * n < HalfRange
  PROVE  Skip(p, n) = (p - 1) * n /\ (p - 1) * n \in Nat
  <1> DEFINE x == (p - 1) * n
             H == HalfRange
  <1>1. x \in Nat /\ x < H /\ H \in Nat
    BY ListAssumption
  <1>2. Skip(p, n) = ((x + H) % (2 * H)) - H
    BY DEF Skip
  <1> HIDE DEF x, H
  <1>3. (x + H) % (2 * H) = x + H
    BY <1>1, SmallMod
  <1> QED
    BY <1>1, <1>2, <1>3 DEF x

LEMMA SkipType ==
  ASSUME NEW p \in Int, NEW n \in Int
  PROVE  Skip(p, n) \in Int
  <1> DEFINE x == (p - 1) * n + HalfRange
  <1>1. x \in Int /\ 2 * HalfRange \in Nat \ {0}
    BY ListAssumption
  <1> HIDE DEF x
  <1>2. x % (2 * HalfRange) \in Int
    BY <1>1, ModRange
  <1> QED
    BY <1>2, ListAssumption DEF Skip, x

-----------------------------------------------------------------------------
(* The order. The `_id` tiebreaker makes it a strict total one.             *)

LEMMA BeforeTotal ==
  ASSUME NEW sort, NEW d \in Documents, NEW e \in Documents, d # e
  PROVE  /\ Before(sort, d, e) \/ Before(sort, e, d)
         /\ ~ (Before(sort, d, e) /\ Before(sort, e, d))
  <1>1. /\ Place(sort, d) \in Nat /\ Place(sort, e) \in Nat
        /\ d.id \in Nat /\ e.id \in Nat /\ d.id # e.id
    BY ListAssumption DEF Place
  <1> QED
    BY <1>1 DEF Before, KeyBefore

LEMMA MatchingFinite ==
  ASSUME NEW search, stored \subseteq Documents
  PROVE  /\ IsFiniteSet(Matching(search)) /\ Matching(search) \subseteq Documents
         /\ Cardinality(Matching(search)) \in Nat
         /\ Cardinality(Matching(search)) + MaxPerPage < HalfRange
  <1> DEFINE M == Matching(search)
             L == Listable
  <1>1. M \in SUBSET L /\ L \in SUBSET Documents
    BY DEF Matching, Listable
  <1> HIDE DEF M, L
  <1>2. IsFiniteSet(L) /\ Cardinality(L) \in Nat
    BY <1>1, CollectionAssumption, FS_Subset, FS_CardinalityType
  <1>3. IsFiniteSet(M) /\ Cardinality(M) \in Nat /\ Cardinality(M) <= Cardinality(L)
    BY <1>1, <1>2, FS_Subset, FS_CardinalityType
  <1>4. Cardinality(L) + MaxPerPage < HalfRange
    BY CollectionAssumption DEF L
  <1>5. Cardinality(M) + MaxPerPage < HalfRange
    BY <1>2, <1>3, <1>4, ListAssumption
  <1> QED
    BY <1>1, <1>3, <1>5 DEF M

(* A sorted sequence has every match once, each before those after it.      *)
LEMMA ArrangementShape ==
  ASSUME NEW sort, NEW M, M \subseteq Documents, IsFiniteSet(M),
         NEW s \in Arrangements(sort, M)
  PROVE  /\ s \in Seq(M) /\ Len(s) = Cardinality(M) /\ Cardinality(M) \in Nat
         /\ \A i, j \in 1 .. Cardinality(M) : s[i] = s[j] => i = j
         /\ \A d \in M : \E i \in 1 .. Cardinality(M) : s[i] = d
         /\ \A i, j \in 1 .. Cardinality(M) : i < j <=> Before(sort, s[i], s[j])
  <1> DEFINE N == Cardinality(M)
             D == 1 .. N
  <1>1. N \in Nat
    BY FS_CardinalityType
  <1>2. s \in SetToSeqs(M) /\ \A i, j \in DOMAIN s : Before(sort, s[i], s[j]) => i < j
    BY DEF Arrangements
  <1>3. s \in [D -> M] /\ \A i, j \in D : i # j => s[i] # s[j]
    BY <1>2 DEF SetToSeqs
  <1>4. IsFiniteSet(D) /\ Cardinality(D) = N
    <2> HIDE DEF N
    <2>1. IsFiniteSet(1 .. N) /\ Cardinality(1 .. N) = IF 1 > N THEN 0 ELSE N - 1 + 1
      BY <1>1, FS_Interval
    <2> QED
      BY <1>1, <2>1
  <1>5. s \in Injection(D, M) /\ Cardinality(D) = Cardinality(M)
    BY <1>3, <1>4 DEF Injection, IsInjective
  <1> HIDE DEF D
  <1>6. s \in Surjection(D, M)
    BY <1>5, FS_Injection
  <1>7. \A d \in M : \E i \in D : s[i] = d
    BY <1>6 DEF Surjection
  <1>8. \A i, j \in D : i < j <=> Before(sort, s[i], s[j])
    <2> SUFFICES ASSUME NEW i \in D, NEW j \in D
                 PROVE  i < j <=> Before(sort, s[i], s[j])
      OBVIOUS
    <2>1. i \in Nat /\ j \in Nat /\ DOMAIN s = D
      BY <1>1, <1>3 DEF D
    <2>2. Before(sort, s[i], s[j]) => i < j
      BY <1>2, <2>1
    <2>3. Before(sort, s[j], s[i]) => j < i
      BY <1>2, <2>1
    <2>4. i # j => Before(sort, s[i], s[j]) \/ Before(sort, s[j], s[i])
      BY <1>3, BeforeTotal
    <2> QED
      BY <2>1, <2>2, <2>3, <2>4
  <1>9. s \in Seq(M) /\ Len(s) = N
    <2> HIDE DEF N
    <2> QED
      BY <1>1, <1>3 DEF D
  <1> QED
    BY <1>1, <1>3, <1>7, <1>8, <1>9 DEF D

-----------------------------------------------------------------------------
(* Ranks: how many matches come before one.                                 *)

Rank(sort, M, d) == Cardinality({e \in M : Before(sort, e, d)})

LEMMA RankType ==
  ASSUME NEW sort, NEW M, IsFiniteSet(M), NEW d
  PROVE  Rank(sort, M, d) \in Nat
  <1> DEFINE E == {e \in M : Before(sort, e, d)}
  <1>1. E \subseteq M
    OBVIOUS
  <1> HIDE DEF E
  <1>2. Cardinality(E) \in Nat
    BY <1>1, FS_Subset, FS_CardinalityType
  <1> QED
    BY <1>2 DEF Rank, E

LEMMA BeforeTransitive ==
  ASSUME NEW sort, NEW d \in Documents, NEW e \in Documents, NEW f \in Documents,
         Before(sort, d, e), Before(sort, e, f)
  PROVE  Before(sort, d, f)
  <1>1. /\ Place(sort, d) \in Nat /\ Place(sort, e) \in Nat
        /\ Place(sort, f) \in Nat /\ d.id \in Nat /\ e.id \in Nat /\ f.id \in Nat
    BY ListAssumption DEF Place
  <1> QED
    BY <1>1 DEF Before, KeyBefore

(* What comes first ranks lower, so that no two matches share a rank.       *)
LEMMA RankRises ==
  ASSUME NEW sort, NEW M, M \subseteq Documents, IsFiniteSet(M),
         NEW d \in M, NEW e \in M, Before(sort, d, e)
  PROVE  Rank(sort, M, d) < Rank(sort, M, e)
  <1> DEFINE E == {x \in M : Before(sort, x, d)}
             F == {x \in M : Before(sort, x, e)}
  <1>1. d \notin E
    <2>1. ~Before(sort, d, d)
      <3>1. Place(sort, d) \in Nat /\ d.id \in Nat
        BY ListAssumption DEF Place
      <3> QED
        BY <3>1 DEF Before, KeyBefore
    <2> QED
      BY <2>1
  <1>2. E \cup {d} \subseteq F /\ F \subseteq M /\ E \subseteq M
    BY BeforeTransitive
  <1> HIDE DEF E, F
  <1>3. IsFiniteSet(F) /\ IsFiniteSet(E) /\ Cardinality(E) \in Nat
    BY <1>2, FS_Subset, FS_CardinalityType
  <1>4. Cardinality(E \cup {d}) = Cardinality(E) + 1
    BY <1>1, <1>3, FS_AddElement
  <1>5. Cardinality(E \cup {d}) <= Cardinality(F) /\ Cardinality(F) \in Nat
    BY <1>2, <1>3, FS_Subset, FS_CardinalityType
  <1> QED
    BY <1>3, <1>4, <1>5 DEF Rank, E, F

(* Without one match, those after it rank one lower.                        *)
LEMMA RankWithout ==
  ASSUME NEW sort, NEW M, M \subseteq Documents, IsFiniteSet(M),
         NEW d \in M, NEW e \in M
  PROVE  /\ Rank(sort, M \ {d}, e) \in Nat
         /\ Before(sort, d, e) => Rank(sort, M, e) = Rank(sort, M \ {d}, e) + 1
         /\ ~Before(sort, d, e) => Rank(sort, M, e) = Rank(sort, M \ {d}, e)
  <1> DEFINE E == {x \in M \ {d} : Before(sort, x, e)}
             F == {x \in M : Before(sort, x, e)}
  <1>1. /\ d \notin E /\ E \subseteq M
        /\ Before(sort, d, e) => F = E \cup {d}
        /\ ~Before(sort, d, e) => F = E
    OBVIOUS
  <1> HIDE DEF E, F
  <1>2. IsFiniteSet(E) /\ Cardinality(E) \in Nat
    BY <1>1, FS_Subset, FS_CardinalityType
  <1>3. Cardinality(E \cup {d}) = Cardinality(E) + 1
    BY <1>1, <1>2, FS_AddElement
  <1> QED
    BY <1>1, <1>2, <1>3 DEF Rank, E, F

(* Another match can only push one to a later rank.                         *)
LEMMA RankGrows ==
  ASSUME NEW sort, NEW M, NEW O, M \subseteq O, IsFiniteSet(O), NEW d
  PROVE  Rank(sort, M, d) <= Rank(sort, O, d)
  <1> DEFINE E == {e \in M : Before(sort, e, d)}
             F == {e \in O : Before(sort, e, d)}
  <1>1. E \subseteq F /\ F \subseteq O
    OBVIOUS
  <1> HIDE DEF E, F
  <1>2. Cardinality(E) <= Cardinality(F)
    BY <1>1, FS_Subset
  <1> QED
    BY <1>2 DEF Rank, E, F

LEMMA RankOf ==
  ASSUME NEW sort, NEW M, M \subseteq Documents, IsFiniteSet(M),
         NEW s \in Arrangements(sort, M), NEW k \in 1 .. Cardinality(M)
  PROVE  Rank(sort, M, s[k]) = k - 1
  <1> DEFINE N == Cardinality(M)
             E == {e \in M : Before(sort, e, s[k])}
             D == 1 .. k - 1
             f == [j \in D |-> s[j]]
  <1>1. /\ s \in Seq(M) /\ Len(s) = N /\ N \in Nat
        /\ \A i, j \in 1 .. N : s[i] = s[j] => i = j
        /\ \A d \in M : \E i \in 1 .. N : s[i] = d
        /\ \A i, j \in 1 .. N : i < j <=> Before(sort, s[i], s[j])
    BY ArrangementShape
  <1>2. k \in Nat \ {0} /\ k \in 1 .. N /\ \A j \in D : j \in 1 .. N /\ j < k
    BY <1>1
  <1> HIDE DEF N, D
  <1>3. \A j \in D : f[j] \in E
    BY <1>1, <1>2
  <1>4. \A e \in E : \E j \in D : f[j] = e
    <2> SUFFICES ASSUME NEW e \in E
                 PROVE  \E j \in D : f[j] = e
      OBVIOUS
    <2>1. PICK j \in 1 .. N : s[j] = e
      BY <1>1
    <2>2. j < k /\ j \in Nat \ {0}
      BY <1>1, <1>2, <2>1
    <2>3. j \in D
      BY <1>2, <2>2 DEF D
    <2> QED
      BY <2>1, <2>3
  <1>5. \A i, j \in D : f[i] = f[j] => i = j
    BY <1>1, <1>2
  <1> HIDE DEF E
  <1>6. f \in [D -> E]
    BY <1>3
  <1>7. f \in Bijection(D, E)
    BY <1>4, <1>5, <1>6 DEF Bijection, Injection, Surjection, IsInjective
  <1>8. IsFiniteSet(D) /\ Cardinality(D) = k - 1
    <2>1. 1 \in Int /\ k - 1 \in Int /\ k - 1 >= 0
      BY <1>2
    <2>2. /\ IsFiniteSet(1 .. k - 1)
          /\ Cardinality(1 .. k - 1) = IF 1 > k - 1 THEN 0 ELSE (k - 1) - 1 + 1
      BY <2>1, FS_Interval
    <2> QED
      BY <1>2, <2>2 DEF D
  <1> HIDE DEF f
  <1>9. Cardinality(E) = Cardinality(D)
    BY <1>7, <1>8, FS_Bijection DEF ExistsBijection
  <1> QED
    BY <1>8, <1>9 DEF Rank, E

(* $sort leaves nothing open: there is one sorted sequence.                 *)
LEMMA UniqueArrangement ==
  ASSUME NEW sort, NEW M, M \subseteq Documents, IsFiniteSet(M),
         NEW s \in Arrangements(sort, M), NEW t \in Arrangements(sort, M)
  PROVE  s = t
  <1> DEFINE N == Cardinality(M)
  <1>1. /\ s \in Seq(M) /\ Len(s) = N /\ N \in Nat
    BY ArrangementShape
  <1>2. /\ t \in Seq(M) /\ Len(t) = N
        /\ \A d \in M : \E i \in 1 .. N : t[i] = d
    BY ArrangementShape
  <1>3. ASSUME NEW i \in 1 .. N
        PROVE  s[i] = t[i]
    <2>1. s[i] \in M
      BY <1>1
    <2>2. PICK j \in 1 .. N : t[j] = s[i]
      BY <1>2, <2>1
    <2>3. Rank(sort, M, s[i]) = i - 1 /\ Rank(sort, M, t[j]) = j - 1
      BY RankOf
    <2>4. i = j
      BY <1>1, <2>2, <2>3
    <2> QED
      BY <2>2, <2>4
  <1> HIDE DEF N
  <1> QED
    BY <1>1, <1>2, <1>3, SeqEqual

-----------------------------------------------------------------------------
(* One page of a sorted sequence.                                           *)

LEMMA MinOf ==
  ASSUME NEW a \in Int, NEW b \in Int
  PROVE  Min({a, b}) = IF a <= b THEN a ELSE b
  BY DEF Min

LEMMA WindowRows ==
  ASSUME NEW S, NEW s \in Seq(S), NEW skip \in Nat, NEW n \in Nat \ {0}
  PROVE  /\ Window(s, skip, n) \in Seq(S)
         /\ Len(Window(s, skip, n)) <= n
         /\ Len(s) <= skip => Window(s, skip, n) = <<>>
         /\ skip < Len(s) => Window(s, skip, n) # <<>>
         /\ \A i \in Nat : skip < i /\ i <= skip + n /\ i <= Len(s)
                             => s[i] \in ToSet(Window(s, skip, n))
  <1> DEFINE m == Min({skip + n, Len(s)})
             w == SubSeq(s, skip + 1, m)
  <1>1. Len(s) \in Nat
    OBVIOUS
  <1>2. m = IF skip + n <= Len(s) THEN skip + n ELSE Len(s)
    BY <1>1, MinOf
  <1> HIDE DEF m
  <1>3. m \in Nat /\ m <= Len(s) /\ m <= skip + n
        /\ (Len(s) <= skip => m <= skip) /\ (skip < Len(s) => skip + 1 <= m)
        /\ \A i \in Nat : i <= skip + n /\ i <= Len(s) => i <= m
    BY <1>1, <1>2
  <1>4. \A i \in skip + 1 .. m : s[i] \in S
    BY <1>1, <1>3
  <1>5. /\ w \in Seq(S)
        /\ Len(w) = IF skip + 1 <= m THEN m - (skip + 1) + 1 ELSE 0
        /\ \A i \in 1 .. m - (skip + 1) + 1 : w[i] = s[skip + 1 + i - 1]
    BY <1>3, <1>4, SubSeqProperties
  <1> HIDE DEF w
  <1>6. Len(w) <= n
    BY <1>3, <1>5
  <1>7. (Len(s) <= skip => w = <<>>) /\ (skip < Len(s) => w # <<>>)
    <2>1. Len(s) <= skip => Len(w) = 0
      BY <1>1, <1>3, <1>5
    <2>2. skip < Len(s) => Len(w) # 0
      BY <1>1, <1>3, <1>5
    <2> QED
      BY <1>5, <2>1, <2>2
  <1>8. ASSUME NEW i \in Nat, skip < i, i <= skip + n, i <= Len(s)
        PROVE  s[i] \in ToSet(w)
    <2>1. i - skip \in 1 .. m - (skip + 1) + 1 /\ i - skip \in 1 .. Len(w)
      BY <1>3, <1>5, <1>8
    <2>2. w[i - skip] = s[skip + 1 + (i - skip) - 1]
      BY <1>5, <2>1
    <2>3. skip + 1 + (i - skip) - 1 = i
      BY <1>8
    <2> QED
      BY <1>5, <2>1, <2>2, <2>3 DEF ToSet
  <1> QED
    BY <1>5, <1>6, <1>7, <1>8 DEF Window, w, m

(* The next page continues where the pages before it ended.                 *)
LEMMA WindowsJoin ==
  ASSUME NEW S, NEW s \in Seq(S), NEW k \in Nat, NEW n \in Nat
  PROVE  Window(s, 0, k) \o Window(s, k, n) = Window(s, 0, k + n)
  <1> DEFINE a == Min({k, Len(s)})
             b == Min({k + n, Len(s)})
             u == SubSeq(s, 1, a)
             v == SubSeq(s, k + 1, b)
             w == SubSeq(s, 1, b)
  <1>1. Len(s) \in Nat
    OBVIOUS
  <1>2. /\ a = IF k <= Len(s) THEN k ELSE Len(s)
        /\ b = IF k + n <= Len(s) THEN k + n ELSE Len(s)
    BY <1>1, MinOf
  <1> HIDE DEF a, b
  <1>3. a \in Nat /\ b \in Nat /\ a <= Len(s) /\ b <= Len(s) /\ a <= b
        /\ (k + 1 <= b => a = k) /\ (b < k + 1 => a = b)
    BY <1>1, <1>2
  <1>4. /\ \A i \in 1 .. a : s[i] \in S
        /\ \A i \in 1 .. b : s[i] \in S
        /\ \A i \in k + 1 .. b : s[i] \in S
    BY <1>1, <1>3
  <1>5. /\ u \in Seq(S)
        /\ Len(u) = IF 1 <= a THEN a - 1 + 1 ELSE 0
        /\ \A i \in 1 .. a - 1 + 1 : u[i] = s[1 + i - 1]
    BY <1>3, <1>4, SubSeqProperties
  <1>6. /\ w \in Seq(S)
        /\ Len(w) = IF 1 <= b THEN b - 1 + 1 ELSE 0
        /\ \A i \in 1 .. b - 1 + 1 : w[i] = s[1 + i - 1]
    BY <1>3, <1>4, SubSeqProperties
  <1>7. /\ v \in Seq(S)
        /\ Len(v) = IF k + 1 <= b THEN b - (k + 1) + 1 ELSE 0
        /\ \A i \in 1 .. b - (k + 1) + 1 : v[i] = s[k + 1 + i - 1]
    BY <1>3, <1>4, SubSeqProperties
  <1> HIDE DEF u, v, w
  <1>8. Len(u) = a /\ Len(w) = b /\ Len(u) + Len(v) = b
    BY <1>3, <1>5, <1>6, <1>7
  <1>9. /\ u \o v \in Seq(S) /\ Len(u \o v) = b
        /\ \A i \in 1 .. b : (u \o v)[i] = IF i <= a THEN u[i] ELSE v[i - a]
    <2>1. /\ u \o v \in Seq(S) /\ Len(u \o v) = Len(u) + Len(v)
          /\ \A i \in 1 .. Len(u) + Len(v) :
               (u \o v)[i] = IF i <= Len(u) THEN u[i] ELSE v[i - Len(u)]
      BY <1>5, <1>7, ConcatProperties
    <2> QED
      BY <1>8, <2>1
  <1>10. ASSUME NEW i \in 1 .. b
         PROVE  (u \o v)[i] = w[i]
    <2>1. w[i] = s[i]
      BY <1>3, <1>6
    <2>2. CASE i <= a
      <3>1. u[i] = s[i]
        BY <1>3, <1>5, <2>2
      <3> QED
        BY <1>9, <2>1, <2>2, <3>1
    <2>3. CASE ~ (i <= a)
      <3>1. a = k /\ i - k \in 1 .. b - (k + 1) + 1
        BY <1>3, <2>3
      <3>2. v[i - k] = s[k + 1 + (i - k) - 1] /\ k + 1 + (i - k) - 1 = i
        BY <1>7, <3>1
      <3> QED
        BY <1>9, <2>1, <2>3, <3>1, <3>2
    <2> QED
      BY <2>2, <2>3
  <1>11. u \o v = w
    BY <1>6, <1>8, <1>9, <1>10, SeqEqual
  <1>12. 0 + 1 = 1 /\ 0 + k = k /\ 0 + (k + n) = k + n
    OBVIOUS
  <1>13. /\ Window(s, 0, k) = u /\ Window(s, k, n) = v
         /\ Window(s, 0, k + n) = w
    BY <1>12 DEF Window, a, b, u, v, w
  <1> QED
    BY <1>11, <1>13

LEMMA WindowEnds ==
  ASSUME NEW S, NEW s \in Seq(S), NEW k \in Nat
  PROVE  /\ Len(s) <= k => Window(s, 0, k) = s
         /\ Window(s, 0, 0) = <<>>
  <1>1. Len(s) \in Nat /\ (Len(s) <= k => Min({0 + k, Len(s)}) = Len(s))
        /\ Min({0 + 0, Len(s)}) = 0
    BY MinOf
  <1> QED
    BY <1>1 DEF Window

-----------------------------------------------------------------------------
(* The invariant. A walk has shown what ranks before its next page, as long *)
(* as nothing changes; what is added only moves others to later ranks, what *)
(* is archived moves one of them at most before the next page.              *)

Shown == Matching(request.search)
Size == PerPage(Parsed(request.perPage))
Reached == (page - 1) * Size

WalkTypes ==
    /\ AnswerTypeOK
    /\ before \subseteq Documents /\ stored \subseteq Documents
    /\ page \in Nat \ {0} /\ seen \in Seq(Documents)
    /\ phase = "idle" => /\ page = 1 /\ seen = <<>> /\ stored = before
                         /\ archived = 0
    /\ phase \in {"walking", "walked"} =>
         request.sort \in listSortKeys /\ request.perPage # Malformed

(* The skip cannot wrap.                                                    *)
WithinRange == phase = "walking" => Reached < Cardinality(Listable) + Size

(* What was a match when the walk began, and the part of it the walk has    *)
(* not shown and will not show: it is gone, or ranks before the next page.  *)
Wanted == {d \in before : /\ d.live /\ ~d.deleted
                          /\ request.search = "" \/ request.search \in d.contains}

Missed == {d \in Wanted : /\ d \notin ToSet(seen)
                          /\ d \in stored => Rank(request.sort, Shown, d) < Reached}

FewLeftBehind ==
    phase \in {"walking", "walked"} =>
        /\ Cardinality(Missed) <= archived
        /\ phase = "walked" => Skipped \subseteq Missed

SeenInOrder ==
    Unchanging =>
        /\ phase = "walking" =>
             \A s \in Arrangements(request.sort, Shown) : seen = Window(s, 0, Reached)
        /\ phase = "walked" =>
             /\ seen \in Arrangements(request.sort, Shown)
             /\ answer.total = Cardinality(Shown)

WalkInv == WalkTypes /\ WithinRange /\ FewLeftBehind /\ SeenInOrder

ListableFinite == IsFiniteSet(Listable) /\ Cardinality(Listable) \in Nat

LEMMA ListableIsFinite == ListableFinite
  BY CollectionAssumption, FS_Subset, FS_CardinalityType
  DEF Listable, ListableFinite

(* Answers to requests, and to those of a walk.                             *)
LEMMA AnswerShape ==
  ASSUME stored \subseteq Documents,
         NEW r \in [search : SearchTerms, sort : Sorts,
                    page : RawNumbers \cup 1 .. HalfRange - 1, perPage : RawNumbers],
         NEW a \in Answers(r)
  PROVE  /\ a.status \in {"ok", "invalid_request", "query_failed"}
         /\ a.rows \in Seq(Documents)
         /\ a.status = "ok" =>
              /\ a.page \in 1 .. HalfRange - 1
              /\ a.perPage \in 1 .. MaxPerPage
              /\ a.total \in Nat
              /\ Len(a.rows) <= a.perPage
  <1> DEFINE p == Page(Parsed(r.page))
             n == PerPage(Parsed(r.perPage))
             M == Matching(r.search)
             k == Skip(p, n)
  <1> HIDE DEF p, n, M, k
  <1>1. \/ a = Refusal("invalid_request")
        \/ a = Refusal("query_failed")
        \/ /\ r.page # Malformed /\ r.perPage # Malformed /\ ~(k < 0)
           /\ \E s \in Arrangements(r.sort, M) :
                a = Answer("ok", p, n, Total(M, Window(s, k, n)), Window(s, k, n))
    BY DEF Answers, p, n, M, k
  <1>2. CASE a = Refusal("invalid_request") \/ a = Refusal("query_failed")
    <2>1. /\ a.status \in {"invalid_request", "query_failed"} /\ a.rows = <<>>
      BY <1>2 DEF Refusal, Answer
    <2>2. <<>> \in Seq(Documents)
      OBVIOUS
    <2> QED
      BY <2>1, <2>2
  <1>3. CASE /\ r.page # Malformed /\ r.perPage # Malformed /\ ~(k < 0)
             /\ \E s \in Arrangements(r.sort, M) :
                  a = Answer("ok", p, n, Total(M, Window(s, k, n)), Window(s, k, n))
    <2>1. PICK s \in Arrangements(r.sort, M) :
            a = Answer("ok", p, n, Total(M, Window(s, k, n)), Window(s, k, n))
      BY <1>3
    <2>2. r.page \in RawNumbers \cup 1 .. HalfRange - 1 /\ r.perPage \in RawNumbers
      OBVIOUS
    <2>3. p \in 1 .. HalfRange - 1
      <3>1. CASE r.page \in RawNumbers
        BY <1>3, <3>1, ParamTypes DEF p
      <3>2. CASE r.page \in 1 .. HalfRange - 1
        BY <3>2, ListAssumption DEF p, Page, Parsed
      <3> QED
        BY <2>2, <3>1, <3>2
    <2>4. n \in 1 .. MaxPerPage /\ n \in Nat \ {0}
      <3>1. n \in 1 .. MaxPerPage
        BY <1>3, <2>2, ParamTypes DEF n
      <3> QED
        BY <3>1, Limits
    <2>5. k \in Nat
      BY <1>3, <2>3, <2>4, SkipType, ListAssumption DEF k
    <2>6. /\ IsFiniteSet(M) /\ M \subseteq Documents /\ Cardinality(M) \in Nat
      BY MatchingFinite DEF M
    <2>7. s \in Seq(Documents)
      BY <2>6, ArrangementShape
    <2>8. Window(s, k, n) \in Seq(Documents) /\ Len(Window(s, k, n)) <= n
      BY <2>4, <2>5, <2>7, WindowRows
    <2> DEFINE w == Window(s, k, n)
    <2> HIDE DEF w
    <2>9. /\ a.status = "ok" /\ a.page = p /\ a.perPage = n
          /\ a.total = Cardinality(M) /\ a.rows = w
      BY <2>1 DEF Answer, Total, w
    <2> QED
      BY <2>3, <2>4, <2>6, <2>8, <2>9 DEF w
  <1> QED
    BY <1>1, <1>2, <1>3

LEMMA SizeType ==
  ASSUME WalkTypes, phase \in {"walking", "walked"}
  PROVE  Size \in 1 .. MaxPerPage /\ Size \in Nat \ {0}
  <1>1. request.perPage \in RawNumbers /\ request.perPage # Malformed
    BY DEF WalkTypes, AnswerTypeOK, Request
  <1> QED
    <2>1. PerPage(Parsed(request.perPage)) \in 1 .. MaxPerPage
      BY <1>1, ParamTypes
    <2> QED
      BY <2>1, Limits DEF Size

(* A walk reaches neither an overflow nor the largest page.                 *)
LEMMA ReachedFits ==
  ASSUME WalkTypes, WithinRange, phase = "walking"
  PROVE  /\ Skip(page, Size) = Reached /\ Reached \in Nat
         /\ page \in 1 .. HalfRange - 1
         /\ page * Size = Reached + Size
  <1> DEFINE N == Cardinality(Listable)
  <1>1. Size \in 1 .. MaxPerPage /\ Size \in Nat \ {0}
    BY SizeType
  <1>2. page \in Nat \ {0}
    BY DEF WalkTypes
  <1>3. N \in Nat /\ N + MaxPerPage < HalfRange
    BY CollectionAssumption, ListableIsFinite DEF ListableFinite
  <1>4. Reached < N + Size
    BY DEF WithinRange
  <1> HIDE DEF N
  <1>5. Reached \in Nat /\ page - 1 <= Reached /\ page * Size = Reached + Size
    <2> DEFINE q == page - 1
               z == Size
    <2>1. q \in Nat /\ z \in Nat \ {0} /\ page = q + 1
      BY <1>1, <1>2
    <2> HIDE DEF q, z
    <2>2. q * z \in Nat /\ q <= q * z /\ (q + 1) * z = q * z + z
      BY <2>1
    <2> QED
      BY <2>1, <2>2 DEF Reached, q, z
  <1>6. Reached < HalfRange
    BY <1>1, <1>3, <1>4, <1>5, ListAssumption
  <1>7. Skip(page, Size) = Reached
    BY <1>1, <1>2, <1>6, SkipExact DEF Reached
  <1>8. page \in 1 .. HalfRange - 1
    BY <1>1, <1>2, <1>3, <1>4, <1>5, ListAssumption
  <1> QED
    BY <1>5, <1>7, <1>8

LEMMA WalkAnswer ==
  ASSUME WalkTypes, WithinRange, phase = "walking",
         NEW a \in Answers([request EXCEPT !.page = page])
  PROVE  \E s \in Arrangements(request.sort, Shown) :
           a = Answer("ok", page, Size, Cardinality(Shown), Window(s, Reached, Size))
  <1> DEFINE r == [request EXCEPT !.page = page]
  <1>1. /\ request \in Request /\ page \in Nat \ {0}
        /\ request.sort \in listSortKeys /\ request.perPage # Malformed
    BY DEF WalkTypes, AnswerTypeOK
  <1>2. /\ r.page = page /\ r.perPage = request.perPage
        /\ r.sort = request.sort /\ r.search = request.search
    BY <1>1 DEF Request
  <1> HIDE DEF r
  <1>3. page # Malformed /\ Page(Parsed(page)) = page
    BY <1>1, ListAssumption DEF Page, Parsed
  <1>4. Skip(page, Size) = Reached /\ Reached \in Nat
    BY ReachedFits
  <1>5. ~(Reached < 0)
    BY <1>4
  <1>6. a \in Answers(r)
    BY DEF r
  <1>7. Answers(r) = {Answer("ok", page, Size, Total(Shown, Window(s, Reached, Size)),
                             Window(s, Reached, Size)) :
                        s \in Arrangements(request.sort, Shown)}
    BY <1>1, <1>2, <1>3, <1>4, <1>5 DEF Answers, Size, Shown
  <1> QED
    BY <1>6, <1>7 DEF Total

-----------------------------------------------------------------------------
(* The invariant is inductive.                                              *)

LEMMA ShownFinite ==
  ASSUME WalkTypes
  PROVE  /\ IsFiniteSet(Shown) /\ Shown \subseteq Documents
         /\ Cardinality(Shown) \in Nat
  <1>1. stored \subseteq Documents
    BY DEF WalkTypes
  <1> QED
    BY <1>1, MatchingFinite DEF Shown

LEMMA MissedFinite ==
  ASSUME WalkTypes
  PROVE  /\ IsFiniteSet(Missed) /\ Cardinality(Missed) \in Nat
         /\ \A X : X \subseteq Missed =>
              IsFiniteSet(X) /\ Cardinality(X) <= Cardinality(Missed)
                /\ Cardinality(X) \in Nat
  <1>1. Missed \subseteq Documents
    BY DEF Missed, Wanted, WalkTypes
  <1> HIDE DEF Missed
  <1> QED
    BY <1>1, CollectionAssumption, FS_Subset, FS_CardinalityType

LEMMA InitWalk == Init => WalkInv
  <1> SUFFICES ASSUME Init
               PROVE  WalkInv
    OBVIOUS
  <1>1. /\ answer.status = "none" /\ phase = "idle" /\ page = 1 /\ seen = <<>>
        /\ request \in Request /\ stored = before /\ stored \subseteq Documents
        /\ added = 0 /\ archived = 0
    BY DEF Init, Refusal, Answer
  <1>2. WalkTypes
    BY <1>1 DEF WalkTypes, AnswerTypeOK
  <1>3. WithinRange /\ FewLeftBehind /\ SeenInOrder
    BY <1>1 DEF WithinRange, FewLeftBehind, SeenInOrder
  <1> QED
    BY <1>2, <1>3 DEF WalkInv

LEMMA AskWalk ==
  ASSUME WalkInv, Ask
  PROVE  WalkInv'
  <1>1. WalkTypes
    BY DEF WalkInv
  <1>2. /\ phase' = "asked" /\ answer' \in Answers(request)
        /\ UNCHANGED <<stored, before, added, archived, request, page, seen>>
    BY DEF Ask, collection
  <1>3. request \in [search : SearchTerms, sort : Sorts,
                     page : RawNumbers \cup 1 .. HalfRange - 1, perPage : RawNumbers]
    BY <1>1 DEF WalkTypes, AnswerTypeOK, Request
  <1>4. stored \subseteq Documents
    BY <1>1 DEF WalkTypes
  <1>5. /\ answer'.status \in {"ok", "invalid_request", "query_failed"}
        /\ answer'.rows \in Seq(Documents)
        /\ answer'.status = "ok" =>
             /\ answer'.page \in 1 .. HalfRange - 1
             /\ answer'.perPage \in 1 .. MaxPerPage
             /\ answer'.total \in Nat
             /\ Len(answer'.rows) <= answer'.perPage
    BY <1>2, <1>3, <1>4, AnswerShape
  <1>6. AnswerTypeOK'
    BY <1>1, <1>2, <1>5 DEF WalkTypes, AnswerTypeOK
  <1>7. WalkTypes'
    BY <1>1, <1>2, <1>6 DEF WalkTypes
  <1>8. (WithinRange /\ FewLeftBehind /\ SeenInOrder)'
    BY <1>2 DEF WithinRange, FewLeftBehind, SeenInOrder
  <1> QED
    BY <1>7, <1>8 DEF WalkInv

LEMMA StartWalk ==
  ASSUME WalkInv, Walk
  PROVE  WalkInv'
  <1>1. WalkTypes
    BY DEF WalkInv
  <1>2. /\ phase = "idle" /\ phase' = "walking"
        /\ request.sort \in listSortKeys /\ request.perPage # Malformed
        /\ UNCHANGED <<stored, before, added, archived, request, answer, page,
                       seen>>
    BY DEF Walk, collection
  <1>3. page = 1 /\ seen = <<>> /\ page' = 1 /\ seen' = <<>>
    BY <1>1, <1>2 DEF WalkTypes
  <1>4. WalkTypes'
    BY <1>1, <1>2, <1>3 DEF WalkTypes, AnswerTypeOK
  <1>5. Shown' = Shown /\ request' = request
    BY <1>2 DEF Shown, Matching
  <1>6. Size' \in Nat \ {0}
    <2>1. request'.perPage \in RawNumbers /\ request'.perPage # Malformed
      BY <1>1, <1>2 DEF WalkTypes, AnswerTypeOK, Request
    <2>2. PerPage(Parsed(request'.perPage)) \in 1 .. MaxPerPage
      BY <2>1, ParamTypes
    <2> QED
      BY <2>2, Limits DEF Size
  <1>7. Reached' = 0
    <2>1. \A z \in Nat : (1 - 1) * z = 0
      OBVIOUS
    <2> QED
      BY <1>3, <1>6, <2>1 DEF Reached
  <1>8. WithinRange'
    BY <1>6, <1>7, ListableIsFinite DEF WithinRange, ListableFinite
  <1>9. FewLeftBehind'
    <2>1. \A d : ~(Rank(request.sort, Shown, d) < 0)
      BY <1>1, ShownFinite, RankType
    <2>2. Wanted' \subseteq stored'
      BY <1>1, <1>2 DEF WalkTypes, Wanted
    <2>3. Missed' = {}
      BY <1>5, <1>7, <2>1, <2>2 DEF Missed
    <2>4. Cardinality({}) = 0
      BY FS_EmptySet
    <2> QED
      BY <1>1, <1>2, <2>3, <2>4 DEF FewLeftBehind, WalkTypes
  <1>10. SeenInOrder'
    <2>1. \A s \in Arrangements(request.sort, Shown) : Window(s, 0, 0) = <<>>
      BY <1>1, ShownFinite, ArrangementShape, WindowEnds
    <2> QED
      BY <1>2, <1>3, <1>5, <1>7, <2>1 DEF SeenInOrder
  <1> QED
    BY <1>4, <1>8, <1>9, <1>10 DEF WalkInv

(* Either change of the collection leaves the walk where it is.             *)
LEMMA ChangeWalk ==
  ASSUME WalkInv, NEW d \in Documents, Add(d) \/ Archive(d)
  PROVE  /\ WalkTypes /\ WalkTypes' /\ WithinRange' /\ SeenInOrder'
         /\ phase = "walking" /\ phase' = "walking"
         /\ Wanted' = Wanted /\ seen' = seen /\ request' = request
         /\ Reached' = Reached /\ Reached \in Nat
  <1>1. WalkTypes
    BY DEF WalkInv
  <1>2. /\ phase = "walking" /\ stored' \subseteq Documents
        /\ UNCHANGED <<before, phase, request, answer, page, seen>>
    BY <1>1 DEF Add, Archive, WalkTypes
  <1>3. added \in Nat /\ archived \in Nat /\ ~Unchanging'
        /\ added' \in Nat /\ archived' \in Nat
    BY <1>1 DEF Add, Archive, WalkTypes, AnswerTypeOK, Unchanging
  <1>4. WalkTypes'
    BY <1>1, <1>2, <1>3 DEF WalkTypes, AnswerTypeOK
  <1>5. Size' = Size /\ Reached' = Reached /\ Wanted' = Wanted
    BY <1>2 DEF Size, Reached, Wanted
  <1>6. Reached \in Nat
    BY <1>1, <1>2, ReachedFits DEF WalkInv
  <1>7. WithinRange'
    BY <1>2, <1>5 DEF WalkInv, WithinRange
  <1>8. SeenInOrder'
    BY <1>3 DEF SeenInOrder
  <1> QED
    BY <1>1, <1>2, <1>4, <1>5, <1>6, <1>7, <1>8

LEMMA AddWalk ==
  ASSUME WalkInv, NEW d \in Documents, Add(d)
  PROVE  WalkInv'
  <1>1. /\ WalkTypes /\ WalkTypes' /\ WithinRange' /\ SeenInOrder'
        /\ phase = "walking" /\ phase' = "walking"
        /\ Wanted' = Wanted /\ seen' = seen /\ request' = request
        /\ Reached' = Reached /\ Reached \in Nat
    BY ChangeWalk
  <1>2. d \notin stored /\ stored' = stored \cup {d} /\ archived' = archived
    BY DEF Add
  <1>3. Shown \subseteq Shown'
    BY <1>1, <1>2 DEF Shown, Matching
  <1>4. IsFiniteSet(Shown')
    <2>1. Shown' \in SUBSET Documents
      BY <1>1 DEF Shown, Matching, WalkTypes
    <2> QED
      BY <2>1, CollectionAssumption, FS_Subset
  <1>5. ASSUME NEW e \in Missed'
        PROVE  e \in Missed
    <2>1. e \in Wanted /\ e \notin ToSet(seen)
      BY <1>1, <1>5 DEF Missed
    <2>2. ASSUME e \in stored
          PROVE  Rank(request.sort, Shown, e) < Reached
      <3>1. Rank(request.sort, Shown', e) < Reached
        BY <1>1, <1>2, <1>5, <2>2 DEF Missed
      <3>2. Rank(request.sort, Shown, e) <= Rank(request.sort, Shown', e)
        BY <1>3, <1>4, RankGrows
      <3>3. /\ Rank(request.sort, Shown, e) \in Nat
            /\ Rank(request.sort, Shown', e) \in Nat
        BY <1>1, <1>4, ShownFinite, RankType
      <3> QED
        BY <1>1, <3>1, <3>2, <3>3
    <2> QED
      BY <2>1, <2>2 DEF Missed
  <1>6. Cardinality(Missed') <= archived'
    <2>1. archived \in Nat /\ Cardinality(Missed) <= archived
      BY <1>1 DEF WalkInv, FewLeftBehind, WalkTypes, AnswerTypeOK
    <2>2. PICK X : X = Missed'
      OBVIOUS
    <2>3. /\ Cardinality(X) <= Cardinality(Missed) /\ Cardinality(X) \in Nat
          /\ Cardinality(Missed) \in Nat
      BY <1>1, <1>5, <2>2, MissedFinite
    <2> QED
      BY <1>2, <2>1, <2>2, <2>3
  <1> QED
    BY <1>1, <1>6 DEF WalkInv, FewLeftBehind

(* Of the matches the walk has yet to show, one at most is newly missed: the *)
(* version archived, or the first of the next page if it ranked before it.   *)
LEMMA ArchiveMisses ==
  ASSUME WalkTypes, NEW d \in Shown, NEW e \in Shown, NEW f \in Shown,
         Reached \in Nat,
         Reached <= Rank(request.sort, Shown, e),
         Reached <= Rank(request.sort, Shown, f),
         e = d \/ Rank(request.sort, Shown \ {d}, e) < Reached,
         f = d \/ Rank(request.sort, Shown \ {d}, f) < Reached
  PROVE  e = f
  <1> DEFINE sort == request.sort
             M == Shown
             k == Reached
  <1> IsFiniteSet(M) /\ M \subseteq Documents
    BY ShownFinite
  <1> k \in Nat /\ d \in M /\ e \in M /\ f \in M
      /\ k <= Rank(sort, M, e) /\ k <= Rank(sort, M, f)
      /\ (e = d \/ Rank(sort, M \ {d}, e) < k)
      /\ (f = d \/ Rank(sort, M \ {d}, f) < k)
    OBVIOUS
  <1> HIDE DEF M, k, sort
  <1>1. ASSUME NEW x \in M, k <= Rank(sort, M, x), x # d,
               Rank(sort, M \ {d}, x) < k
        PROVE  Rank(sort, M, x) = k /\ Before(sort, d, x)
    BY <1>1, RankWithout
  <1>2. ASSUME NEW x \in M, NEW y \in M, x # y
        PROVE  Rank(sort, M, x) # Rank(sort, M, y)
    <2>1. Rank(sort, M, x) \in Nat /\ Rank(sort, M, y) \in Nat
      BY RankType
    <2>2. Before(sort, x, y) \/ Before(sort, y, x)
      BY <1>2, BeforeTotal
    <2> QED
      BY <2>1, <2>2, RankRises
  <1>3. ASSUME NEW x \in M, x # d, Rank(sort, M, x) = k, Before(sort, d, x)
        PROVE  ~(k <= Rank(sort, M, d))
    <2>1. Rank(sort, M, d) < k /\ Rank(sort, M, d) \in Nat
      BY <1>3, RankRises, RankType
    <2> QED
      BY <2>1
  <1> QED
    BY <1>1, <1>2, <1>3

LEMMA ArchiveWalk ==
  ASSUME WalkInv, NEW d \in Documents, Archive(d)
  PROVE  WalkInv'
  <1>1. /\ WalkTypes /\ WalkTypes' /\ WithinRange' /\ SeenInOrder'
        /\ phase = "walking" /\ phase' = "walking"
        /\ Wanted' = Wanted /\ seen' = seen /\ request' = request
        /\ Reached' = Reached /\ Reached \in Nat
    BY ChangeWalk
  <1>2. d \in stored /\ stored' = stored \ {d} /\ archived' = archived + 1
    BY DEF Archive
  <1>3. Shown' = Shown \ {d}
    BY <1>1, <1>2 DEF Shown, Matching
  <1>4. Wanted \cap stored \subseteq Shown
    BY DEF Wanted, Shown, Matching
  <1>5. ASSUME NEW e \in Missed', e \notin Missed
        PROVE  /\ e \in Shown /\ Reached <= Rank(request.sort, Shown, e)
               /\ e = d \/ Rank(request.sort, Shown \ {d}, e) < Reached
    <2>1. e \in Wanted /\ e \notin ToSet(seen)
      BY <1>1, <1>5 DEF Missed
    <2>2. e \in stored /\ ~(Rank(request.sort, Shown, e) < Reached)
      BY <1>5, <2>1 DEF Missed
    <2>3. e = d \/ Rank(request.sort, Shown', e) < Reached
      BY <1>1, <1>2, <1>5, <2>2 DEF Missed
    <2>4. Rank(request.sort, Shown, e) \in Nat
      BY <1>1, ShownFinite, RankType
    <2> QED
      BY <1>1, <1>3, <1>4, <2>1, <2>2, <2>3, <2>4
  <1>6. ASSUME NEW e \in Missed', e \notin Missed, NEW f \in Missed', f \notin Missed
        PROVE  e = f
    <2>1. d \in Shown
      <3>1. CASE e = d
        BY <1>5, <1>6, <3>1
      <3>2. CASE d \notin Shown
        <4>1. Shown \ {d} = Shown
          BY <3>2
        <4>2. /\ Rank(request.sort, Shown, e) \in Nat
              /\ Reached <= Rank(request.sort, Shown, e)
              /\ e = d \/ Rank(request.sort, Shown, e) < Reached
          BY <1>1, <1>5, <1>6, <4>1, ShownFinite, RankType
        <4> QED
          BY <1>1, <3>1, <4>2
      <3> QED
        BY <3>2
    <2> QED
      BY <1>1, <1>5, <1>6, <2>1, ArchiveMisses
  <1>7. Cardinality(Missed') <= archived'
    <2>1. archived \in Nat /\ Cardinality(Missed) <= archived
      BY <1>1 DEF WalkInv, FewLeftBehind, WalkTypes, AnswerTypeOK
    <2>2. PICK X : X = Missed'
      OBVIOUS
    <2> DEFINE M == Missed
    <2>3. /\ \A e, f \in X \ M : e = f
          /\ IsFiniteSet(M) /\ Cardinality(M) \in Nat /\ Cardinality(M) <= archived
          /\ \A Y : Y \subseteq M => /\ IsFiniteSet(Y) /\ Cardinality(Y) \in Nat
                                     /\ Cardinality(Y) <= Cardinality(M)
      BY <1>1, <1>6, <2>1, <2>2, MissedFinite
    <2> HIDE DEF M
    <2>4. CASE X \subseteq M
      BY <1>2, <2>1, <2>2, <2>3, <2>4
    <2>5. CASE ~(X \subseteq M)
      <3>1. PICK e \in X : e \notin M
        BY <2>5
      <3> DEFINE Y == X \ {e}
      <3>2. Y \subseteq M /\ e \notin Y /\ X = Y \cup {e}
        BY <2>3, <3>1
      <3> HIDE DEF Y
      <3>3. Cardinality(X) = Cardinality(Y) + 1
        BY <2>3, <3>2, FS_AddElement
      <3> QED
        BY <1>2, <2>1, <2>2, <2>3, <3>2, <3>3
    <2> QED
      BY <2>4, <2>5
  <1> QED
    BY <1>1, <1>7 DEF WalkInv, FewLeftBehind

LEMMA JoinShows ==
  ASSUME NEW S, NEW u \in Seq(S), NEW v \in Seq(S)
  PROVE  ToSet(u) \subseteq ToSet(u \o v) /\ ToSet(v) \subseteq ToSet(u \o v)
  <1>1. /\ u \o v \in Seq(S) /\ Len(u \o v) = Len(u) + Len(v)
        /\ \A i \in 1 .. Len(u) + Len(v) :
             (u \o v)[i] = IF i <= Len(u) THEN u[i] ELSE v[i - Len(u)]
    BY ConcatProperties
  <1>2. Len(u) \in Nat /\ Len(v) \in Nat
    OBVIOUS
  <1> DEFINE w == u \o v
  <1> HIDE DEF w
  <1>3. DOMAIN w = 1 .. Len(u) + Len(v)
    BY <1>1, <1>2 DEF w
  <1>4. ASSUME NEW i \in 1 .. Len(u)
        PROVE  u[i] \in ToSet(w)
    <2>1. i \in 1 .. Len(u) + Len(v) /\ w[i] = u[i]
      BY <1>1, <1>2 DEF w
    <2> QED
      BY <1>3, <2>1 DEF ToSet
  <1>5. ASSUME NEW i \in 1 .. Len(v)
        PROVE  v[i] \in ToSet(w)
    <2>1. /\ i + Len(u) \in 1 .. Len(u) + Len(v) /\ ~(i + Len(u) <= Len(u))
          /\ (i + Len(u)) - Len(u) = i
      BY <1>2
    <2>2. w[i + Len(u)] = v[i]
      BY <1>1, <2>1 DEF w
    <2> QED
      BY <1>3, <2>1, <2>2 DEF ToSet
  <1>6. \A x \in ToSet(u) : x \in ToSet(w)
    BY <1>4 DEF ToSet
  <1>7. \A x \in ToSet(v) : x \in ToSet(w)
    BY <1>5 DEF ToSet
  <1> QED
    BY <1>6, <1>7 DEF w

LEMMA NextPageWalk ==
  ASSUME WalkInv, NextPage
  PROVE  WalkInv'
  <1> DEFINE M == Shown
             N == Cardinality(M)
             k == Reached
             z == Size
             sort == request.sort
  <1>1. WalkTypes /\ WithinRange /\ FewLeftBehind /\ SeenInOrder
    BY DEF WalkInv
  <1>2. /\ phase = "walking"
        /\ answer' \in Answers([request EXCEPT !.page = page])
        /\ seen' = seen \o answer'.rows /\ page' = page + 1
        /\ phase' = IF answer'.rows = <<>> THEN "walked" ELSE "walking"
        /\ UNCHANGED <<stored, before, added, archived, request>>
    BY DEF NextPage, collection
  <1>3. PICK s \in Arrangements(sort, M) :
          answer' = Answer("ok", page, z, N, Window(s, k, z))
    BY <1>1, <1>2, WalkAnswer
  <1> DEFINE w == Window(s, k, z)
  <1>4. /\ answer'.status = "ok" /\ answer'.page = page /\ answer'.perPage = z
        /\ answer'.total = N /\ answer'.rows = w
    BY <1>3 DEF Answer
  <1>5. /\ k \in Nat /\ page \in 1 .. HalfRange - 1 /\ page * z = k + z
    BY <1>1, <1>2, ReachedFits
  <1>6. z \in 1 .. MaxPerPage /\ z \in Nat \ {0}
    BY <1>1, <1>2, SizeType
  <1>7. IsFiniteSet(M) /\ M \subseteq Documents /\ N \in Nat
    BY <1>1, ShownFinite
  <1>8. /\ s \in Seq(M) /\ s \in Seq(Documents) /\ Len(s) = N
        /\ \A d \in M : \E i \in 1 .. N : s[i] = d
    BY <1>7, ArrangementShape
  <1>9. \A i \in 1 .. N : Rank(sort, M, s[i]) = i - 1
    BY <1>7, RankOf
  <1>10. M' = M /\ z' = z /\ sort' = sort /\ request' = request /\ before' = before
    BY <1>2 DEF Shown, Matching, Size
  <1>11. page' = page + 1 /\ page' \in Nat \ {0} /\ Reached' = k + z
    <2>1. page' = page + 1 /\ page \in Nat \ {0}
      BY <1>1, <1>2 DEF WalkTypes
    <2>2. (page' - 1) = page
      BY <2>1
    <2>3. Reached' = page * z
      BY <1>10, <2>2 DEF Reached
    <2> QED
      BY <1>5, <2>1, <2>3
  <1> HIDE DEF M, N, k, z, w, sort
  <1>12. /\ w \in Seq(Documents) /\ Len(w) <= z
         /\ N <= k => w = <<>>
         /\ k < N => w # <<>>
         /\ \A i \in Nat : k < i /\ i <= k + z /\ i <= N => s[i] \in ToSet(w)
    BY <1>5, <1>6, <1>8, WindowRows DEF w
  <1>13. seen \in Seq(Documents) /\ seen' = seen \o w
    BY <1>1, <1>2, <1>4 DEF WalkTypes
  <1>14. /\ seen' \in Seq(Documents)
         /\ ToSet(seen) \subseteq ToSet(seen') /\ ToSet(w) \subseteq ToSet(seen')
    <2>1. seen \o w \in Seq(Documents)
      BY <1>12, <1>13
    <2>2. ToSet(seen) \subseteq ToSet(seen \o w) /\ ToSet(w) \subseteq ToSet(seen \o w)
      BY <1>12, <1>13, JoinShows
    <2> QED
      BY <1>13, <2>1, <2>2
  <1>15. phase' = IF N <= k THEN "walked" ELSE "walking"
    BY <1>2, <1>4, <1>5, <1>7, <1>12
  <1>16. WalkTypes'
    <2>1. /\ answer'.status = "ok"
          /\ answer'.page \in 1 .. HalfRange - 1 /\ answer'.perPage \in 1 .. MaxPerPage
          /\ answer'.total \in Nat
          /\ answer'.rows \in Seq(Documents) /\ Len(answer'.rows) <= answer'.perPage
      BY <1>4, <1>5, <1>6, <1>7, <1>12
    <2>2. AnswerTypeOK'
      BY <1>1, <1>2, <1>11, <1>15, <2>1 DEF WalkTypes, AnswerTypeOK
    <2> QED
      BY <1>1, <1>2, <1>11, <1>14, <1>15, <2>2 DEF WalkTypes
  <1>17. WithinRange'
    <2>1. M \subseteq Listable
      BY <1>1 DEF M, Shown, Matching, Listable, WalkTypes
    <2>2. N <= Cardinality(Listable) /\ Cardinality(Listable) \in Nat
      BY <2>1, ListableIsFinite, FS_Subset DEF ListableFinite, N
    <2>3. phase' = "walking" => k + z < Cardinality(Listable) + z
      BY <1>5, <1>6, <1>7, <1>15, <2>2
    <2> QED
      BY <1>10, <1>11, <2>3 DEF WithinRange, z
  <1>18. ASSUME NEW d \in M, d \notin ToSet(seen)
         PROVE  /\ d \notin ToSet(w) =>
                     Rank(sort, M, d) < k \/ ~(Rank(sort, M, d) < k + z)
                /\ N <= k => Rank(sort, M, d) < k + z
    <2>1. PICK i \in 1 .. N : s[i] = d
      BY <1>8
    <2>2. Rank(sort, M, d) = i - 1 /\ i \in Nat \ {0} /\ i <= N
      BY <1>7, <1>9, <2>1
    <2>3. d \notin ToSet(w) => ~(k < i /\ i <= k + z)
      BY <1>12, <2>1, <2>2
    <2> QED
      BY <1>5, <1>6, <1>7, <2>2, <2>3
  <1>19. FewLeftBehind'
    <2>1. before' = before /\ stored' = stored /\ archived' = archived
          /\ Wanted' = Wanted
      BY <1>2 DEF Wanted
    <2>2. Wanted \cap stored \subseteq M /\ M \cap before \subseteq Wanted
          /\ M \subseteq stored
      BY DEF Wanted, M, Shown, Matching
    <2>3. Missed' = {d \in Wanted : /\ d \notin ToSet(seen')
                                    /\ d \in stored => Rank(sort, M, d) < k + z}
      BY <1>10, <1>11, <2>1 DEF Missed, M, sort
    <2>4. Missed = {d \in Wanted : /\ d \notin ToSet(seen)
                                   /\ d \in stored => Rank(sort, M, d) < k}
      BY DEF Missed, M, sort, k
    <2>5. Missed' \subseteq Missed
      BY <1>14, <1>18, <2>2, <2>3, <2>4
    <2>6. Cardinality(Missed') <= archived'
      <3>1. archived \in Nat /\ Cardinality(Missed) <= archived
        BY <1>1, <1>2 DEF FewLeftBehind, WalkTypes, AnswerTypeOK
      <3>2. PICK X : X = Missed'
        OBVIOUS
      <3>3. /\ Cardinality(X) <= Cardinality(Missed) /\ Cardinality(X) \in Nat
            /\ Cardinality(Missed) \in Nat
        BY <1>1, <2>5, <3>2, MissedFinite
      <3> QED
        BY <2>1, <3>1, <3>2, <3>3
    <2>7. phase' = "walked" => Skipped' \subseteq Missed'
      <3>1. Skipped' = (M \cap before) \ ToSet(seen')
        BY <1>2 DEF Skipped, M, Shown, Matching
      <3>2. phase' = "walked" => N <= k
        BY <1>15
      <3> QED
        BY <1>14, <1>18, <2>2, <2>3, <3>1, <3>2
    <2> QED
      BY <2>6, <2>7 DEF FewLeftBehind
  <1>20. SeenInOrder'
    <2> SUFFICES ASSUME Unchanging'
                 PROVE  /\ phase' = "walking" =>
                             \A t \in Arrangements(sort, M) : seen' = Window(t, 0, k + z)
                        /\ phase' = "walked" =>
                             /\ seen' \in Arrangements(sort, M)
                             /\ answer'.total = N
      BY <1>10, <1>11 DEF SeenInOrder, M, N, sort
    <2>1. seen = Window(s, 0, k)
      BY <1>1, <1>2 DEF SeenInOrder, Unchanging, M, k, sort
    <2>2. seen' = Window(s, 0, k + z)
      BY <1>5, <1>6, <1>8, <1>13, <2>1, WindowsJoin DEF w
    <2>3. \A t \in Arrangements(sort, M) : t = s
      BY <1>7, UniqueArrangement
    <2>4. N <= k => seen' = s
      <3>1. k + z \in Nat /\ (N <= k => N <= k + z)
        BY <1>5, <1>6, <1>7
      <3> QED
        BY <1>8, <2>2, <3>1, WindowEnds
    <2> QED
      BY <1>3, <1>4, <1>15, <2>2, <2>3, <2>4
  <1> QED
    BY <1>16, <1>17, <1>19, <1>20 DEF WalkInv

LEMMA WalkInvariant == Spec => []WalkInv
  <1>1. Init => WalkInv
    BY InitWalk
  <1>2. WalkInv /\ [Next]_vars => WalkInv'
    <2> SUFFICES ASSUME WalkInv, [Next]_vars
                 PROVE  WalkInv'
      OBVIOUS
    <2>1. CASE Ask
      BY <2>1, AskWalk
    <2>2. CASE Walk
      BY <2>2, StartWalk
    <2>3. CASE NextPage
      BY <2>3, NextPageWalk
    <2>4. CASE \E d \in Documents : Add(d) \/ Archive(d)
      BY <2>4, AddWalk, ArchiveWalk
    <2>5. CASE UNCHANGED vars
      <3>1. UNCHANGED <<stored, before, added, archived, phase, request,
                        answer, page, seen>>
        BY <2>5 DEF vars
      <3> QED
        BY <3>1 DEF WalkInv, WalkTypes, AnswerTypeOK, WithinRange, FewLeftBehind,
                    SeenInOrder, Shown, Matching, Size, Reached, Unchanging,
                    Missed, Wanted, Skipped
    <2> QED
      BY <2>1, <2>2, <2>3, <2>4, <2>5 DEF Next
  <1> QED
    BY <1>1, <1>2, PTL DEF Spec

-----------------------------------------------------------------------------
(* Theorems.                                                                *)

(* Whatever parameters are sent, an answer has the envelope's shape: a page *)
(* of at least 1, a page size of 1 to MaxPerPage, no more rows than that    *)
(* (parseListParams, List).                                                 *)
THEOREM AnswerTypeCorrect == Spec => []AnswerTypeOK
  <1>1. WalkInv => AnswerTypeOK
    BY DEF WalkInv, WalkTypes
  <1> QED
    BY <1>1, WalkInvariant, PTL

(* Paging through a collection that does not change shows every match       *)
(* exactly once and in the order asked for, for any collection and page     *)
(* size, rows that share a sort value included (pageSort's `_id`).          *)
THEOREM WalkAlwaysExact == Spec => []WalkExact
  <1>1. WalkInv => WalkExact
    <2> SUFFICES ASSUME WalkInv, phase = "walked", Unchanging
                 PROVE  /\ ToSet(seen) = Matching(request.search)
                        /\ \A d \in ToSet(seen) : Times(d) = 1
                        /\ \A i, j \in DOMAIN seen :
                             KeyBefore(request.sort, seen[i], seen[j]) => i < j
      BY DEF WalkExact
    <2> DEFINE N == Cardinality(Shown)
    <2>1. seen \in Arrangements(request.sort, Shown) /\ WalkTypes
      BY DEF WalkInv, SeenInOrder
    <2>2. /\ seen \in Seq(Shown) /\ Len(seen) = N /\ N \in Nat
          /\ \A i, j \in 1 .. N : seen[i] = seen[j] => i = j
          /\ \A d \in Shown : \E i \in 1 .. N : seen[i] = d
          /\ \A i, j \in 1 .. N : i < j <=> Before(request.sort, seen[i], seen[j])
      BY <2>1, ShownFinite, ArrangementShape
    <2> HIDE DEF N
    <2>3. DOMAIN seen = 1 .. N /\ \A i \in 1 .. N : seen[i] \in Shown
      BY <2>2
    <2>4. ToSet(seen) = Matching(request.search)
      BY <2>2, <2>3 DEF ToSet, Shown
    <2>5. ASSUME NEW d \in ToSet(seen)
          PROVE  Times(d) = 1
      <3>1. PICK i \in DOMAIN seen : seen[i] = d
        BY DEF ToSet
      <3>2. {j \in DOMAIN seen : seen[j] = d} = {i}
        BY <2>2, <2>3, <3>1
      <3> QED
        BY <3>2, FS_Singleton DEF Times
    <2>6. \A i, j \in DOMAIN seen : KeyBefore(request.sort, seen[i], seen[j]) => i < j
      BY <2>2, <2>3 DEF Before
    <2> QED
      BY <2>4, <2>5, <2>6
  <1> QED
    BY <1>1, WalkInvariant, PTL

(* However many systems are created and patched while a client pages, it is *)
(* shown all that were there when it began and are still listed, but for as *)
(* many at most as versions were archived meanwhile.                        *)
THEOREM SkipsAlwaysBounded == Spec => []SkipsBounded
  <1>1. WalkInv => SkipsBounded
    <2> SUFFICES ASSUME WalkInv, phase = "walked"
                 PROVE  Cardinality(Skipped) <= archived
      BY DEF SkipsBounded
    <2>1. /\ Skipped \subseteq Missed /\ Cardinality(Missed) <= archived
          /\ archived \in Nat /\ WalkTypes
      BY DEF WalkInv, FewLeftBehind, WalkTypes, AnswerTypeOK
    <2> HIDE DEF Skipped, Missed
    <2>2. /\ Cardinality(Skipped) <= Cardinality(Missed)
          /\ Cardinality(Skipped) \in Nat /\ Cardinality(Missed) \in Nat
      BY <2>1, MissedFinite
    <2> QED
      BY <2>1, <2>2
  <1> QED
    BY <1>1, WalkInvariant, PTL

(* The total of a page is what a walk of an unchanging collection ends up   *)
(* having shown ("independent of the page window").                         *)
THEOREM TotalAlwaysWalkLength == Spec => []TotalIsWalkLength
  <1>1. WalkInv => TotalIsWalkLength
    <2> SUFFICES ASSUME WalkInv, phase = "walked", Unchanging
                 PROVE  answer.total = Len(seen)
      BY DEF TotalIsWalkLength
    <2>1. /\ seen \in Arrangements(request.sort, Shown) /\ WalkTypes
          /\ answer.total = Cardinality(Shown)
      BY DEF WalkInv, SeenInOrder
    <2>2. Len(seen) = Cardinality(Shown)
      BY <2>1, ShownFinite, ArrangementShape
    <2> QED
      BY <2>1, <2>2
  <1> QED
    BY <1>1, WalkInvariant, PTL
=============================================================================
