------------------------------ MODULE BoardProofs ------------------------------
(***************************************************************************)
(* The properties of Board, for any number of images, AOIs and words, any  *)
(* length of the queue and of a name, and three walls or five.             *)
(*                                                                         *)
(* What a click does to a list or to the selection is a fold over a        *)
(* sequence.  A fold is a recursive function over the parts of a set; that *)
(* the function exists (FoldExists), and what it yields (AddAll, FlipAll), *)
(* is shown by induction in the form of a least counterexample (Least,     *)
(* LeastPart).  The invariant then has a part for the selection, one for   *)
(* the walls and one for the rest, each with a lemma per action.           *)
(***************************************************************************)
EXTENDS Board, FiniteSetTheorems, SequenceTheorems, TLAPS

\* Every set of naturals that is not empty has a least member.
LEMMA Least ==
  ASSUME NEW T \in SUBSET Nat, T # {}
  PROVE  \E n \in T : \A m \in T : n <= m
<1>1. PICK n \in T : \A m \in T : <<m, n>> \notin OpToRel(<, Nat)
  BY NatLessThanWellFounded, WFMin
<1>2. \A m \in T : ~(m < n)
  BY <1>1 DEF OpToRel
<1> QED
  BY <1>2

\* g is the recursive function of a fold of S with the step Op, which begins with the
\* member c of a set.
IsFold(g, S, base, c, Op) ==
  \A s \in SUBSET S : g[s] = IF s = {} THEN base ELSE Op[c[s]][g[s \ {c[s]}]]

\* The recursive function of a fold exists: what a step makes of a part that is one
\* member smaller defines it, size by size.
LEMMA FoldExists ==
  ASSUME NEW S, IsFiniteSet(S), NEW V, NEW base \in V, NEW c, NEW Op,
         \A s \in SUBSET S : s # {} => c[s] \in s,
         \A x \in S, v \in V : Op[x][v] \in V
  PROVE  \E g \in [SUBSET S -> V] : IsFold(g, S, base, c, Op)
<1> DEFINE Value(g, s) == IF s = {} THEN base ELSE Op[c[s]][g[s \ {c[s]}]]
           UpTo(g, n)  == \A s \in SUBSET S : Cardinality(s) <= n => g[s] = Value(g, s)
           Fails       == {n \in Nat : ~ \E g \in [SUBSET S -> V] : UpTo(g, n)}
<1>1. \A s \in SUBSET S : /\ IsFiniteSet(s) /\ Cardinality(s) \in Nat /\ Cardinality(s) <= Cardinality(S)
                          /\ Cardinality(s) = 0 <=> s = {}
                          /\ s # {} => Cardinality(s \ {c[s]}) = Cardinality(s) - 1
  BY FS_Subset, FS_CardinalityType, FS_EmptySet, FS_RemoveElement
<1>2. \A g \in [SUBSET S -> V], s \in SUBSET S : Value(g, s) \in V
  <2> SUFFICES ASSUME NEW g \in [SUBSET S -> V], NEW s \in SUBSET S, s # {} PROVE Op[c[s]][g[s \ {c[s]}]] \in V
    OBVIOUS
  <2>1. s \ {c[s]} \in SUBSET S /\ c[s] \in S
    OBVIOUS
  <2> QED
    BY <2>1
<1>3. 0 \notin Fails
  <2> DEFINE g == [s \in SUBSET S |-> base]
  <2>1. ASSUME NEW s \in SUBSET S, Cardinality(s) <= 0 PROVE g[s] = Value(g, s)
    <3>1. Cardinality(s) \in Nat /\ (Cardinality(s) = 0 <=> s = {})
      BY <1>1
    <3>2. s = {}
      BY <2>1, <3>1
    <3> QED
      BY <3>2
  <2>2. g \in [SUBSET S -> V] /\ UpTo(g, 0)
    BY <2>1
  <2> HIDE DEF UpTo
  <2> QED
    BY <2>2
<1>4. ASSUME NEW n \in Nat, n \notin Fails PROVE n + 1 \notin Fails
  <2>1. PICK g \in [SUBSET S -> V] : UpTo(g, n)
    BY <1>4
  <2> DEFINE h == [s \in SUBSET S |-> IF Cardinality(s) <= n THEN g[s] ELSE Value(g, s)]
  <2>2. h \in [SUBSET S -> V]
    BY <1>2
  <2>3. ASSUME NEW s \in SUBSET S, Cardinality(s) <= n + 1 PROVE h[s] = Value(h, s)
    <3>1. CASE s = {}
      BY <1>1, <2>1, <3>1
    <3>2. CASE s # {}
      <4>1. s \ {c[s]} \in SUBSET S /\ Cardinality(s \ {c[s]}) <= n
        <5>1. Cardinality(s) \in Nat /\ Cardinality(s \ {c[s]}) = Cardinality(s) - 1
          BY <1>1, <3>2
        <5> QED
          BY <2>3, <5>1
      <4>2. h[s \ {c[s]}] = g[s \ {c[s]}]
        BY <4>1
      <4>3. h[s] = Value(g, s)
        BY <2>1
      <4> QED
        BY <4>2, <4>3
    <3> QED
      BY <3>1, <3>2
  <2>4. UpTo(h, n + 1)
    BY <2>3
  <2> HIDE DEF UpTo, h
  <2> QED
    BY <2>2, <2>4
<1>5. Fails = {}
  <2> SUFFICES ASSUME Fails # {} PROVE FALSE
    OBVIOUS
  <2> HIDE DEF UpTo
  <2>1. Fails \in SUBSET Nat
    OBVIOUS
  <2> HIDE DEF Fails
  <2>2. PICK n \in Fails : \A m \in Fails : n <= m
    BY <2>1, Least
  <2>3. n \in Nat /\ n - 1 \in Nat /\ (n - 1) + 1 = n
    <3>1. n \in Nat /\ n # 0
      BY <1>3, <2>1, <2>2
    <3> QED
      BY <3>1
  <2>4. n - 1 \in Fails
    BY <1>4, <2>2, <2>3
  <2> QED
    BY <2>2, <2>3, <2>4
<1>6. PICK g \in [SUBSET S -> V] : UpTo(g, Cardinality(S))
  <2>1. Cardinality(S) \in Nat
    BY FS_CardinalityType
  <2> HIDE DEF UpTo
  <2> QED
    BY <1>5, <2>1
<1> QED
  BY <1>1, <1>6 DEF IsFold

\* Induction over the parts of a finite set, the smaller ones first.
LEMMA LeastPart ==
  ASSUME NEW S, IsFiniteSet(S), NEW Bad \in SUBSET SUBSET S, Bad # {}
  PROVE  \E s \in Bad : \A t \in Bad : ~(t \subseteq s /\ t # s)
<1>1. IsWellFoundedOn(StrictSubsetOrdering(S), SUBSET S)
  BY FS_StrictSubsetOrderingWellFounded, FS_FiniteSubsetsOfFinite
<1>2. PICK s \in Bad : \A t \in Bad : <<t, s>> \notin StrictSubsetOrdering(S)
  BY <1>1, WFMin
<1> QED
  BY <1>2 DEF StrictSubsetOrdering

LEMMA MaxExists ==
  ASSUME NEW n \in Nat, NEW s \in SUBSET (1 .. n), s # {}
  PROVE  Max(s) \in s
<1> DEFINE T == {m \in Nat : n - m \in s}
<1>1. T \in SUBSET Nat /\ T # {}
  <2>1. PICK x \in s : TRUE
    OBVIOUS
  <2>2. n - x \in Nat /\ n - (n - x) = x
    OBVIOUS
  <2> QED
    BY <2>2
<1> HIDE DEF T
<1>2. PICK m \in T : \A k \in T : m <= k
  BY <1>1, Least
<1>3. n - m \in s /\ m \in Nat
  BY <1>2 DEF T
<1>4. ASSUME NEW x \in s PROVE n - m >= x
  <2>1. n - x \in Nat /\ n - (n - x) = x
    OBVIOUS
  <2>2. n - x \in T
    BY <2>1 DEF T
  <2> QED
    BY <1>2, <1>3, <2>1, <2>2
<1> QED
  BY <1>3, <1>4 DEF Max

--------------------------------------------------------------------------------
(* Sequences without duplicates. *)

LEMMA RemoveOne ==
  ASSUME NEW X, NEW s \in Seq(X), IsInjective(s), NEW k \in 1 .. Len(s)
  PROVE  /\ RemoveAt(s, k) \in Seq(X) /\ IsInjective(RemoveAt(s, k))
         /\ Range(RemoveAt(s, k)) = Range(s) \ {s[k]}
<1> DEFINE a == SubSeq(s, 1, k - 1)
           b == SubSeq(s, k + 1, Len(s))
           r == RemoveAt(s, k)
<1>1. /\ Len(s) \in Nat /\ k \in Nat /\ 1 <= k /\ k <= Len(s) /\ DOMAIN s = 1 .. Len(s)
      /\ \A i \in 1 .. Len(s) : s[i] \in X
  BY LenProperties, ElementOfSeq
<1>2. /\ a \in Seq(X) /\ Len(a) = k - 1
      /\ \A i \in 1 .. k - 1 : a[i] = s[i]
  <2>1. 1 \in Int /\ k - 1 \in Int /\ \A i \in 1 .. k - 1 : s[i] \in X
    BY <1>1
  <2>2. /\ a \in Seq(X) /\ Len(a) = IF 1 <= k - 1 THEN k - 1 - 1 + 1 ELSE 0
        /\ \A i \in 1 .. k - 1 - 1 + 1 : a[i] = s[1 + i - 1]
    BY <2>1, SubSeqProperties
  <2> HIDE DEF a
  <2> QED
    BY <1>1, <2>2
<1>3. /\ b \in Seq(X) /\ Len(b) = Len(s) - k
      /\ \A i \in 1 .. Len(s) - k : b[i] = s[k + i]
  <2>1. k + 1 \in Int /\ Len(s) \in Int /\ \A i \in k + 1 .. Len(s) : s[i] \in X
    BY <1>1
  <2>2. /\ b \in Seq(X) /\ Len(b) = IF k + 1 <= Len(s) THEN Len(s) - (k + 1) + 1 ELSE 0
        /\ \A i \in 1 .. Len(s) - (k + 1) + 1 : b[i] = s[k + 1 + i - 1]
    BY <2>1, SubSeqProperties
  <2>3. /\ Len(s) - (k + 1) + 1 = Len(s) - k
        /\ Len(s) - k = IF k + 1 <= Len(s) THEN Len(s) - k ELSE 0
        /\ \A i \in 1 .. Len(s) - k : k + 1 + i - 1 = k + i
    <3> DEFINE n == Len(s)
    <3>1. n \in Nat /\ k \in Nat /\ k <= n
      BY <1>1
    <3> HIDE DEF n
    <3>2. n - (k + 1) + 1 = n - k /\ \A i \in 1 .. n - k : k + 1 + i - 1 = k + i
      BY <3>1
    <3>3. n - k = IF k + 1 <= n THEN n - k ELSE 0
      BY <3>1
    <3> QED
      BY <3>2, <3>3 DEF n
  <2> HIDE DEF b
  <2>4. \A i \in 1 .. Len(s) - k : b[i] = s[k + i]
    BY <2>2, <2>3
  <2> QED
    BY <2>2, <2>3, <2>4
<1>4. r = a \o b
  BY DEF RemoveAt
<1> HIDE DEF a, b, r
<1>5. /\ r \in Seq(X) /\ Len(r) = Len(s) - 1
      /\ \A i \in 1 .. Len(s) - 1 : r[i] = IF i < k THEN s[i] ELSE s[i + 1]
  <2>1. /\ r \in Seq(X) /\ Len(r) = k - 1 + (Len(s) - k)
        /\ \A i \in 1 .. k - 1 + (Len(s) - k) : r[i] = IF i <= k - 1 THEN a[i] ELSE b[i - (k - 1)]
    <3>1. /\ a \o b \in Seq(X) /\ Len(a \o b) = Len(a) + Len(b)
          /\ \A i \in 1 .. Len(a) + Len(b) : (a \o b)[i] = IF i <= Len(a) THEN a[i] ELSE b[i - Len(a)]
      BY <1>2, <1>3, ConcatProperties
    <3> QED
      BY <1>2, <1>3, <1>4, <3>1
  <2>2. k - 1 + (Len(s) - k) = Len(s) - 1
    BY <1>1
  <2>3. ASSUME NEW i \in 1 .. Len(s) - 1 PROVE r[i] = IF i < k THEN s[i] ELSE s[i + 1]
    <3>1. CASE i < k
      <4>1. i <= k - 1 /\ i \in 1 .. k - 1
        BY <1>1, <3>1
      <4> QED
        BY <1>2, <2>1, <2>2, <3>1, <4>1
    <3>2. CASE ~(i < k)
      <4>1. ~(i <= k - 1) /\ i - (k - 1) \in 1 .. Len(s) - k /\ k + (i - (k - 1)) = i + 1
        BY <1>1, <3>2
      <4>2. r[i] = b[i - (k - 1)]
        BY <2>1, <2>2, <4>1
      <4>3. b[i - (k - 1)] = s[i + 1]
        BY <1>3, <4>1
      <4> QED
        BY <3>2, <4>2, <4>3
    <3> QED
      BY <3>1, <3>2
  <2> QED
    BY <2>1, <2>2, <2>3
<1>6. DOMAIN r = 1 .. Len(s) - 1
  BY <1>5, LenProperties
<1>7. IsInjective(r)
  <2> SUFFICES ASSUME NEW i \in DOMAIN r, NEW j \in DOMAIN r, r[i] = r[j] PROVE i = j
    BY DEF IsInjective
  <2> DEFINE m(x) == IF x < k THEN x ELSE x + 1
  <2>1. \A x \in 1 .. Len(s) - 1 : m(x) \in DOMAIN s /\ r[x] = s[m(x)]
    <3> SUFFICES ASSUME NEW x \in 1 .. Len(s) - 1 PROVE m(x) \in DOMAIN s /\ r[x] = s[m(x)]
      OBVIOUS
    <3>1. x \in DOMAIN s /\ x + 1 \in DOMAIN s
      BY <1>1
    <3>2. r[x] = IF x < k THEN s[x] ELSE s[x + 1]
      BY <1>5
    <3> QED
      BY <3>1, <3>2
  <2>2. m(i) = m(j)
    <3> HIDE DEF m
    <3> QED
      BY <1>6, <2>1 DEF IsInjective
  <2> QED
    BY <1>1, <1>6, <2>2
<1>8. Range(r) = Range(s) \ {s[k]}
  <2>1. ASSUME NEW i \in DOMAIN r PROVE r[i] \in Range(s) /\ r[i] # s[k]
    <3>1. PICK j \in DOMAIN s : j # k /\ r[i] = s[j]
      <4>1. CASE i < k
        BY <1>1, <1>5, <1>6, <4>1
      <4>2. CASE ~(i < k)
        <5>1. i + 1 \in DOMAIN s /\ i + 1 # k /\ r[i] = s[i + 1]
          BY <1>1, <1>5, <1>6, <4>2
        <5> QED
          BY <5>1
      <4> QED
        BY <4>1, <4>2
    <3> QED
      BY <1>1, <3>1 DEF IsInjective, Range
  <2>2. ASSUME NEW j \in DOMAIN s, s[j] # s[k] PROVE s[j] \in Range(r)
    <3>1. CASE j < k
      <4>1. j \in DOMAIN r /\ r[j] = s[j]
        BY <1>1, <1>5, <1>6, <3>1
      <4> QED
        BY <4>1 DEF Range
    <3>2. CASE j > k
      <4>1. j - 1 \in DOMAIN r /\ r[j - 1] = s[(j - 1) + 1] /\ (j - 1) + 1 = j
        BY <1>1, <1>5, <1>6, <3>2
      <4> QED
        BY <4>1 DEF Range
    <3> QED
      BY <1>1, <2>2, <3>1, <3>2
  <2> QED
    BY <2>1, <2>2 DEF Range
<1> QED
  BY <1>5, <1>7, <1>8 DEF r

LEMMA AppendOne ==
  ASSUME NEW X, NEW s \in Seq(X), IsInjective(s), NEW e \in X, ~Contains(s, e)
  PROVE  /\ Append(s, e) \in Seq(X) /\ IsInjective(Append(s, e))
         /\ Range(Append(s, e)) = Range(s) \cup {e}
<1> DEFINE a == Append(s, e)
<1>1. /\ a \in Seq(X) /\ Len(a) = Len(s) + 1 /\ Len(s) \in Nat
      /\ \A i \in 1 .. Len(s) : a[i] = s[i]
      /\ a[Len(s) + 1] = e
  BY AppendProperties
<1> HIDE DEF a
<1>2. /\ DOMAIN a = 1 .. Len(s) + 1 /\ DOMAIN s = 1 .. Len(s)
      /\ \A i \in 1 .. Len(s) + 1 : i \in 1 .. Len(s) \/ i = Len(s) + 1
  BY <1>1, LenProperties
<1>3. \A i \in 1 .. Len(s) : s[i] # e
  BY DEF Contains
<1>4. IsInjective(a)
  <2>1. ASSUME NEW i \in DOMAIN a, NEW j \in DOMAIN a, a[i] = a[j] PROVE i = j
    BY <1>1, <1>2, <1>3, <2>1 DEF IsInjective
  <2> QED
    BY <2>1 DEF IsInjective
<1>5. Range(a) = Range(s) \cup {e}
  BY <1>1, <1>2 DEF Range
<1> QED
  BY <1>1, <1>4, <1>5 DEF a

LEMMA RemoveFound ==
  ASSUME NEW X, NEW s \in Seq(X), IsInjective(s), NEW e, Contains(s, e)
  PROVE  /\ RemoveFirst(s, e) \in Seq(X) /\ IsInjective(RemoveFirst(s, e))
         /\ Range(RemoveFirst(s, e)) = Range(s) \ {e}
<1> DEFINE I == {i \in 1 .. Len(s) : s[i] = e}
<1>1. I \in SUBSET Nat /\ I # {}
  BY LenProperties DEF Contains
<1>2. PICK k \in I : \A i \in I : k <= i
  BY <1>1, Least
<1>3. Min(I) \in I
  BY <1>2 DEF Min
<1>4. Min(I) \in 1 .. Len(s) /\ s[Min(I)] = e
  BY <1>3
<1>5. RemoveFirst(s, e) = RemoveAt(s, Min(I))
  BY <1>1 DEF RemoveFirst, SelectInSeq, Contains
<1> HIDE DEF I
<1> QED
  BY <1>4, <1>5, RemoveOne

--------------------------------------------------------------------------------
(* Lists of AOIs. *)

LEMMA AddOne ==
  ASSUME NEW b \in Seq(Names), IsInjective(b), NEW name \in Names
  PROVE  /\ AddAOI(b, name) \in Seq(Names) /\ IsInjective(AddAOI(b, name))
         /\ Range(AddAOI(b, name)) = Range(b) \cup {name}
<1>1. CASE Contains(b, name)
  BY <1>1 DEF AddAOI, Contains, Range
<1>2. CASE ~Contains(b, name)
  <2> HIDE DEF Names
  <2>1. AddAOI(b, name) = Append(b, name)
    BY <1>2 DEF AddAOI
  <2> QED
    BY <1>2, <2>1, AppendOne
<1> QED
  BY <1>1, <1>2

\* What AddAOIsToList leaves on a wall, whatever the order of the names.
LEMMA AddAll ==
  ASSUME NEW b \in Seq(Names), IsInjective(b), NEW n \in Nat, NEW added \in [1 .. n -> Names]
  PROVE  /\ AddEach(b, added) \in Seq(Names) /\ IsInjective(AddEach(b, added))
         /\ Range(AddEach(b, added)) = Range(b) \cup Range(added)
<1> DEFINE S  == 1 .. n
           V  == {v \in Seq(Names) : IsInjective(v)}
           Op == [x \in S |-> [v \in V |-> AddAOI(v, added[x])]]
           c  == [s \in SUBSET S |-> Max(s)]
           Step(iter, s) == IF s = {} THEN b ELSE AddAOI(iter[s \ {Max(s)}], added[Max(s)])
           it == CHOOSE iter : iter = [s \in SUBSET S |-> Step(iter, s)]
<1>1. IsFiniteSet(S) /\ b \in V
  BY FS_Interval
<1>2. \A s \in SUBSET S : s # {} => Max(s) \in s
  BY MaxExists
<1>3. \A x \in S, v \in V : AddAOI(v, added[x]) \in V
  BY AddOne
<1>4. \E g \in [SUBSET S -> V] : IsFold(g, S, b, c, Op)
  <2>1. \A s \in SUBSET S : s # {} => c[s] \in s
    BY <1>2
  <2>2. \A x \in S, v \in V : Op[x][v] \in V
    BY <1>3
  <2> HIDE DEF S, V, Op, c
  <2> QED
    BY <1>1, <2>1, <2>2, FoldExists
<1>5. \E g : g = [s \in SUBSET S |-> Step(g, s)]
  <2>1. PICK g \in [SUBSET S -> V] : \A s \in SUBSET S : g[s] = IF s = {} THEN b ELSE Op[c[s]][g[s \ {c[s]}]]
    BY <1>4 DEF IsFold
  <2>2. ASSUME NEW s \in SUBSET S PROVE g[s] = Step(g, s)
    <3>1. CASE s = {}
      BY <2>1, <3>1
    <3>2. CASE s # {}
      <4>1. Max(s) \in S /\ s \ {Max(s)} \in SUBSET S
        BY <1>2, <3>2
      <4>2. g[s \ {Max(s)}] \in V
        BY <4>1
      <4>3. Op[Max(s)][g[s \ {Max(s)}]] = AddAOI(g[s \ {Max(s)}], added[Max(s)])
        BY <4>1, <4>2
      <4> QED
        BY <2>1, <3>2, <4>3
    <3> QED
      BY <3>1, <3>2
  <2> HIDE DEF S, V, Step
  <2>3. g = [s \in SUBSET S |-> Step(g, s)]
    BY <2>2
  <2> QED
    BY <2>3
<1>6. it = [s \in SUBSET S |-> Step(it, s)]
  <2> HIDE DEF Step, S
  <2> QED
    BY <1>5
<1>7. it[{}] = b /\ \A s \in SUBSET S : s # {} => it[s] = AddAOI(it[s \ {Max(s)}], added[Max(s)])
  <2> HIDE DEF it
  <2>1. \A s \in SUBSET S : it[s] = Step(it, s)
    BY <1>6
  <2> QED
    BY <2>1
<1>8. AddEach(b, added) = it[S]
  BY DEF AddEach, FoldLeft, MapThenFoldSet
<1> DEFINE Good(v, s) == v \in Seq(Names) /\ IsInjective(v) /\ Range(v) = Range(b) \cup {added[x] : x \in s}
<1>9. ASSUME NEW s \in SUBSET S, s # {}, Good(it[s \ {Max(s)}], s \ {Max(s)}) PROVE Good(it[s], s)
  <2> DEFINE v == it[s \ {Max(s)}]
             m == Max(s)
  <2>1. m \in s /\ added[m] \in Names
    BY <1>2, <1>9
  <2>2. it[s] = AddAOI(v, added[m])
    BY <1>7, <1>9
  <2>3. /\ it[s] \in Seq(Names) /\ IsInjective(it[s])
        /\ Range(it[s]) = Range(v) \cup {added[m]}
    <3> HIDE DEF v, m, it
    <3>1. v \in Seq(Names) /\ IsInjective(v)
      BY <1>9 DEF v, m
    <3> QED
      BY <2>1, <2>2, <3>1, AddOne
  <2>4. Range(v) = Range(b) \cup {added[x] : x \in s \ {m}}
    BY <1>9
  <2>5. {added[x] : x \in s} = {added[x] : x \in s \ {m}} \cup {added[m]}
    BY <2>1
  <2> HIDE DEF v, m, it
  <2> QED
    BY <2>3, <2>4, <2>5
<1>10. Good(it[{}], {})
  <2> HIDE DEF it
  <2> QED
    BY <1>7
<1>11. Good(it[S], S)
  <2> DEFINE Bad == {s \in SUBSET S : ~Good(it[s], s)}
  <2> SUFFICES ASSUME Bad # {} PROVE FALSE
    OBVIOUS
  <2> HIDE DEF it, Good
  <2>1. Bad \in SUBSET SUBSET S
    OBVIOUS
  <2> HIDE DEF S, Bad
  <2>2. PICK s \in Bad : \A t \in Bad : ~(t \subseteq s /\ t # s)
    BY <1>1, <2>1, LeastPart
  <2>3. s \in SUBSET S /\ ~Good(it[s], s) /\ s # {}
    BY <1>10 DEF Bad
  <2>4. s \ {Max(s)} \in SUBSET S /\ s \ {Max(s)} \subseteq s /\ s \ {Max(s)} # s
    BY <1>2, <2>3
  <2>5. Good(it[s \ {Max(s)}], s \ {Max(s)})
    BY <2>2, <2>4 DEF Bad
  <2> QED
    BY <1>9, <2>3, <2>5
<1> QED
  <2>1. Range(added) = {added[x] : x \in S}
    BY DEF Range
  <2> HIDE DEF it, S
  <2> QED
    BY <1>8, <1>11, <2>1

--------------------------------------------------------------------------------
(* The selection. *)

\* A frame for each of several different members leaves the others.
LEMMA FlipAll ==
  ASSUME NEW T, NEW n \in Nat, NEW sel, DOMAIN sel = 1 .. n,
         \A i \in 1 .. n : sel[i][2] \in T,
         \A i, j \in 1 .. n : sel[i][2] = sel[j][2] => i = j
  PROVE  FlipEach(T, sel) = T \ {sel[i][2] : i \in 1 .. n}
<1> DEFINE S  == 1 .. n
           V  == SUBSET T
           Op == [x \in S |-> [v \in V |-> Flip(v, sel[x][2])]]
           c  == [s \in SUBSET S |-> CHOOSE x \in s : TRUE]
           Step(iter, s) == IF s = {} THEN T
                            ELSE Flip(iter[s \ {CHOOSE x \in s : TRUE}], sel[CHOOSE x \in s : TRUE][2])
           it == CHOOSE iter : iter = [s \in SUBSET S |-> Step(iter, s)]
<1>1. IsFiniteSet(S) /\ T \in V
  BY FS_Interval
<1>2. \A s \in SUBSET S : s # {} => (CHOOSE x \in s : TRUE) \in s
  OBVIOUS
<1>3. \A x \in S, v \in V : Flip(v, sel[x][2]) \in V
  BY DEF Flip
<1>4. \E g \in [SUBSET S -> V] : IsFold(g, S, T, c, Op)
  <2>1. \A s \in SUBSET S : s # {} => c[s] \in s
    BY <1>2
  <2>2. \A x \in S, v \in V : Op[x][v] \in V
    BY <1>3
  <2> HIDE DEF S, V, Op, c
  <2> QED
    BY <1>1, <2>1, <2>2, FoldExists
<1>5. \E g : g = [s \in SUBSET S |-> Step(g, s)]
  <2>1. PICK g \in [SUBSET S -> V] : \A s \in SUBSET S : g[s] = IF s = {} THEN T ELSE Op[c[s]][g[s \ {c[s]}]]
    BY <1>4 DEF IsFold
  <2>2. ASSUME NEW s \in SUBSET S PROVE g[s] = Step(g, s)
    <3>1. CASE s = {}
      BY <2>1, <3>1
    <3>2. CASE s # {}
      <4> DEFINE m == CHOOSE x \in s : TRUE
      <4>1. m \in S /\ s \ {m} \in SUBSET S /\ c[s] = m
        BY <1>2, <3>2
      <4> HIDE DEF m
      <4>2. g[s \ {m}] \in V
        BY <4>1
      <4>3. Op[m][g[s \ {m}]] = Flip(g[s \ {m}], sel[m][2])
        BY <4>1, <4>2
      <4>4. g[s] = Flip(g[s \ {m}], sel[m][2])
        <5> HIDE DEF c, Op
        <5> QED
          BY <2>1, <3>2, <4>1, <4>3
      <4> QED
        BY <3>2, <4>4 DEF m
    <3> QED
      BY <3>1, <3>2
  <2> HIDE DEF S, V, Step
  <2>3. g = [s \in SUBSET S |-> Step(g, s)]
    BY <2>2
  <2> QED
    BY <2>3
<1>6. it = [s \in SUBSET S |-> Step(it, s)]
  <2> HIDE DEF Step, S
  <2> QED
    BY <1>5
<1>7. it[{}] = T /\ \A s \in SUBSET S : s # {} =>
        it[s] = Flip(it[s \ {CHOOSE x \in s : TRUE}], sel[CHOOSE x \in s : TRUE][2])
  <2> HIDE DEF it
  <2>1. \A s \in SUBSET S : it[s] = Step(it, s)
    BY <1>6
  <2> QED
    BY <2>1
<1>8. FlipEach(T, sel) = it[S]
  BY DEF FlipEach, FoldSeq, FoldFunction, FoldFunctionOnSet, MapThenFoldSet
<1> DEFINE Good(v, s) == v = T \ {sel[i][2] : i \in s}
<1>9. ASSUME NEW s \in SUBSET S, s # {}, NEW m \in s, m = CHOOSE x \in s : TRUE, Good(it[s \ {m}], s \ {m})
      PROVE  Good(it[s], s)
  <2>1. it[s] = Flip(it[s \ {m}], sel[m][2])
    BY <1>7, <1>9
  <2>2. sel[m][2] \in it[s \ {m}]
    BY <1>9
  <2>3. it[s] = it[s \ {m}] \ {sel[m][2]}
    BY <2>1, <2>2 DEF Flip
  <2>4. {sel[i][2] : i \in s} = {sel[i][2] : i \in s \ {m}} \cup {sel[m][2]}
    OBVIOUS
  <2> HIDE DEF it
  <2> QED
    BY <1>9, <2>3, <2>4
<1>10. Good(it[{}], {})
  <2> HIDE DEF it
  <2> QED
    BY <1>7
<1>11. Good(it[S], S)
  <2> DEFINE Bad == {s \in SUBSET S : ~Good(it[s], s)}
  <2> SUFFICES ASSUME Bad # {} PROVE FALSE
    OBVIOUS
  <2> HIDE DEF it, Good
  <2>1. Bad \in SUBSET SUBSET S
    OBVIOUS
  <2> HIDE DEF S, Bad
  <2>2. PICK s \in Bad : \A t \in Bad : ~(t \subseteq s /\ t # s)
    BY <1>1, <2>1, LeastPart
  <2>3. s \in SUBSET S /\ ~Good(it[s], s) /\ s # {}
    BY <1>10 DEF Bad
  <2>4. PICK m \in s : m = CHOOSE x \in s : TRUE
    BY <1>2, <2>3
  <2>5. s \ {m} \in SUBSET S /\ s \ {m} \subseteq s /\ s \ {m} # s
    BY <2>3
  <2>6. Good(it[s \ {m}], s \ {m})
    BY <2>2, <2>5 DEF Bad
  <2> QED
    BY <1>9, <2>3, <2>4, <2>6
<1> QED
  <2> HIDE DEF it
  <2> QED
    BY <1>8, <1>11

--------------------------------------------------------------------------------
(* The inductive invariant, in three parts: what is selected and what a listener *)
(* makes of it, the walls and what it makes of them, the rest.                   *)

Listed   == [hidden : BOOLEAN, name : Seq(Words) \cup {None}, entries : Seq(Names)]
Selected == Range(SelectedAOIs)

SelectionInv ==
  /\ image \in Images \cup {None}
  /\ SelectedAOIs \in Seq(Images \X Nat) /\ IsInjective(SelectedAOIs)
  /\ \A q \in Selected : q[1] = image /\ q[2] \in DOMAIN AOIs
  /\ sv_selected \subseteq Nat
  /\ "selection" \notin missed => sv_selected = {q[2] : q \in Selected}

Shown == Wall \ Hidden

\* With names of their own the lists shown can be told apart.
NamesApart == UniqueNames => \A v, w \in Shown : walls[v].name = walls[w].name => v = w

\* The listener has a list for every wall shown, with what is on it.
Followed ==
  UniqueNames /\ "lists" \notin missed =>
    /\ DOMAIN sv_lists = {walls[w].name : w \in Shown}
    /\ \A w \in Shown : sv_lists[walls[w].name] = Range(walls[w].entries)

ListsType == /\ sv_lists = [n \in DOMAIN sv_lists |-> sv_lists[n]]
             /\ DOMAIN sv_lists \subseteq Seq(Words)
             /\ \A n \in DOMAIN sv_lists : sv_lists[n] \subseteq Names

WallInv == walls \in [Wall -> Listed] /\ ListsType /\ ListsOfImage /\ NamesApart /\ Followed

RestInv == /\ message_queue \in Seq(Commands) /\ missed \subseteq {"selection", "lists"}
           /\ MC_Right \in BOOLEAN /\ recording \in BOOLEAN
           /\ menu \in [open : BOOLEAN, text : Seq(Words)]

IInv == SelectionInv /\ WallInv /\ RestInv

--------------------------------------------------------------------------------

\* What a command carries, and that taking it leaves commands.
LEMMA Taken ==
  ASSUME message_queue \in Seq(Commands), NEW to, Dequeue(to)
  PROVE  /\ message_queue' \in Seq(Commands)
         /\ to = "image" => Head(message_queue).arg \in Images
         /\ to = "speech" => Head(message_queue).arg \in Words
         /\ to = "visibility" => Head(message_queue).arg \in BOOLEAN
<1>1. Head(message_queue) \in Commands /\ Tail(message_queue) \in Seq(Commands)
  <2> HIDE DEF Commands
  <2> QED
    BY HeadTailProperties DEF Dequeue
<1> QED
  BY <1>1 DEF Dequeue, Commands

LEMMA AOIsType ==
  ASSUME image \in Images \cup {None}
  PROVE  DOMAIN AOIs \subseteq Nat /\ \A i \in DOMAIN AOIs : AOIs[i] \in Names
<1>1. CASE image = None
  <2>1. AOIs = << >>
    BY <1>1 DEF AOIs
  <2> QED
    BY <2>1
<1>2. CASE image # None
  <2>1. image \in Images /\ AOIs = AOINames[image] /\ AOINames[image] \in Seq(Range(AOINames[image]))
    BY <1>2, BoardAssumption DEF AOIs
  <2>2. DOMAIN AOINames[image] = 1 .. Len(AOINames[image]) /\ Len(AOINames[image]) \in Nat
    BY <2>1, LenProperties
  <2>3. \A i \in DOMAIN AOINames[image] : AOINames[image][i] \in Names
    BY <2>1 DEF Names, Range
  <2> QED
    BY <2>1, <2>2, <2>3
<1> QED
  BY <1>1, <1>2

LEMMA SelectionStays ==
  ASSUME SelectionInv, UNCHANGED <<sceneVars, sv_selected>>,
         "selection" \in missed => "selection" \in missed'
  PROVE  SelectionInv'
  BY DEF SelectionInv, sceneVars, AOIs, Selected

LEMMA ImageSelects ==
  ASSUME IInv, NEW gazed \in BOOLEAN, TickImage(gazed)
  PROVE  SelectionInv'
<1>1. image' \in Images
  BY Taken DEF IInv, RestInv, TickImage, UpdateDynTex
<1>2. SelectedAOIs' = << >> /\ sv_selected' = {}
  BY DEF TickImage, UpdateDynTex, HearsImage
<1>3. << >> \in Seq(Images \X Nat) /\ IsInjective(<< >>) /\ Range(<< >>) = {}
  BY DEF IsInjective, Range
<1> HIDE DEF Range, IsInjective
<1> QED
  BY <1>1, <1>2, <1>3 DEF SelectionInv, Selected

LEMMA TriggerSelects ==
  ASSUME IInv, NEW i \in DOMAIN AOIs, TriggerReleased(i)
  PROVE  SelectionInv'
<1> DEFINE p == <<image, i>>
<1>1. image \in Images /\ i \in Nat /\ p \in Images \X Nat /\ image' = image /\ missed' = missed
  BY AOIsType DEF IInv, SelectionInv, TriggerReleased
<1>2. /\ SelectedAOIs \in Seq(Images \X Nat) /\ IsInjective(SelectedAOIs) /\ sv_selected \subseteq Nat
      /\ \A q \in Selected : q[1] = image /\ q[2] \in DOMAIN AOIs
      /\ "selection" \notin missed => sv_selected = {q[2] : q \in Selected}
  BY DEF IInv, SelectionInv
<1>3. \A q \in Selected : q = p <=> q[2] = i
  <2>1. \A q \in Selected : q \in Images \X Nat
    BY <1>2, ElementOfSeq, LenProperties DEF Selected, Range
  <2> QED
    BY <1>2, <2>1
<1>4. p[2] = i /\ p[1] = image
  OBVIOUS
<1>5. p \in Selected <=> Contains(SelectedAOIs, p)
  BY <1>2, LenProperties DEF Selected, Range, Contains
<1> HIDE DEF p
<1>6. /\ SelectedAOIs' \in Seq(Images \X Nat) /\ IsInjective(SelectedAOIs')
      /\ Selected' = IF p \in Selected THEN Selected \ {p} ELSE Selected \cup {p}
  <2>1. SelectedAOIs' = ToggleSelectedAOI(p)
    BY DEF TriggerReleased, p
  <2>2. CASE Contains(SelectedAOIs, p)
    BY <1>2, <1>5, <2>1, <2>2, RemoveFound DEF ToggleSelectedAOI, Selected
  <2>3. CASE ~Contains(SelectedAOIs, p)
    BY <1>1, <1>2, <1>5, <2>1, <2>3, AppendOne DEF ToggleSelectedAOI, Selected
  <2> QED
    BY <2>2, <2>3
<1>7. \A q \in Selected' : q[1] = image /\ q[2] \in DOMAIN AOIs
  BY <1>2, <1>4, <1>6
<1>8. sv_selected' = IF "selection" \in missed THEN {} ELSE Flip(sv_selected, i)
  BY DEF TriggerReleased, HearsSelection
<1>9. ASSUME "selection" \notin missed PROVE Flip(sv_selected, i) = {q[2] : q \in Selected'}
  <2>1. i \in sv_selected <=> p \in Selected
    BY <1>2, <1>3, <1>9
  <2>2. CASE p \in Selected
    <3>1. Flip(sv_selected, i) = {q[2] : q \in Selected} \ {i}
      BY <1>2, <1>9, <2>1, <2>2 DEF Flip
    <3> QED
      BY <1>3, <1>6, <2>2, <3>1
  <2>3. CASE p \notin Selected
    <3>1. Flip(sv_selected, i) = {q[2] : q \in Selected} \cup {i}
      BY <1>2, <1>9, <2>1, <2>3 DEF Flip
    <3> QED
      BY <1>4, <1>6, <2>3, <3>1
  <2> QED
    BY <2>2, <2>3
<1>10. Flip(sv_selected, i) \subseteq Nat
  BY <1>1, <1>2 DEF Flip
<1> QED
  BY <1>1, <1>6, <1>7, <1>8, <1>9, <1>10 DEF SelectionInv, AOIs

\* Every AOI that was selected is told off.
LEMMA ClearSelects ==
  ASSUME SelectionInv, ClearSelectedAOIs, UNCHANGED <<image, missed>>
  PROVE  SelectionInv'
<1> DEFINE n == Len(SelectedAOIs)
<1>1. /\ n \in Nat /\ DOMAIN SelectedAOIs = 1 .. n /\ \A k \in 1 .. n : SelectedAOIs[k] \in Images \X Nat
  BY LenProperties, ElementOfSeq DEF SelectionInv
<1>2. \A k \in 1 .. n : SelectedAOIs[k][1] = image
  BY <1>1 DEF SelectionInv, Selected, Range
<1> HIDE DEF n
<1>3. \A k, l \in 1 .. n : SelectedAOIs[k][2] = SelectedAOIs[l][2] => k = l
  <2>1. ASSUME NEW k \in 1 .. n, NEW l \in 1 .. n, SelectedAOIs[k][2] = SelectedAOIs[l][2]
        PROVE  SelectedAOIs[k] = SelectedAOIs[l]
    BY <1>1, <1>2, <2>1
  <2> QED
    BY <1>1, <2>1 DEF SelectionInv, IsInjective
<1>4. /\ SelectedAOIs' = << >> /\ << >> \in Seq(Images \X Nat) /\ IsInjective(<< >>) /\ Range(<< >>) = {}
  <2>1. SelectedAOIs' = << >>
    BY DEF ClearSelectedAOIs
  <2>2. << >> \in Seq(Images \X Nat) /\ IsInjective(<< >>) /\ Range(<< >>) = {}
    BY DEF IsInjective, Range
  <2> QED
    BY <2>1, <2>2
<1>5. ASSUME "selection" \notin missed PROVE sv_selected' = {}
  <2>1. sv_selected = {SelectedAOIs[k][2] : k \in 1 .. n}
    BY <1>1, <1>5 DEF SelectionInv, Selected, Range
  <2>2. \A k \in 1 .. n : SelectedAOIs[k][2] \in sv_selected
    BY <2>1
  <2>3. FlipEach(sv_selected, SelectedAOIs) = sv_selected \ {SelectedAOIs[k][2] : k \in 1 .. n}
    BY SMTT(30), <1>1, <1>3, <2>2, FlipAll
  <2> QED
    BY <1>5, <2>1, <2>3 DEF ClearSelectedAOIs, HearsSelection
<1>6. "selection" \in missed => sv_selected' = {}
  BY DEF ClearSelectedAOIs, HearsSelection
<1> HIDE DEF Range, IsInjective
<1> QED
  BY <1>4, <1>5, <1>6 DEF SelectionInv, Selected

LEMMA SelectionStep == IInv /\ [Next]_vars => SelectionInv'
<1> SUFFICES ASSUME IInv, [Next]_vars PROVE SelectionInv'
  OBVIOUS
<1>1. SelectionInv
  BY DEF IInv
<1>2. CASE SciViSends \/ TickUnknown \/ TickSpeech \/ TickVisibility \/ InformantTick
  BY <1>1, <1>2, SelectionStays
     DEF SciViSends, TickUnknown, TickSpeech, TickVisibility, InformantTick, viewVars
<1>3. ASSUME NEW gazed \in BOOLEAN, TickImage(gazed) PROVE SelectionInv'
  BY <1>3, ImageSelects
<1>4. ASSUME NEW i \in DOMAIN AOIs, TriggerReleased(i) PROVE SelectionInv'
  BY <1>4, TriggerSelects
<1>5. ASSUME NEW w \in Wall, ClickAddEntry(w) PROVE SelectionInv'
  BY <1>1, <1>5, ClearSelects DEF ClickAddEntry
<1>6. ASSUME NEW w \in Wall, ClickDeleteList(w) PROVE SelectionInv'
  BY <1>1, <1>6, SelectionStays DEF ClickDeleteList
<1>7. ASSUME NEW w \in Wall, NEW k \in DOMAIN walls[w].entries, ClickRemoveEntry(w, k) PROVE SelectionInv'
  BY <1>1, <1>7, SelectionStays DEF ClickRemoveEntry
<1>8. CASE ClickCreateList \/ PressRecord \/ ReleaseRecord \/ ClickClear \/ ClickReady
  BY <1>1, <1>8, SelectionStays DEF ClickCreateList, PressRecord, ReleaseRecord, ClickClear, ClickReady, viewVars
<1>9. CASE UNCHANGED vars
  BY <1>1, <1>9, SelectionStays DEF vars, viewVars
<1> QED
  BY <1>2, <1>3, <1>4, <1>5, <1>6, <1>7, <1>8, <1>9 DEF Next, Tick, Player

--------------------------------------------------------------------------------
(* The walls. *)

LEMMA WallsStay ==
  ASSUME WallInv, UNCHANGED <<image, walls, sv_lists>>, "lists" \in missed => "lists" \in missed'
  PROVE  WallInv'
  BY DEF WallInv, ListsType, ListsOfImage, NamesApart, Followed, Shown, Hidden, AOIs

\* ListsOfImage, for one wall.
Fits(wall) == /\ IsInjective(wall.entries) /\ Range(wall.entries) \subseteq Range(AOIs)
              /\ wall.hidden => wall.entries = << >>

LEMMA HiddenFits == HiddenWall \in Listed /\ Fits(HiddenWall) /\ HiddenWall.hidden
<1>1. HiddenWall.hidden /\ HiddenWall.entries = << >> /\ HiddenWall \in Listed
  BY DEF HiddenWall, Listed
<1>2. IsInjective(<< >>) /\ Range(<< >>) = {}
  BY DEF IsInjective, Range
<1> HIDE DEF Range, IsInjective
<1> QED
  BY <1>1, <1>2 DEF Fits

\* With all walls cleared there is nothing to follow.
LEMMA ClearedWalls ==
  ASSUME ClearWalls, sv_lists' = NoLists
  PROVE  WallInv'
<1>1. \A w \in Wall : walls'[w] = HiddenWall
  BY DEF ClearWalls
<1>2. walls' \in [Wall -> Listed] /\ Shown' = {}
  BY <1>1, HiddenFits DEF ClearWalls, Shown, Hidden
<1>3. ListsOfImage'
  <2>1. \A w \in Wall : walls'[w].entries = << >>
    BY <1>1 DEF HiddenWall
  <2>2. IsInjective(<< >>) /\ Range(<< >>) = {}
    BY DEF IsInjective, Range
  <2> HIDE DEF Range, IsInjective
  <2> QED
    BY <2>1, <2>2 DEF ListsOfImage
<1>4. DOMAIN NoLists = {} /\ NoLists = [n \in DOMAIN NoLists |-> NoLists[n]]
  BY DEF NoLists
<1>5. ListsType'
  BY <1>4 DEF ListsType
<1> QED
  BY <1>2, <1>3, <1>4, <1>5 DEF WallInv, NamesApart, Followed

\* One wall changes, and fits the image.
LEMMA OneWall ==
  ASSUME WallInv, NEW w \in Wall, NEW wall \in Listed, Fits(wall), walls' = [walls EXCEPT ![w] = wall], image' = image
  PROVE  walls' \in [Wall -> Listed] /\ ListsOfImage'
<1>1. walls' \in [Wall -> Listed] /\ \A v \in Wall : walls'[v] = IF v = w THEN wall ELSE walls[v]
  BY DEF WallInv
<1>2. ASSUME NEW v \in Wall
      PROVE  /\ IsInjective(walls'[v].entries)
             /\ Range(walls'[v].entries) \subseteq Range(AOIs)
             /\ walls'[v].hidden => walls'[v].entries = << >>
  <2> HIDE DEF IsInjective, Range
  <2> QED
    BY <1>1 DEF WallInv, ListsOfImage, Fits
<1>3. AOIs' = AOIs
  BY DEF AOIs
<1> QED
  BY <1>1, <1>2, <1>3 DEF ListsOfImage

LEMMA HeardLists ==
  ASSUME NEW L, HearsLists(L), ListsType, UNCHANGED missed,
         L = [n \in DOMAIN L |-> L[n]], DOMAIN L \subseteq Seq(Words),
         \A n \in DOMAIN L : L[n] \subseteq Names
  PROVE  ListsType' /\ ("lists" \notin missed => sv_lists' = L)
<1>1. DOMAIN NoLists = {} /\ NoLists = [n \in DOMAIN NoLists |-> NoLists[n]]
  BY DEF NoLists
<1> QED
  BY <1>1 DEF HearsLists, ListsType

\* What is on one list changes.
LEMMA ListChanges ==
  ASSUME WallInv, NEW w \in Shown, NEW e \in Seq(Names), IsInjective(e), Range(e) \subseteq Range(AOIs),
         walls' = [walls EXCEPT ![w].entries = e], UNCHANGED <<image, missed>>,
         NEW L, HearsLists(L), L = [n \in DOMAIN L |-> L[n]], DOMAIN L = DOMAIN sv_lists,
         \A n \in DOMAIN L : L[n] \subseteq Names,
         \A n \in DOMAIN L : n # walls[w].name => L[n] = sv_lists[n],
         walls[w].name \in DOMAIN L /\ sv_lists[walls[w].name] = Range(walls[w].entries)
           => L[walls[w].name] = Range(e)
  PROVE  WallInv'
<1> DEFINE wall == [walls[w] EXCEPT !.entries = e]
<1>1. w \in Wall /\ ~walls[w].hidden /\ walls[w] \in Listed
  BY DEF Shown, Hidden, WallInv
<1>2. wall \in Listed /\ ~wall.hidden /\ wall.entries = e /\ wall.name = walls[w].name
  BY <1>1 DEF Listed
<1>3. walls' = [walls EXCEPT ![w] = wall]
  OBVIOUS
<1> HIDE DEF wall
<1>4. Fits(wall)
  BY <1>2 DEF Fits
<1>5. walls' \in [Wall -> Listed] /\ ListsOfImage'
  BY <1>1, <1>2, <1>3, <1>4, OneWall
<1>6. \A v \in Wall : walls'[v] = IF v = w THEN wall ELSE walls[v]
  BY <1>3 DEF WallInv
<1>7. Shown' = Shown /\ \A v \in Wall : walls'[v].name = walls[v].name
  BY <1>1, <1>2, <1>6 DEF Shown, Hidden
<1>8. NamesApart'
  BY <1>7 DEF WallInv, NamesApart, Shown
<1>9. ListsType' /\ ("lists" \notin missed => sv_lists' = L)
  BY HeardLists DEF WallInv, ListsType
<1>10. Followed'
  <2> SUFFICES ASSUME UniqueNames, "lists" \notin missed
               PROVE  /\ DOMAIN L = {walls'[v].name : v \in Shown}
                      /\ \A v \in Shown : L[walls'[v].name] = Range(walls'[v].entries)
    BY <1>7, <1>9 DEF Followed
  <2>1. /\ DOMAIN sv_lists = {walls[v].name : v \in Shown}
        /\ \A v \in Shown : sv_lists[walls[v].name] = Range(walls[v].entries)
        /\ \A u, v \in Shown : walls[u].name = walls[v].name => u = v
    BY DEF WallInv, Followed, NamesApart
  <2>2. Shown \subseteq Wall
    BY DEF Shown
  <2>3. DOMAIN L = {walls'[v].name : v \in Shown}
    BY <1>7, <2>1, <2>2
  <2>4. ASSUME NEW v \in Shown PROVE L[walls'[v].name] = Range(walls'[v].entries)
    <3> HIDE DEF Range
    <3>1. CASE v = w
      BY <1>1, <1>2, <1>6, <2>1, <3>1
    <3>2. CASE v # w
      BY <1>6, <1>7, <2>1, <2>2, <3>2
    <3> QED
      BY <3>1, <3>2
  <2> QED
    BY <2>3, <2>4
<1> QED
  BY <1>5, <1>8, <1>9, <1>10 DEF WallInv

LEMMA AddEntryKeeps ==
  ASSUME IInv, NEW w \in Wall, ClickAddEntry(w)
  PROVE  WallInv'
<1> DEFINE added == [k \in DOMAIN SelectedAOIs |-> AOINames[SelectedAOIs[k][1]][SelectedAOIs[k][2]]]
           e == AddEach(walls[w].entries, added)
           n == Len(SelectedAOIs)
           L == AddAOIs(walls[w].name, Range(added))
<1>1. w \in Shown /\ walls[w] \in Listed
  BY DEF ClickAddEntry, Shown, Hidden, IInv, WallInv
<1>2. n \in Nat /\ DOMAIN SelectedAOIs = 1 .. n
  BY LenProperties DEF IInv, SelectionInv
<1>3. \A k \in 1 .. n : added[k] \in Range(AOIs) /\ added[k] \in Names
  <2> SUFFICES ASSUME NEW k \in 1 .. n PROVE added[k] \in Range(AOIs) /\ added[k] \in Names
    OBVIOUS
  <2>1. SelectedAOIs[k][1] = image /\ SelectedAOIs[k][2] \in DOMAIN AOIs
    BY <1>2 DEF IInv, SelectionInv, Selected, Range
  <2>2. image # None
    <3>1. image = None => AOIs = << >>
      BY DEF AOIs
    <3>2. DOMAIN << >> = {}
      OBVIOUS
    <3> QED
      BY <2>1, <3>1, <3>2
  <2>3. added[k] = AOIs[SelectedAOIs[k][2]]
    BY <1>2, <2>1, <2>2 DEF AOIs
  <2> HIDE DEF added
  <2> QED
    BY <2>1, <2>3, AOIsType DEF Range, IInv, SelectionInv
<1>4. added \in [1 .. n -> Names]
  BY <1>2, <1>3
<1>5. Range(added) \subseteq Range(AOIs) /\ Range(added) \subseteq Names
  <2>1. DOMAIN added = 1 .. n
    BY <1>2
  <2> HIDE DEF added
  <2> QED
    BY <1>3, <2>1 DEF Range
<1>6. walls[w].entries \in Seq(Names) /\ IsInjective(walls[w].entries) /\ Range(walls[w].entries) \subseteq Range(AOIs)
  BY <1>1 DEF Listed, IInv, WallInv, ListsOfImage
<1>7. /\ walls' = [walls EXCEPT ![w].entries = e] /\ HearsLists(L) /\ UNCHANGED <<image, missed>>
  BY DEF ClickAddEntry
<1> HIDE DEF added
<1>8. e \in Seq(Names) /\ IsInjective(e) /\ Range(e) = Range(walls[w].entries) \cup Range(added)
  BY <1>2, <1>4, <1>6, AddAll
<1>9. WallInv /\ ListsType
  BY DEF IInv, WallInv
<1>10. /\ L = [m \in DOMAIN L |-> L[m]] /\ DOMAIN L = DOMAIN sv_lists
       /\ \A m \in DOMAIN L : L[m] = sv_lists[m] \cup (IF m = walls[w].name THEN Range(added) ELSE {})
  BY DEF AddAOIs
<1> HIDE DEF e, L
<1>11. \A m \in DOMAIN L : L[m] \subseteq Names
  BY <1>5, <1>9, <1>10 DEF ListsType
<1>12. ASSUME NEW m \in DOMAIN L, m # walls[w].name PROVE L[m] = sv_lists[m]
  <2>1. L[m] = sv_lists[m] \cup {}
    BY <1>10, <1>12
  <2> QED
    BY <2>1
<1>13. walls[w].name \in DOMAIN L /\ sv_lists[walls[w].name] = Range(walls[w].entries)
         => L[walls[w].name] = Range(e)
  BY <1>8, <1>10
<1>14. Range(e) \subseteq Range(AOIs)
  BY <1>5, <1>6, <1>8
<1> QED
  BY ZenonT(40), <1>1, <1>7, <1>8, <1>9, <1>10, <1>11, <1>12, <1>13, <1>14, ListChanges

LEMMA RemoveEntryKeeps ==
  ASSUME IInv, NEW w \in Wall, NEW k \in DOMAIN walls[w].entries, ClickRemoveEntry(w, k)
  PROVE  WallInv'
<1> DEFINE e == RemoveAt(walls[w].entries, k)
           a == walls[w].entries[k]
           L == RemoveAOI(walls[w].name, a)
<1>1. w \in Shown /\ walls[w] \in Listed
  BY DEF ClickRemoveEntry, Shown, Hidden, IInv, WallInv
<1>2. walls[w].entries \in Seq(Names) /\ IsInjective(walls[w].entries) /\ Range(walls[w].entries) \subseteq Range(AOIs)
  BY <1>1 DEF Listed, IInv, WallInv, ListsOfImage
<1>3. k \in 1 .. Len(walls[w].entries)
  BY <1>2, LenProperties
<1>4. e \in Seq(Names) /\ IsInjective(e) /\ Range(e) = Range(walls[w].entries) \ {a}
  BY <1>2, <1>3, RemoveOne
<1>5. walls' = [walls EXCEPT ![w].entries = e] /\ HearsLists(L) /\ UNCHANGED <<image, missed>>
  BY DEF ClickRemoveEntry, sceneVars
<1>6. WallInv /\ ListsType
  BY DEF IInv, WallInv
<1> HIDE DEF a
<1>7. /\ L = [m \in DOMAIN L |-> L[m]] /\ DOMAIN L = DOMAIN sv_lists
      /\ \A m \in DOMAIN L : L[m] = sv_lists[m] \ (IF m = walls[w].name THEN {a} ELSE {})
  BY DEF RemoveAOI
<1> HIDE DEF e, L
<1>8. \A m \in DOMAIN L : L[m] \subseteq Names
  BY <1>6, <1>7 DEF ListsType
<1>9. Range(e) \subseteq Range(AOIs)
  BY <1>2, <1>4
<1>10. ASSUME NEW m \in DOMAIN L, m # walls[w].name PROVE L[m] = sv_lists[m]
  <2>1. L[m] = sv_lists[m] \ {}
    BY <1>7, <1>10
  <2> QED
    BY <2>1
<1>11. walls[w].name \in DOMAIN L /\ sv_lists[walls[w].name] = Range(walls[w].entries)
         => L[walls[w].name] = Range(e)
  BY <1>4, <1>7
<1> QED
  BY <1>1, <1>4, <1>5, <1>6, <1>7, <1>8, <1>9, <1>10, <1>11, ListChanges

LEMMA DeleteKeeps ==
  ASSUME IInv, NEW w \in Wall, ClickDeleteList(w)
  PROVE  WallInv'
<1> DEFINE L == DeleteWall(walls[w].name)
<1>1. WallInv /\ ListsType /\ w \in Shown /\ UNCHANGED <<image, missed>> /\ HearsLists(L)
  BY DEF IInv, WallInv, ClickDeleteList, Shown, Hidden, sceneVars
<1>2. walls' = [walls EXCEPT ![w] = HiddenWall]
  BY DEF ClickDeleteList
<1>3. walls' \in [Wall -> Listed] /\ ListsOfImage'
  BY <1>1, <1>2, HiddenFits, OneWall
<1>4. \A v \in Wall : walls'[v] = IF v = w THEN HiddenWall ELSE walls[v]
  BY <1>1, <1>2 DEF WallInv
<1>5. Shown' = Shown \ {w} /\ Shown \subseteq Wall
  BY <1>4, HiddenFits DEF Shown, Hidden
<1>6. NamesApart'
  BY <1>1, <1>4, <1>5 DEF WallInv, NamesApart
<1>7. /\ L = [m \in DOMAIN L |-> L[m]] /\ DOMAIN L = DOMAIN sv_lists \ {walls[w].name}
      /\ \A m \in DOMAIN L : L[m] = sv_lists[m]
  BY DEF DeleteWall
<1> HIDE DEF L
<1>8. ListsType' /\ ("lists" \notin missed => sv_lists' = L)
  BY <1>1, <1>7, HeardLists DEF ListsType
<1>9. Followed'
  <2> SUFFICES ASSUME UniqueNames, "lists" \notin missed
               PROVE  /\ DOMAIN L = {walls'[v].name : v \in Shown'}
                      /\ \A v \in Shown' : L[walls'[v].name] = Range(walls'[v].entries)
    BY <1>1, <1>8 DEF Followed
  <2>1. /\ DOMAIN sv_lists = {walls[v].name : v \in Shown}
        /\ \A v \in Shown : sv_lists[walls[v].name] = Range(walls[v].entries)
        /\ \A u, v \in Shown : walls[u].name = walls[v].name => u = v
    BY <1>1 DEF WallInv, Followed, NamesApart
  <2>2. DOMAIN L = {walls[v].name : v \in Shown \ {w}}
    BY <1>1, <1>7, <2>1
  <2>3. \A v \in Shown' : walls'[v] = walls[v]
    BY <1>4, <1>5
  <2>4. DOMAIN L = {walls'[v].name : v \in Shown'}
    BY <1>5, <2>2, <2>3
  <2>5. ASSUME NEW v \in Shown' PROVE L[walls'[v].name] = Range(walls'[v].entries)
    <3> HIDE DEF Range
    <3>1. walls[v].name \in DOMAIN L
      BY <1>5, <2>2
    <3> QED
      BY <1>5, <1>7, <2>1, <2>3, <3>1
  <2> QED
    BY <2>4, <2>5
<1> QED
  BY <1>3, <1>6, <1>8, <1>9 DEF WallInv

LEMMA FirstIsHidden ==
  ASSUME Hidden # {}
  PROVE  FirstHidden \in Hidden /\ \A v \in Hidden : FirstHidden <= v
<1>1. Hidden \in SUBSET Nat
  BY DEF Hidden, Wall
<1>2. PICK w \in Hidden : \A v \in Hidden : w <= v
  BY <1>1, Least
<1> HIDE DEF Hidden
<1> QED
  BY <1>2 DEF FirstHidden, Min

LEMMA ReadyKeeps ==
  ASSUME IInv, ClickReady
  PROVE  WallInv'
<1>1. WallInv /\ ListsType /\ UNCHANGED <<image, missed>> /\ menu.text \in Seq(Words)
  BY DEF IInv, WallInv, RestInv, ClickReady, sceneVars
<1>2. CASE Hidden = {}
  BY <1>1, <1>2, WallsStay DEF ClickReady
<1>3. CASE Hidden # {}
  <2> DEFINE w == FirstHidden
             t == menu.text
             wall == [walls[w] EXCEPT !.hidden = FALSE, !.name = t]
             L == NewWall(t)
  <2>1. w \in Hidden /\ w \in Wall /\ walls[w] \in Listed /\ walls[w].hidden /\ w \notin Shown
    BY <1>1, <1>3, FirstIsHidden DEF Hidden, WallInv, Shown
  <2>2. /\ walls' = [walls EXCEPT ![w].hidden = FALSE, ![w].name = t] /\ HearsLists(L)
        /\ UniqueNames => t \notin {walls[v].name : v \in Shown}
    BY <1>3 DEF ClickReady, Shown
  <2> HIDE DEF w
  <2>3. walls' = [walls EXCEPT ![w] = wall]
    BY <2>2
  <2>4. wall \in Listed /\ ~wall.hidden /\ wall.entries = << >> /\ wall.name = t
    BY <1>1, <2>1 DEF Listed, WallInv, ListsOfImage
  <2> HIDE DEF wall
  <2>5. IsInjective(<< >>) /\ Range(<< >>) = {}
    BY DEF IsInjective, Range
  <2>6. Fits(wall)
    <3> HIDE DEF IsInjective, Range
    <3> QED
      BY <2>4, <2>5 DEF Fits
  <2>7. walls' \in [Wall -> Listed] /\ ListsOfImage'
    BY <1>1, <2>1, <2>3, <2>4, <2>6, OneWall
  <2>8. \A v \in Wall : walls'[v] = IF v = w THEN wall ELSE walls[v]
    BY <1>1, <2>3 DEF WallInv
  <2>9. Shown' = Shown \cup {w} /\ Shown \subseteq Wall
    BY <2>1, <2>4, <2>8 DEF Shown, Hidden
  <2>10. walls'[w] = wall /\ \A v \in Shown : walls'[v] = walls[v]
    BY <2>1, <2>8, <2>9
  <2>11. NamesApart'
    <3> SUFFICES ASSUME UniqueNames, NEW u \in Shown', NEW v \in Shown', walls'[u].name = walls'[v].name
                 PROVE  u = v
      BY DEF NamesApart
    <3>1. \A x \in Shown : walls'[x] = walls[x] /\ walls[x].name # t
      BY <2>2, <2>10
    <3>2. u \in Shown /\ v \in Shown => u = v
      BY <1>1, <2>10 DEF WallInv, NamesApart
    <3> QED
      BY <2>4, <2>9, <2>10, <3>1, <3>2
  <2>12. /\ L = [m \in DOMAIN L |-> L[m]] /\ DOMAIN L = DOMAIN sv_lists \cup {t}
         /\ \A m \in DOMAIN L : L[m] = IF m = t THEN {} ELSE sv_lists[m]
    BY DEF NewWall
  <2> HIDE DEF L, t
  <2>13. DOMAIN L \subseteq Seq(Words) /\ \A m \in DOMAIN L : L[m] \subseteq Names
    BY <1>1, <2>12 DEF ListsType, t
  <2>14. ListsType' /\ ("lists" \notin missed => sv_lists' = L)
    BY <1>1, <2>2, <2>12, <2>13, HeardLists
  <2>15. Followed'
    <3> SUFFICES ASSUME UniqueNames, "lists" \notin missed
                 PROVE  /\ DOMAIN L = {walls'[v].name : v \in Shown'}
                        /\ \A v \in Shown' : L[walls'[v].name] = Range(walls'[v].entries)
      BY <1>1, <2>14 DEF Followed
    <3>1. /\ DOMAIN sv_lists = {walls[v].name : v \in Shown}
          /\ \A v \in Shown : sv_lists[walls[v].name] = Range(walls[v].entries)
      BY <1>1 DEF WallInv, Followed
    <3>2. DOMAIN L = {walls'[v].name : v \in Shown'}
      BY <2>4, <2>9, <2>10, <2>12, <3>1
    <3>3. ASSUME NEW v \in Shown' PROVE L[walls'[v].name] = Range(walls'[v].entries)
      <4> HIDE DEF Range
      <4>1. CASE v = w
        BY <2>4, <2>5, <2>10, <2>12, <4>1
      <4>2. CASE v \in Shown
        <5>1. walls[v].name \in DOMAIN L /\ walls[v].name # t
          BY <2>2, <2>12, <3>1, <4>2
        <5> QED
          BY <2>10, <2>12, <3>1, <4>2, <5>1
      <4> QED
        BY <2>9, <4>1, <4>2
    <3> QED
      BY <3>2, <3>3
  <2> QED
    BY <2>7, <2>11, <2>14, <2>15 DEF WallInv
<1> QED
  BY <1>2, <1>3

LEMMA WallStep == IInv /\ [Next]_vars => WallInv'
<1> SUFFICES ASSUME IInv, [Next]_vars PROVE WallInv'
  OBVIOUS
<1>1. WallInv
  BY DEF IInv
<1>2. CASE SciViSends \/ TickSpeech \/ TickVisibility \/ InformantTick
  BY <1>1, <1>2, WallsStay DEF SciViSends, TickSpeech, TickVisibility, InformantTick, sceneVars, viewVars
<1>3. CASE TickUnknown
  BY <1>3, ClearedWalls DEF TickUnknown
<1>4. ASSUME NEW gazed \in BOOLEAN, TickImage(gazed) PROVE WallInv'
  BY <1>4, ClearedWalls DEF TickImage, HearsImage
<1>5. ASSUME NEW i \in DOMAIN AOIs, TriggerReleased(i) PROVE WallInv'
  BY <1>1, <1>5, WallsStay DEF TriggerReleased
<1>6. ASSUME NEW w \in Wall, ClickAddEntry(w) PROVE WallInv'
  BY <1>6, AddEntryKeeps
<1>7. ASSUME NEW w \in Wall, ClickDeleteList(w) PROVE WallInv'
  BY <1>7, DeleteKeeps
<1>8. ASSUME NEW w \in Wall, NEW k \in DOMAIN walls[w].entries, ClickRemoveEntry(w, k) PROVE WallInv'
  BY <1>8, RemoveEntryKeeps
<1>9. CASE ClickReady
  BY <1>9, ReadyKeeps
<1>10. CASE ClickCreateList \/ PressRecord \/ ReleaseRecord \/ ClickClear
  BY <1>1, <1>10, WallsStay DEF ClickCreateList, PressRecord, ReleaseRecord, ClickClear, sceneVars, viewVars
<1>11. CASE UNCHANGED vars
  BY <1>1, <1>11, WallsStay DEF vars, sceneVars, viewVars
<1> QED
  BY <1>2, <1>3, <1>4, <1>5, <1>6, <1>7, <1>8, <1>9, <1>10, <1>11 DEF Next, Tick, Player

--------------------------------------------------------------------------------
(* The rest. *)

LEMMA RestStep == IInv /\ [Next]_vars => RestInv'
<1> SUFFICES ASSUME IInv, [Next]_vars PROVE RestInv'
  OBVIOUS
<1>1. RestInv
  BY DEF IInv
<1>2. << >> \in Seq(Words)
  OBVIOUS
<1>3. CASE SciViSends
  <2>1. PICK c \in Commands : message_queue' = Append(message_queue, c)
    BY <1>3 DEF SciViSends
  <2>2. message_queue' \in Seq(Commands)
    <3> HIDE DEF Commands
    <3> QED
      BY <1>1, <2>1, AppendProperties DEF RestInv
  <2> HIDE DEF Commands
  <2> QED
    BY <1>1, <1>3, <2>2 DEF SciViSends, RestInv, viewVars
<1>4. ASSUME NEW gazed \in BOOLEAN, TickImage(gazed) PROVE RestInv'
  <2>1. message_queue' \in Seq(Commands)
    BY <1>1, <1>4, Taken DEF TickImage, RestInv
  <2>2. missed' \subseteq {"selection", "lists"}
    BY <1>4 DEF TickImage, HearsImage
  <2> HIDE DEF Commands
  <2> QED
    BY <1>1, <1>4, <2>1, <2>2 DEF TickImage, RestInv
<1>5. CASE TickUnknown
  <2>1. message_queue' \in Seq(Commands)
    BY <1>1, <1>5, Taken DEF TickUnknown, RestInv
  <2> HIDE DEF Commands
  <2> QED
    BY <1>1, <1>5, <2>1 DEF TickUnknown, RestInv
<1>6. CASE TickSpeech
  <2>1. message_queue' \in Seq(Commands) /\ Head(message_queue).arg \in Words
    BY <1>1, <1>6, Taken DEF TickSpeech, RestInv
  <2>2. Append(menu.text, Head(message_queue).arg) \in Seq(Words)
    BY <1>1, <2>1, AppendProperties DEF RestInv
  <2>3. menu' \in [open : BOOLEAN, text : Seq(Words)]
    BY <1>1, <1>6, <2>2 DEF TickSpeech, RestInv
  <2> HIDE DEF Commands
  <2> QED
    BY <1>1, <1>6, <2>1, <2>3 DEF TickSpeech, RestInv, viewVars
<1>7. CASE TickVisibility
  <2>1. message_queue' \in Seq(Commands) /\ Head(message_queue).arg \in BOOLEAN
    BY <1>1, <1>7, Taken DEF TickVisibility, RestInv
  <2> HIDE DEF Commands
  <2> QED
    BY <1>1, <1>7, <2>1 DEF TickVisibility, RestInv, viewVars
<1> HIDE DEF Commands
<1>8. CASE InformantTick
  BY <1>1, <1>8 DEF InformantTick, RestInv, viewVars
<1>9. ASSUME NEW i \in DOMAIN AOIs, TriggerReleased(i) PROVE RestInv'
  BY <1>1, <1>9 DEF TriggerReleased, RestInv
<1>10. ASSUME NEW w \in Wall, ClickAddEntry(w) PROVE RestInv'
  BY <1>1, <1>10 DEF ClickAddEntry, RestInv
<1>11. ASSUME NEW w \in Wall, ClickDeleteList(w) PROVE RestInv'
  BY <1>1, <1>11 DEF ClickDeleteList, RestInv
<1>12. ASSUME NEW w \in Wall, NEW k \in DOMAIN walls[w].entries, ClickRemoveEntry(w, k) PROVE RestInv'
  BY <1>1, <1>12 DEF ClickRemoveEntry, RestInv
<1>13. CASE ClickCreateList \/ PressRecord \/ ReleaseRecord \/ ClickClear
  <2>1. menu' \in [open : BOOLEAN, text : Seq(Words)]
    <3>1. menu \in [open : BOOLEAN, text : Seq(Words)]
      BY <1>1 DEF RestInv
    <3>2. menu' = menu \/ menu' = [open |-> TRUE, text |-> << >>] \/ menu' = [menu EXCEPT !.text = << >>]
      BY <1>13 DEF ClickCreateList, SetRecordingMenuVisibility, PressRecord, ReleaseRecord, ClickClear
    <3>3. [open |-> TRUE, text |-> << >>] \in [open : BOOLEAN, text : Seq(Words)]
      BY <1>2
    <3>4. [menu EXCEPT !.text = << >>] \in [open : BOOLEAN, text : Seq(Words)]
      BY <1>2, <3>1
    <3> QED
      BY <3>1, <3>2, <3>3, <3>4
  <2>2. UNCHANGED <<message_queue, missed, MC_Right>> /\ recording' \in BOOLEAN
    BY <1>1, <1>13 DEF ClickCreateList, PressRecord, ReleaseRecord, ClickClear, RestInv, viewVars
  <2> QED
    BY <1>1, <2>1, <2>2 DEF RestInv
<1>14. CASE ClickReady
  BY <1>1, <1>2, <1>14 DEF ClickReady, SetRecordingMenuVisibility, RestInv
<1>15. CASE UNCHANGED vars
  BY <1>1, <1>15 DEF vars, viewVars, RestInv
<1> QED
  BY <1>3, <1>4, <1>5, <1>6, <1>7, <1>8, <1>9, <1>10, <1>11, <1>12, <1>13, <1>14, <1>15 DEF Next, Tick, Player

LEMMA InitHolds == Init => IInv
<1> SUFFICES ASSUME Init PROVE IInv
  OBVIOUS
<1>1. << >> \in Seq(Images \X Nat) /\ << >> \in Seq(Words) /\ << >> \in Seq(Commands)
  OBVIOUS
<1>2. IsInjective(<< >>) /\ Range(<< >>) = {}
  BY DEF IsInjective, Range
<1> HIDE DEF IsInjective, Range, Commands
<1>3. SelectionInv
  BY <1>1, <1>2 DEF Init, SelectionInv, Selected
<1>4. RestInv
  BY <1>1 DEF Init, RestInv
<1>5. \A w \in Wall : walls[w] = HiddenWall
  BY DEF Init
<1>6. Shown = {} /\ walls \in [Wall -> Listed] /\ ListsOfImage
  <2>1. \A w \in Wall : walls[w].hidden /\ walls[w].entries = << >>
    BY <1>5 DEF HiddenWall
  <2>2. walls \in [Wall -> Listed]
    BY HiddenFits DEF Init
  <2> QED
    BY <1>2, <2>1, <2>2 DEF Shown, Hidden, ListsOfImage
<1>7. sv_lists = NoLists /\ DOMAIN NoLists = {} /\ NoLists = [n \in DOMAIN NoLists |-> NoLists[n]]
  BY DEF Init, NoLists
<1>8. ListsType
  BY <1>7 DEF ListsType
<1>9. NamesApart /\ Followed
  BY <1>6, <1>7 DEF NamesApart, Followed
<1> QED
  BY <1>3, <1>4, <1>6, <1>8, <1>9 DEF IInv, WallInv

\* The invariant the properties of the board are read off: in every state the
\* player's clicks, the ticks and SciVi's commands lead to, the selection is one of
\* the image on show, the walls hold lists of it, and a listener that missed
\* nothing has both (Stimulus.cpp:117-190, ReadingTrackerGameMode.cpp:176-450).
THEOREM Invariance == Spec => []IInv
<1>1. Init => IInv
  BY InitHolds
<1>2. IInv /\ [Next]_vars => IInv'
  <2> SUFFICES ASSUME IInv, [Next]_vars PROVE SelectionInv' /\ WallInv' /\ RestInv'
    BY DEF IInv
  <2> QED
    BY SelectionStep, WallStep, RestStep
<1> QED
  BY <1>1, <1>2, PTL DEF Spec

\* Types, and that no pointer of the selection outlives the storage it points into
\* (Stimulus.cpp:132), for any number of images, AOIs, words and walls.
THEOREM SelectionIsFresh == Spec => []SelectionFresh
<1>1. IInv => SelectionFresh
  <2> SUFFICES ASSUME IInv PROVE SelectionFresh
    OBVIOUS
  <2>1. TypeOK
    <3> HIDE DEF Commands
    <3> QED
      BY DEF IInv, SelectionInv, WallInv, RestInv, ListsType, Listed, TypeOK
  <2>2. \A k \in DOMAIN SelectedAOIs : SelectedAOIs[k] \in Selected
    BY DEF Selected, Range
  <2> QED
    BY <2>1, <2>2 DEF IInv, SelectionInv, SelectionFresh
<1> QED
  BY <1>1, Invariance, PTL

\* A listener that heard the announcement of the image knows what is selected on it
\* (Stimulus.cpp:183-187): whatever clicks and commands came since.
THEOREM SelectionIsMirrored == Spec => []SelectionMirror
<1>1. IInv => SelectionMirror
  <2> SUFFICES ASSUME IInv, "selection" \notin missed
               PROVE  sv_selected = {SelectedAOIs[k][2] : k \in DOMAIN SelectedAOIs}
    BY DEF SelectionMirror
  <2>1. sv_selected = {q[2] : q \in {SelectedAOIs[k] : k \in DOMAIN SelectedAOIs}}
    BY DEF IInv, SelectionInv, Selected, Range
  <2> QED
    BY <2>1
<1> QED
  BY <1>1, Invariance, PTL

\* A list holds AOIs of the image on show, each once, and a hidden wall none
\* (WordListWall.cpp, ReadingTrackerGameMode.cpp:385).
THEOREM ListsAreOfImage == Spec => []ListsOfImage
<1>1. IInv => ListsOfImage
  BY DEF IInv, WallInv
<1> QED
  BY <1>1, Invariance, PTL

\* A listener that follows the wall log knows every list shown and what is on it, as
\* long as the lists have names of their own (ReadingTrackerGameMode.cpp:336).
THEOREM WallsAreMirrored == Spec => []WallMirror
<1>1. IInv => WallMirror
  <2> SUFFICES ASSUME IInv, UniqueNames, "lists" \notin missed
               PROVE  sv_lists = [n \in {walls[w].name : w \in Shown} |->
                        UNION {Range(walls[w].entries) : w \in {v \in Shown : walls[v].name = n}}]
    BY DEF WallMirror, Shown
  <2>1. /\ DOMAIN sv_lists = {walls[w].name : w \in Shown}
        /\ \A w \in Shown : sv_lists[walls[w].name] = Range(walls[w].entries)
        /\ \A v, w \in Shown : walls[v].name = walls[w].name => v = w
        /\ sv_lists = [n \in DOMAIN sv_lists |-> sv_lists[n]]
    BY DEF IInv, WallInv, Followed, NamesApart, ListsType
  <2>2. ASSUME NEW n \in DOMAIN sv_lists
        PROVE  sv_lists[n] = UNION {Range(walls[w].entries) : w \in {v \in Shown : walls[v].name = n}}
    <3> HIDE DEF Shown, Range
    <3>1. PICK u \in Shown : walls[u].name = n
      BY <2>1
    <3>2. {v \in Shown : walls[v].name = n} = {u}
      BY <2>1, <3>1
    <3>3. {Range(walls[w].entries) : w \in {v \in Shown : walls[v].name = n}} = {Range(walls[u].entries)}
      BY <3>2
    <3>4. UNION {Range(walls[u].entries)} = Range(walls[u].entries)
      OBVIOUS
    <3> QED
      BY <2>1, <3>1, <3>3, <3>4
  <2> HIDE DEF Shown, Range
  <2> QED
    BY <2>1, <2>2
<1> QED
  BY <1>1, Invariance, PTL

--------------------------------------------------------------------------------
(* Which wall is unhidden. *)

\* The walls are numbered by their distance.
LEMMA RemotenessGrows ==
  ASSUME NEW v \in Wall, NEW w \in Wall, Remoteness(v) < Remoteness(w)
  PROVE  v < w
<1>1. CASE MaxWallsCount = 3
  <2>1. Remoteness(1) = 1250000 /\ Remoteness(2) = 1250000 /\ Remoteness(3) = 2250000
    BY <1>1 DEF Remoteness, WallPlace, Cos, Sin
  <2> QED
    BY <1>1, <2>1 DEF Wall
<1>2. CASE MaxWallsCount = 5
  <2>1. /\ Remoteness(1) = 1250000 /\ Remoteness(2) = 1250000 /\ Remoteness(3) = 1956698
        /\ Remoteness(4) = 1956698 /\ Remoteness(5) = 2250000
    BY <1>2 DEF Remoteness, WallPlace, Cos, Sin
  <2> QED
    BY <1>2, <2>1 DEF Wall
<1> QED
  BY <1>1, <1>2, BoardAssumption

\* No step shows a wall while a nearer one stays hidden
\* (ReadingTrackerGameMode.cpp:318): only a new list shows one, the first that is
\* hidden, and the walls were numbered by their distance.
THEOREM NearestIsFirst == Spec => NearestFirst
<1> DEFINE P == \A w \in Wall : walls[w].hidden /\ ~walls'[w].hidden =>
                  \A v \in Wall : Remoteness(v) < Remoteness(w) => ~walls[v].hidden
<1>1. IInv /\ [Next]_vars => [P]_vars
  <2> SUFFICES ASSUME IInv, Next, NEW w \in Wall, walls[w].hidden, ~walls'[w].hidden,
                      NEW v \in Wall, Remoteness(v) < Remoteness(w)
               PROVE  ~walls[v].hidden
    OBVIOUS
  <2>1. walls \in [Wall -> Listed]
    BY DEF IInv, WallInv
  <2>2. walls' # walls
    OBVIOUS
  <2>3. ~ClearWalls
    BY HiddenFits DEF ClearWalls
  <2>4. ASSUME NEW x \in Wall, ClickAddEntry(x) PROVE FALSE
    BY <2>1, <2>4 DEF ClickAddEntry, Listed
  <2>5. ASSUME NEW x \in Wall, ClickDeleteList(x) PROVE FALSE
    BY <2>1, <2>5, HiddenFits DEF ClickDeleteList
  <2>6. ASSUME NEW x \in Wall, NEW k \in DOMAIN walls[x].entries, ClickRemoveEntry(x, k) PROVE FALSE
    BY <2>1, <2>6 DEF ClickRemoveEntry, Listed
  <2>7. ClickReady
    BY <2>2, <2>3, <2>4, <2>5, <2>6
       DEF Next, SciViSends, Tick, TickImage, TickUnknown, TickSpeech, TickVisibility, InformantTick, Player,
           TriggerReleased, ClickCreateList, PressRecord, ReleaseRecord, ClickClear
  <2>8. Hidden # {} /\ walls' = [walls EXCEPT ![FirstHidden].hidden = FALSE, ![FirstHidden].name = menu.text]
    BY <2>2, <2>7 DEF ClickReady
  <2>9. FirstHidden \in Hidden /\ \A x \in Hidden : FirstHidden <= x
    BY <2>8, FirstIsHidden
  <2>10. w = FirstHidden
    BY <2>1, <2>8
  <2>11. v < w
    BY RemotenessGrows
  <2>12. v \notin Hidden
    BY <2>9, <2>10, <2>11 DEF Wall, Hidden
  <2> QED
    BY <2>12 DEF Hidden
<1> QED
  BY <1>1, Invariance, PTL DEF Spec, NearestFirst
================================================================================
