------------------------------ MODULE SetLemmas ------------------------------
(***************************************************************************)
(* What the proofs of several components need to know of sets of numbers:  *)
(* that a bounded one has a greatest element, and that the id SQLite gives *)
(* to a new row is of no other row.                                        *)
(***************************************************************************)
EXTENDS Integers, FiniteSets, FiniteSetsExt, FiniteSetTheorems, WellFoundedInduction, TLAPS

\* A set of natural numbers that is not empty has a least element.
LEMMA LeastElement ==
    ASSUME NEW S \in SUBSET Nat, S # {}
    PROVE  \E x \in S : \A y \in S : x <= y
<1>1. PICK x \in S : \A y \in S : ~ (<<y, x>> \in OpToRel(<, Nat))
  BY NatLessThanWellFounded, WFMin
<1>2. ASSUME NEW y \in S PROVE x <= y
  <2>1. x \in Nat /\ y \in Nat
    OBVIOUS
  <2>2. y < x => <<y, x>> \in OpToRel(<, Nat)
    BY <2>1 DEF OpToRel
  <2>3. ~ (y < x)
    BY <1>1, <2>2, Zenon
  <2>4. QED
    BY <2>1, <2>3
<1>3. QED
  BY <1>2

\* Min is the least element of a set of natural numbers that is not empty.
LEMMA MinOf ==
    ASSUME NEW S \in SUBSET Nat, S # {}
    PROVE  Min(S) \in S /\ \A y \in S : Min(S) <= y
BY LeastElement DEF Min

\* Max is the greatest element of a set of natural numbers with an upper bound.
LEMMA MaxOfBounded ==
    ASSUME NEW S \in SUBSET Nat, S # {}, NEW b \in Nat, \A x \in S : x <= b
    PROVE  Max(S) \in S /\ \A y \in S : y <= Max(S)
<1> DEFINE T == {n \in Nat : \E x \in S : n = b - x}
<1>1. T # {} /\ T \in SUBSET Nat
  <2>1. PICK x \in S : TRUE
    OBVIOUS
  <2>2. b - x \in Nat
    OBVIOUS
  <2>3. QED
    BY <2>2
<1>2. PICK n \in T : \A m \in T : n <= m
  BY <1>1, LeastElement
<1>3. PICK x \in S : n = b - x
  OBVIOUS
<1>4. ASSUME NEW y \in S PROVE x >= y
  <2>1. b - y \in T
    OBVIOUS
  <2>2. n <= b - y
    BY <1>2, <2>1
  <2>3. QED
    BY <1>3, <2>2
<1>5. QED
  BY <1>4 DEF Max

\* Max of two numbers.
LEMMA MaxOfTwo ==
    ASSUME NEW a \in Int, NEW b \in Int
    PROVE  Max({a, b}) = IF a >= b THEN a ELSE b
<1>1. \E x \in {a, b} : \A y \in {a, b} : x >= y
  OBVIOUS
<1>2. Max({a, b}) \in {a, b} /\ Max({a, b}) >= a /\ Max({a, b}) >= b
  BY <1>1 DEF Max
<1>3. QED
  BY <1>2

\* One more than the greatest row id, which SQLite gives to the next row, is
\* greater than every row id: it is new, and at most one beyond any bound of theirs.
LEMMA NextRowidIsNew ==
    ASSUME NEW n \in Nat, NEW S \in SUBSET (1 .. n)
    PROVE  /\ 1 + Max({0} \cup S) \in 1 .. n + 1
           /\ 1 + Max({0} \cup S) \notin S
           /\ \A i \in S : i < 1 + Max({0} \cup S)
<1>1. /\ {0} \cup S \in SUBSET Nat
      /\ {0} \cup S # {}
      /\ \A x \in {0} \cup S : x <= n
  OBVIOUS
<1> DEFINE m == Max({0} \cup S)
<1>2. m \in {0} \cup S /\ \A y \in {0} \cup S : y <= m
  BY <1>1, MaxOfBounded
<1> HIDE DEF m
<1>3. m \in 0 .. n
  BY <1>2
<1>4. 1 + m \in 1 .. n + 1 /\ \A i \in S : i < 1 + m
  BY <1>2, <1>3
<1>5. QED
  BY <1>4 DEF m

\* The newest `n` of a set of numbered rows, those that fewer than `n` rows come after:
\* there are no more than `n`, and when a row is left out there are `n`, all newer.
LEMMA NewestOf ==
    ASSUME NEW S, NEW n \in Nat, NEW b \in Nat,
           \A x \in S : x.id \in Nat /\ x.id <= b,
           \A x, y \in S : x.id = y.id => x = y
    PROVE  LET newest == {x \in S : Cardinality({y \in S : y.id > x.id}) < n} IN
           /\ IsFiniteSet(S) /\ newest \subseteq S
           /\ Cardinality(newest) <= n
           /\ \A x \in S : x \notin newest =>
                Cardinality(newest) = n /\ \A y \in newest : y.id > x.id
<1> DEFINE After(x) == {y \in S : y.id > x.id}
           newest == {x \in S : Cardinality(After(x)) < n}
<1>1. IsFiniteSet(S)
  <2> DEFINE f == [x \in S |-> x.id]
  <2>1. f \in Injection(S, 0 .. b)
    BY DEF Injection, IsInjective
  <2>2. IsFiniteSet(0 .. b)
    BY FS_Interval
  <2>3. QED
    BY <2>1, <2>2, FS_Injection
<1>2. /\ newest \subseteq S /\ IsFiniteSet(newest) /\ Cardinality(newest) \in Nat
      /\ \A x \in S : IsFiniteSet(After(x)) /\ Cardinality(After(x)) \in Nat
      /\ \A x \in newest : Cardinality(After(x)) < n
      /\ \A x \in S : x \notin newest => Cardinality(After(x)) >= n
  <2>1. newest \subseteq S /\ \A x \in S : After(x) \subseteq S
    OBVIOUS
  <2>2. /\ IsFiniteSet(newest) /\ Cardinality(newest) \in Nat
        /\ \A x \in S : IsFiniteSet(After(x)) /\ Cardinality(After(x)) \in Nat
    BY <1>1, <2>1, FS_Subset, FS_CardinalityType
  <2>3. QED
    BY <2>1, <2>2
<1>3. \A x \in S : \A y \in S : y \in After(x) <=> y.id > x.id
  OBVIOUS
<1> HIDE DEF After, newest
<1>4. Cardinality(newest) <= n
  <2>1. CASE newest = {}
    BY <2>1, FS_EmptySet
  <2>2. CASE newest # {}
    <3>1. PICK x \in newest : \A y \in newest : x.id <= y.id
      <4> DEFINE I == {y.id : y \in newest}
      <4>1. I \in SUBSET Nat /\ I # {}
        BY <1>2, <2>2
      <4>2. PICK i \in I : \A j \in I : i <= j
        BY <4>1, LeastElement
      <4>3. QED
        BY <4>2
    <3>2. newest \ {x} \subseteq After(x)
      BY <1>2, <1>3, <3>1
    <3>3. Cardinality(newest \ {x}) <= Cardinality(After(x))
      BY <1>2, <3>1, <3>2, FS_Subset
    <3>4. Cardinality(newest \ {x}) = Cardinality(newest) - 1
      BY <1>2, <3>1, FS_RemoveElement
    <3>5. Cardinality(After(x)) < n /\ Cardinality(After(x)) \in Nat
      BY <1>2, <3>1
    <3>6. QED
      BY <1>2, <3>3, <3>4, <3>5
  <2>3. QED
    BY <2>1, <2>2
<1>5. ASSUME NEW x \in S, x \notin newest PROVE \A y \in newest : y.id > x.id
  <2> SUFFICES ASSUME NEW y \in newest, ~ (y.id > x.id) PROVE FALSE
    OBVIOUS
  <2>1. y \in S /\ y.id <= x.id
    BY <1>2
  <2>2. After(x) \subseteq After(y)
    BY <2>1 DEF After
  <2>3. Cardinality(After(x)) <= Cardinality(After(y))
    BY <1>2, <2>1, <2>2, FS_Subset
  <2>4. QED
    BY <1>2, <1>5, <2>1, <2>3
<1>6. ASSUME NEW x \in S, x \notin newest PROVE Cardinality(newest) = n
  <2> DEFINE I == {y.id : y \in S \ newest}
  <2>1. I \in SUBSET Nat /\ I # {} /\ \A i \in I : i <= b
    BY <1>6
  <2>2. Max(I) \in I /\ \A i \in I : i <= Max(I)
    BY <2>1, MaxOfBounded
  <2>3. PICK z \in S \ newest : \A y \in S \ newest : y.id <= z.id
    BY <2>2
  <2>4. After(z) \subseteq newest
    BY <2>3 DEF After
  <2>5. Cardinality(After(z)) <= Cardinality(newest)
    BY <1>2, <2>4, FS_Subset
  <2>6. Cardinality(After(z)) >= n /\ Cardinality(After(z)) \in Nat
    BY <1>2, <2>3
  <2>7. QED
    BY <1>2, <1>4, <2>5, <2>6
<1>7. QED
  BY <1>1, <1>2, <1>4, <1>5, <1>6 DEF After, newest

=============================================================================
