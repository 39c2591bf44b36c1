---------------------------- MODULE NumberLemmas ----------------------------
(***************************************************************************)
(* Facts about sets of numbers that cursors rest on: what a reader takes   *)
(* from a log is a bounded set, it saves the greatest of it, and the first *)
(* so many entries after a cursor leave none out among them.               *)
(***************************************************************************)
EXTENDS Integers, FiniteSets, FiniteSetTheorems, WellFoundedInduction, TLAPS

\* a bounded set of numbers has a greatest element
LEMMA GreatestPicked ==
  ASSUME NEW S \in SUBSET Nat, S # {}, NEW bound \in Nat, \A v \in S : v <= bound
  PROVE  LET g == CHOOSE u \in S : \A v \in S : v <= u
         IN  g \in S /\ \A v \in S : v <= g
<1> DEFINE over == {k \in Nat : \A v \in S : v <= k}
<1>1. bound \in over /\ over \subseteq Nat
  OBVIOUS
<1>2. PICK k \in over : \A j \in over : k <= j
  <2>1. IsWellFoundedOn({ss \in Nat \X Nat : ss[1] < ss[2]}, Nat)
    BY NatLessThanWellFounded DEF OpToRel
  <2>2. PICK k \in over : \A j \in over : ~(<<j, k>> \in {ss \in Nat \X Nat : ss[1] < ss[2]})
    BY <1>1, <2>1, WFMin
  <2>3. ASSUME NEW j \in over PROVE k <= j
    <3>1. j \in Nat /\ k \in Nat /\ <<j, k>>[1] = j /\ <<j, k>>[2] = k
      OBVIOUS
    <3>2. ~(j < k)
      BY <2>2, <3>1
    <3>3. QED
      BY <3>1, <3>2
  <2>4. QED
    BY <2>3
<1>3. k \in S
  <2> SUFFICES ASSUME k \notin S PROVE FALSE
    OBVIOUS
  <2>1. PICK v \in S : TRUE
    OBVIOUS
  <2>2. v < k /\ k - 1 \in Nat
    BY <1>1, <1>2
  <2>3. k - 1 \in over
    BY <1>2, <2>2
  <2>4. QED
    BY <1>2, <2>2, <2>3
<1>4. \A v \in S : v <= k
  BY <1>2
<1>5. QED
  BY <1>3, <1>4

\* who is among the first n elements of S after since has those before him there too
LEMMA FirstAreDense ==
  ASSUME NEW S \in SUBSET Nat, NEW since \in Nat, NEW n \in Nat, NEW w \in S, NEW u \in S, u <= w,
         Cardinality({v \in S : since < v /\ v <= w}) <= n
  PROVE  Cardinality({v \in S : since < v /\ v <= u}) <= n
<1> DEFINE Below(x) == {v \in S : since < v /\ v <= x}
<1>1. IsFiniteSet(Below(w)) /\ Below(u) \subseteq Below(w)
  <2>1. Below(w) \subseteq 0..w /\ w \in Nat
    <3>1. w \in Nat /\ \A v \in S : v \in Nat
      OBVIOUS
    <3>2. \A v \in Nat : v <= w => v \in 0..w
      BY <3>1
    <3>3. QED
      BY <3>1, <3>2
  <2>2. IsFiniteSet(0..w)
    BY <2>1, FS_Interval
  <2>3. IsFiniteSet(Below(w))
    BY <2>1, <2>2, FS_Subset
  <2>4. \A v \in Nat : v <= u => v <= w
    BY <2>1, u \in Nat
  <2>5. QED
    BY <2>3, <2>4
<1>2. Cardinality(Below(u)) <= Cardinality(Below(w)) /\ IsFiniteSet(Below(u))
  BY <1>1, FS_Subset
<1>3. Cardinality(Below(u)) \in Nat /\ Cardinality(Below(w)) \in Nat
  BY <1>1, <1>2, FS_CardinalityType
<1>4. QED
  BY <1>2, <1>3

\* a set of numbers that is not empty has a least element
LEMMA LeastPicked ==
  ASSUME NEW S \in SUBSET Nat, S # {}
  PROVE  \E k \in S : \A j \in S : k <= j
<1>1. IsWellFoundedOn({ss \in Nat \X Nat : ss[1] < ss[2]}, Nat)
  BY NatLessThanWellFounded DEF OpToRel
<1>2. PICK k \in S : \A j \in S : ~(<<j, k>> \in {ss \in Nat \X Nat : ss[1] < ss[2]})
  BY <1>1, WFMin
<1>3. ASSUME NEW j \in S PROVE k <= j
  <2>1. j \in Nat /\ k \in Nat /\ <<j, k>>[1] = j /\ <<j, k>>[2] = k
    OBVIOUS
  <2>2. ~(j < k)
    BY <1>2, <2>1
  <2>3. QED
    BY <2>1, <2>2
<1>4. QED
  BY <1>3

\* a scan that starts at base finds the first free number among as many as are taken and one more
LEMMA ScanFinds ==
  ASSUME NEW base \in Nat, NEW T \in SUBSET Nat, IsFiniteSet(T)
  PROVE  \E x \in base..(base + Cardinality(T)) : x \notin T /\ base..(x - 1) \subseteq T
<1>1. PICK n \in Nat : n = Cardinality(T)
  BY FS_CardinalityType
<1> DEFINE free == {x \in base..(base + n) : x \notin T}
<1>2. free # {}
  <2> SUFFICES ASSUME free = {} PROVE FALSE
    OBVIOUS
  <2>1. base..(base + n) \in SUBSET T
    OBVIOUS
  <2>2. Cardinality(base..(base + n)) <= n
    BY <1>1, <2>1, FS_Subset
  <2>3. base \in Int /\ base + n \in Int /\ ~(base > base + n) /\ base + n - base + 1 = n + 1
    OBVIOUS
  <2>4. Cardinality(base..(base + n)) = n + 1
    BY <2>3, FS_Interval
  <2>5. QED
    BY <2>2, <2>4
<1>3. PICK x \in free : \A y \in free : x <= y
  <2>1. free \in SUBSET Nat
    OBVIOUS
  <2> HIDE DEF free
  <2>2. QED
    BY <1>2, <2>1, LeastPicked
<1>4. ASSUME NEW y \in base..(x - 1) PROVE y \in T
  BY <1>3
<1>5. QED
  BY <1>1, <1>3, <1>4
=============================================================================
