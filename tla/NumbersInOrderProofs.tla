------------------------ MODULE NumbersInOrderProofs ------------------------
(***************************************************************************)
(* What it means to be sorted, for any finite set of numbers.              *)
(***************************************************************************)
EXTENDS NumbersInOrder, Sequences, FiniteSetTheorems, TLAPS

\* A finite set of numbers has its elements at the places 1, 2, ... in their order.
LEMMA Places ==
    ASSUME NEW S \in SUBSET Nat, IsFiniteSet(S)
    PROVE  /\ Cardinality(S) \in Nat
           /\ \A p \in S : Place(S, p) \in 1..Cardinality(S)
           /\ \A p, q \in S : p < q => Place(S, p) < Place(S, q)
           /\ \A n \in 1..Cardinality(S) : \E p \in S : Place(S, p) = n
  <1> DEFINE upTo(p) == {q \in S : q <= p}
             f == [p \in S |-> Place(S, p)]
  <1>1. Cardinality(S) \in Nat
    BY FS_CardinalityType
  <1>2. ASSUME NEW p \in S
        PROVE  /\ IsFiniteSet(upTo(p)) /\ Cardinality(upTo(p)) \in Nat
               /\ Place(S, p) = Cardinality(upTo(p)) /\ Place(S, p) <= Cardinality(S)
               /\ Place(S, p) # 0
    <2>1. upTo(p) \in SUBSET S /\ p \in upTo(p)
      OBVIOUS
    <2>2. IsFiniteSet(upTo(p)) /\ Cardinality(upTo(p)) <= Cardinality(S)
      BY <2>1, FS_Subset
    <2>3. Cardinality(upTo(p)) \in Nat
      BY <2>2, FS_CardinalityType
    <2>4. Cardinality(upTo(p)) # 0
      BY <2>1, <2>2, FS_EmptySet
    <2> QED
      BY <2>2, <2>3, <2>4 DEF Place
  <1>3. ASSUME NEW p \in S
        PROVE  Place(S, p) \in 1..Cardinality(S)
    <2>1. /\ Place(S, p) \in Nat /\ Place(S, p) # 0
          /\ Place(S, p) <= Cardinality(S)
      BY <1>2
    <2> QED
      BY <1>1, <2>1
  <1>4. ASSUME NEW p \in S, NEW q \in S, p < q
        PROVE  Place(S, p) < Place(S, q)
    <2>1. upTo(p) \in SUBSET upTo(q) /\ q \in upTo(q) /\ q \notin upTo(p)
      <3>1. \A r \in S : r \in Nat
        OBVIOUS
      <3>2. \A r \in S : r <= p => r <= q
        BY <1>4, <3>1
      <3>3. p <= q /\ ~(q <= p) /\ q <= q
        BY <1>4, <3>1
      <3> QED
        BY <3>2, <3>3
    <2>2. /\ Cardinality(upTo(p)) <= Cardinality(upTo(q))
          /\ Cardinality(upTo(q)) # Cardinality(upTo(p))
      BY <1>2, <2>1, FS_Subset
    <2> QED
      BY <1>2, <2>2
  <1>5. f \in Injection(S, 1..Cardinality(S))
    <2>1. \A p, q \in S : Place(S, p) = Place(S, q) => p = q
      <3>1. ASSUME NEW p \in S, NEW q \in S, Place(S, p) = Place(S, q), p # q
            PROVE  FALSE
        <4>1. p < q \/ q < p
          BY <3>1
        <4>2. Place(S, p) < Place(S, q) \/ Place(S, q) < Place(S, p)
          BY <1>4, <4>1
        <4> QED
          BY <1>3, <3>1, <4>2
      <3> QED
        BY <3>1
    <2> QED
      BY <1>3, <2>1 DEF Injection, IsInjective
  <1>6. f \in Surjection(S, 1..Cardinality(S))
    <2>1. IsFiniteSet(1..Cardinality(S)) /\ Cardinality(1..Cardinality(S)) = Cardinality(S)
      BY <1>1, FS_Interval
    <2> QED
      BY <1>5, <2>1, FS_Injection
  <1>7. \A n \in 1..Cardinality(S) : \E p \in S : Place(S, p) = n
    BY <1>6 DEF Surjection
  <1> QED
    BY <1>1, <1>3, <1>4, <1>7

\* No two numbers have one place.
LEMMA SamePlace ==
    ASSUME NEW S \in SUBSET Nat, IsFiniteSet(S), NEW p \in S, NEW q \in S,
           Place(S, p) = Place(S, q)
    PROVE  p = q
  <1>1. p \in Nat /\ q \in Nat /\ Cardinality(S) \in Nat
    BY FS_CardinalityType
  <1>2. Place(S, p) \in 1..Cardinality(S)
    BY Places
  <1>3. ~(p < q) /\ ~(q < p)
    BY <1>1, <1>2, Places
  <1> QED
    BY <1>1, <1>3

\* Whatever is not empty has a first number.
LEMMA FirstNumber ==
    ASSUME NEW S \in SUBSET Nat, IsFiniteSet(S), S # {}
    PROVE  \E p \in S : \A q \in S : p <= q
  <1>1. Cardinality(S) \in Nat /\ Cardinality(S) # 0
    BY FS_CardinalityType, FS_EmptySet
  <1>2. PICK p \in S : Place(S, p) = 1
    BY <1>1, Places
  <1>3. ASSUME NEW q \in S, ~(p <= q)
        PROVE  FALSE
    <2>1. p \in Nat /\ q \in Nat
      OBVIOUS
    <2>2. q < p
      BY <1>3, <2>1
    <2>3. Place(S, q) < 1 /\ Place(S, q) \in 1..Cardinality(S)
      BY <1>2, <2>2, Places
    <2> QED
      BY <1>1, <2>3
  <1> QED
    BY <1>3

\* The numbers in ascending order: all of them, and each once.
LEMMA SortedIs ==
    ASSUME NEW S \in SUBSET Nat, IsFiniteSet(S)
    PROVE  /\ Cardinality(S) \in Nat
           /\ Sorted(S) \in [1..Cardinality(S) -> S]
           /\ Sorted(S) \in Seq(S) /\ Len(Sorted(S)) = Cardinality(S)
           /\ \A i, j \in 1..Cardinality(S) : i < j => Sorted(S)[i] < Sorted(S)[j]
           /\ \A i \in 1..Cardinality(S) : Place(S, Sorted(S)[i]) = i
           /\ \A p \in S : Sorted(S)[Place(S, p)] = p
  <1> DEFINE n == Cardinality(S)
             at(i) == CHOOSE k \in S : Place(S, k) = i
  <1>1. n \in Nat
    BY FS_CardinalityType
  <1>2. ASSUME NEW i \in 1..n
        PROVE  at(i) \in S /\ Place(S, at(i)) = i
    <2>1. \E k \in S : Place(S, k) = i
      BY Places
    <2> QED
      BY <2>1
  <1>3. Sorted(S) = [i \in 1..n |-> at(i)]
    BY DEF Sorted
  <1> HIDE DEF at
  <1>4. Sorted(S) \in [1..n -> S] /\ \A i \in 1..n : Sorted(S)[i] = at(i)
    BY <1>2, <1>3
  <1>5. Sorted(S) \in Seq(S) /\ Len(Sorted(S)) = n
    BY <1>1, <1>4
  <1>6. ASSUME NEW i \in 1..n, NEW j \in 1..n, i < j
        PROVE  at(i) < at(j)
    <2>1. at(i) \in S /\ at(j) \in S /\ Place(S, at(i)) = i /\ Place(S, at(j)) = j
      BY <1>2
    <2>2. i \in Nat /\ j \in Nat /\ at(i) \in Nat /\ at(j) \in Nat
      <3>1. at(i) \in Nat /\ at(j) \in Nat
        BY <2>1
      <3> QED
        BY <1>1, <3>1
    <2>3. at(j) < at(i) => j < i
      BY <2>1, Places
    <2>4. at(i) # at(j)
      BY <1>6, <2>1, <2>2
    <2> QED
      BY <1>6, <2>2, <2>3, <2>4
  <1>7. ASSUME NEW p \in S
        PROVE  Sorted(S)[Place(S, p)] = p
    <2>1. Place(S, p) \in 1..n
      BY Places
    <2>2. PICK k \in S : k = at(Place(S, p)) /\ Place(S, k) = Place(S, p)
      BY <1>2, <2>1
    <2>3. k = p
      BY <2>2, SamePlace
    <2> QED
      BY <1>4, <2>1, <2>2, <2>3
  <1> QED
    BY <1>1, <1>2, <1>4, <1>5, <1>6, <1>7

LEMMA Apart ==
    ASSUME NEW S, NEW T, IsFiniteSet(S), IsFiniteSet(T), S \cap T = {}
    PROVE  Cardinality(S \cup T) = Cardinality(S) + Cardinality(T)
  <1>1. /\ Cardinality(S) \in Nat /\ Cardinality(T) \in Nat
        /\ Cardinality(S \cap T) = 0
    BY FS_CardinalityType, FS_EmptySet
  <1>2. Cardinality(S \cup T) = Cardinality(S) + Cardinality(T) - Cardinality(S \cap T)
    BY FS_Union
  <1> QED
    BY <1>1, <1>2

\* The numbers after one of them, in order.
LEMMA SortedAfter ==
    ASSUME NEW S \in SUBSET Nat, IsFiniteSet(S), NEW b \in S
    PROVE  LET after == {k \in S : k > b}
           IN  /\ IsFiniteSet(after)
               /\ Cardinality(S) = Place(S, b) + Cardinality(after)
               /\ \A i \in 1..Cardinality(after) :
                     Sorted(after)[i] = Sorted(S)[Place(S, b) + i]
  <1> DEFINE after == {k \in S : k > b}
             upTo(p) == {q \in S : q <= p}
             since(p) == {q \in after : q <= p}
  <1>1. after \in SUBSET S /\ after \in SUBSET Nat /\ IsFiniteSet(after)
    BY FS_Subset
  <1>2. \A q \in S : q \in Nat
    OBVIOUS
  <1>3. /\ IsFiniteSet(upTo(b)) /\ Place(S, b) = Cardinality(upTo(b))
        /\ Place(S, b) \in Nat /\ Cardinality(after) \in Nat /\ Cardinality(S) \in Nat
    <2>1. IsFiniteSet(upTo(b))
      BY FS_Subset
    <2> QED
      BY <1>1, <2>1, FS_CardinalityType DEF Place
  <1>4. Cardinality(S) = Place(S, b) + Cardinality(after)
    <2>1. \A q \in S : (q <= b /\ ~(q > b)) \/ (q > b /\ ~(q <= b))
      BY <1>2
    <2>2. S = upTo(b) \cup after /\ upTo(b) \cap after = {}
      BY <2>1
    <2> HIDE DEF upTo, after
    <2> QED
      BY <1>1, <1>3, <2>2, Apart
  <1>5. ASSUME NEW x \in after
        PROVE  Place(S, x) = Place(S, b) + Place(after, x)
    <2>0. \A q \in S : /\ (q <= b /\ ~(q > b)) \/ (q > b /\ ~(q <= b))
                       /\ q <= b => q <= x
      BY <1>2, <1>5
    <2>1. upTo(x) = upTo(b) \cup since(x) /\ upTo(b) \cap since(x) = {}
      BY <2>0
    <2>2. IsFiniteSet(since(x))
      BY <1>1, FS_Subset
    <2> HIDE DEF upTo, since
    <2>3. Cardinality(upTo(x)) = Cardinality(upTo(b)) + Cardinality(since(x))
      BY <1>3, <2>1, <2>2, Apart
    <2> QED
      BY <2>3 DEF Place, upTo, since
  <1>6. ASSUME NEW i \in 1..Cardinality(after)
        PROVE  Sorted(after)[i] = Sorted(S)[Place(S, b) + i]
    <2> HIDE DEF after
    <2>1. Sorted(after)[i] \in after /\ Place(after, Sorted(after)[i]) = i
      BY <1>1, SortedIs
    <2>3. PICK x \in after : x = Sorted(after)[i] /\ Place(after, x) = i
      BY <2>1
    <2>2. x \in S /\ Place(S, x) = Place(S, b) + i
      BY <1>1, <1>5, <2>3
    <2> QED
      BY <2>2, <2>3, SortedIs
  <1> QED
    BY <1>1, <1>4, <1>6

\* And those before it.
LEMMA SortedBefore ==
    ASSUME NEW S \in SUBSET Nat, IsFiniteSet(S), NEW b \in S
    PROVE  LET before == {k \in S : k < b}
           IN  /\ IsFiniteSet(before)
               /\ Place(S, b) = Cardinality(before) + 1
               /\ \A i \in 1..Cardinality(before) : Sorted(before)[i] = Sorted(S)[i]
  <1> DEFINE before == {k \in S : k < b}
             upTo(p) == {q \in S : q <= p}
  <1>1. before \in SUBSET S /\ before \in SUBSET Nat /\ IsFiniteSet(before)
    BY FS_Subset
  <1>2. \A q \in S : q \in Nat
    OBVIOUS
  <1>3. Place(S, b) = Cardinality(before) + 1
    <2>0. ~(b < b) /\ \A q \in S : q <= b <=> q < b \/ q = b
      BY <1>2
    <2>1. upTo(b) = before \cup {b} /\ b \notin before
      BY <2>0
    <2>2. Cardinality(before \cup {b}) = Cardinality(before) + 1
      BY <1>1, <2>1, FS_AddElement
    <2> QED
      BY <2>1, <2>2 DEF Place
  <1>4. ASSUME NEW x \in before
        PROVE  Place(S, x) = Place(before, x)
    <2>0. \A q \in S : q <= x => q < b
      BY <1>2, <1>4
    <2>1. upTo(x) = {q \in before : q <= x}
      BY <2>0
    <2> QED
      BY <2>1 DEF Place
  <1>5. ASSUME NEW i \in 1..Cardinality(before)
        PROVE  Sorted(before)[i] = Sorted(S)[i]
    <2> HIDE DEF before
    <2>1. Sorted(before)[i] \in before /\ Place(before, Sorted(before)[i]) = i
      BY <1>1, SortedIs
    <2>3. PICK x \in before : x = Sorted(before)[i] /\ Place(before, x) = i
      BY <2>1
    <2>2. x \in S /\ Place(S, x) = i
      BY <1>1, <1>4, <2>3
    <2> QED
      BY <2>2, <2>3, SortedIs
  <1> QED
    BY <1>1, <1>3, <1>5

\* More numbers, later places.
LEMMA PlaceGrows ==
    ASSUME NEW S \in SUBSET Nat, NEW T \in SUBSET Nat, IsFiniteSet(T), S \subseteq T,
           NEW p \in S
    PROVE  Place(S, p) \in Nat /\ Place(T, p) \in Nat /\ Place(S, p) <= Place(T, p)
  <1> DEFINE s == {q \in S : q <= p}
             t == {q \in T : q <= p}
  <1>1. t \in SUBSET T /\ s \in SUBSET t
    OBVIOUS
  <1> HIDE DEF s, t
  <1>2. IsFiniteSet(t) /\ IsFiniteSet(s) /\ Cardinality(s) <= Cardinality(t)
    BY <1>1, FS_Subset
  <1>3. Cardinality(s) \in Nat /\ Cardinality(t) \in Nat
    BY <1>2, FS_CardinalityType
  <1> QED
    BY <1>2, <1>3 DEF Place, s, t
=============================================================================
