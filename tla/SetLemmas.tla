------------------------------ MODULE SetLemmas ------------------------------
(***************************************************************************)
(* Sets of natural numbers: least and greatest elements, induction as a    *)
(* fact about sets, and finite sets in order.  The proofs of the           *)
(* components whose definitions recurse, choose a minimum or sort rest on  *)
(* these.                                                                  *)
(***************************************************************************)
EXTENDS SequenceTheorems, FiniteSetTheorems, TLAPS

\* The order of the naturals as a relation.
LessThan == {ss \in Nat \X Nat : ss[1] < ss[2]}

\* A set of naturals that is not empty has a least element.
LEMMA Least ==
  ASSUME NEW T, T \subseteq Nat, T # {}
  PROVE  \E x \in T : \A y \in T : x <= y
<1>1. IsWellFoundedOn(LessThan, Nat)
  BY NatLessThanWellFounded, Zenon DEF OpToRel, LessThan
<1>2. PICK x \in T : \A y \in T : <<y, x>> \notin LessThan
  BY <1>1, WFMin, Zenon
<1>3. ASSUME NEW y \in T PROVE x <= y
  <2>1. x \in Nat /\ y \in Nat /\ <<y, x>> \notin LessThan
    BY <1>2
  <2> QED  BY <2>1 DEF LessThan
<1> QED  BY <1>3

\* Induction over the naturals, as a fact about sets.
LEMMA Induction ==
  ASSUME NEW I, 0 \in I, \A n \in Nat : n \in I => n + 1 \in I
  PROVE  Nat \subseteq I
<1> SUFFICES ASSUME NEW k \in Nat, k \notin I PROVE FALSE
  OBVIOUS
<1> DEFINE T == {n \in Nat : n \notin I}
<1>1. PICK x \in T : \A y \in T : x <= y
  BY Least
<1>2. x # 0 /\ x \in Nat
  OBVIOUS
<1>3. x - 1 \in Nat /\ x - 1 \in I
  BY <1>1, <1>2
<1> QED  BY <1>2, <1>3

\* A bounded set of naturals that is not empty has a greatest element.
LEMMA Greatest ==
  ASSUME NEW n \in Nat, NEW T, T \subseteq 0 .. n, T # {}
  PROVE  \E x \in T : \A y \in T : y <= x
<1> DEFINE U == {k \in Nat : \A y \in T : y <= k}
<1>1. n \in U
  OBVIOUS
<1>2. PICK u \in U : \A k \in U : u <= k
  <2> HIDE DEF U
  <2>1. U \subseteq Nat
    BY DEF U
  <2> QED  BY <1>1, <2>1, Least
<1>3. u \in Nat /\ \A y \in T : y <= u /\ y \in Nat
  BY <1>2
<1>4. CASE u \in T
  BY <1>3, <1>4
<1>5. CASE u \notin T
  <2>1. PICK y \in T : TRUE
    OBVIOUS
  <2>2. u - 1 \in Nat
    BY <1>3, <1>5, <2>1
  <2>3. \A k \in T : k <= u - 1
    BY <1>3, <1>5
  <2>4. u - 1 \in U
    BY <2>2, <2>3
  <2>5. u <= u - 1
    BY <1>2, <2>4
  <2> QED  BY <1>3, <2>5
<1> QED  BY <1>4, <1>5

Increasing(s) == \A i, j \in DOMAIN s : i < j => s[i] < s[j]
Listed(S) == \E s \in [1 .. Cardinality(S) -> S] : Increasing(s)

\* The least element goes before the list of the others.
LEMMA OneMore ==
  ASSUME NEW n \in Nat, NEW S, S \subseteq Nat, IsFiniteSet(S), Cardinality(S) = n + 1,
         \A T : T \subseteq Nat /\ IsFiniteSet(T) /\ Cardinality(T) = n => Listed(T)
  PROVE  Listed(S)
<1>1. S # {}
  BY FS_EmptySet
<1>2. PICK x \in S : \A y \in S : x <= y
  BY <1>1, Least
<1> DEFINE T == S \ {x}
<1>3. T \subseteq Nat /\ IsFiniteSet(T) /\ Cardinality(T) = n
  <2>1. /\ IsFiniteSet(T)
        /\ Cardinality(T) = IF x \in S THEN Cardinality(S) - 1 ELSE Cardinality(S)
    BY FS_RemoveElement, Zenon
  <2> QED  BY <2>1
<1>4. PICK t \in [1 .. n -> T] : Increasing(t)
  BY <1>3 DEF Listed
<1> DEFINE s == [i \in 1 .. n + 1 |-> IF i = 1 THEN x ELSE t[i - 1]]
<1>5. \A i \in 2 .. n + 1 : i - 1 \in 1 .. n /\ s[i] = t[i - 1] /\ s[i] \in T /\ x < s[i]
  <2>1. ASSUME NEW i \in 2 .. n + 1
        PROVE  i - 1 \in 1 .. n /\ s[i] = t[i - 1] /\ s[i] \in T /\ x < s[i]
    <3>1. i - 1 \in 1 .. n /\ i \in 1 .. n + 1 /\ i # 1
      BY <2>1
    <3>2. s[i] = t[i - 1] /\ s[i] \in T
      BY <1>4, <3>1
    <3>3. x \in Nat /\ s[i] \in Nat /\ x <= s[i] /\ x # s[i]
      BY <1>2, <3>2
    <3> QED  BY <3>1, <3>2, <3>3
  <2> QED  BY <2>1
<1>6. s \in [1 .. n + 1 -> S]
  BY <1>2, <1>5
<1>7. Increasing(s)
  <2>1. ASSUME NEW i \in 1 .. n + 1, NEW j \in 1 .. n + 1, i < j
        PROVE  s[i] < s[j]
    <3>1. j \in 2 .. n + 1
      BY <2>1
    <3>2. CASE i = 1
      BY <1>5, <3>1, <3>2
    <3>3. CASE i # 1
      <4>1. i \in 2 .. n + 1 /\ i - 1 < j - 1
        BY <2>1, <3>3
      <4> HIDE DEF s
      <4>2. i - 1 \in 1 .. n /\ j - 1 \in 1 .. n /\ s[i] = t[i - 1] /\ s[j] = t[j - 1]
        BY <1>5, <3>1, <4>1
      <4> QED  BY <1>4, <4>1, <4>2 DEF Increasing
    <3> QED  BY <3>2, <3>3
  <2> QED  BY <2>1 DEF Increasing
<1> HIDE DEF s
<1> QED  BY <1>6, <1>7 DEF Listed

\* Any finite set of names can be put in order.
LEMMA CanList ==
  ASSUME NEW S, S \subseteq Nat, IsFiniteSet(S)
  PROVE  Listed(S)
<1> DEFINE Of(n) == \A T : T \subseteq Nat /\ IsFiniteSet(T) /\ Cardinality(T) = n => Listed(T)
           I == {n \in Nat : Of(n)}
<1>1. 0 \in I
  <2>1. ASSUME NEW T, IsFiniteSet(T), Cardinality(T) = 0 PROVE Listed(T)
    <3>1. T = {} /\ 1 .. Cardinality(T) = {}
      BY <2>1, FS_EmptySet
    <3>2. [i \in {} |-> 0] \in [1 .. Cardinality(T) -> T] /\ Increasing([i \in {} |-> 0])
      BY <3>1 DEF Increasing
    <3> QED  BY <3>2 DEF Listed
  <2> QED  BY <2>1
<1>2. ASSUME NEW n \in Nat, n \in I PROVE n + 1 \in I
  <2>1. Of(n)
    BY <1>2
  <2>2. ASSUME NEW T, T \subseteq Nat, IsFiniteSet(T), Cardinality(T) = n + 1 PROVE Listed(T)
    BY <2>1, <2>2, OneMore
  <2> QED  BY <2>2
<1>3. Nat \subseteq I
  <2> HIDE DEF I
  <2> QED  BY <1>1, <1>2, Induction
<1>4. Cardinality(S) \in Nat
  BY FS_CardinalityType
<1>5. Of(Cardinality(S))
  BY <1>3, <1>4
<1> QED  BY <1>5

Decreasing(s) == \A i, j \in DOMAIN s : i < j => s[i] > s[j]

\* And in the opposite order.
LEMMA CanListDown ==
  ASSUME NEW S, S \subseteq Nat, IsFiniteSet(S)
  PROVE  \E s \in [1 .. Cardinality(S) -> S] : Decreasing(s)
<1> DEFINE n == Cardinality(S)
<1>1. n \in Nat
  BY FS_CardinalityType
<1>2. PICK s \in [1 .. n -> S] : Increasing(s)
  BY CanList DEF Listed
<1> HIDE DEF n
<1> DEFINE t == [i \in 1 .. n |-> s[(n + 1) - i]]
<1>3. \A i \in 1 .. n : (n + 1) - i \in 1 .. n
  BY <1>1
<1>4. t \in [1 .. n -> S]
  BY <1>2, <1>3
<1>5. ASSUME NEW i \in 1 .. n, NEW j \in 1 .. n, i < j PROVE t[i] > t[j]
  <2>1. (n + 1) - j < (n + 1) - i /\ (n + 1) - i \in 1 .. n /\ (n + 1) - j \in 1 .. n
    BY <1>1, <1>3, <1>5
  <2>2. s[(n + 1) - j] < s[(n + 1) - i] /\ s[(n + 1) - j] \in Nat /\ s[(n + 1) - i] \in Nat
    BY <1>2, <2>1 DEF Increasing
  <2>3. t[i] = s[(n + 1) - i] /\ t[j] = s[(n + 1) - j]
    OBVIOUS
  <2> QED  BY <2>2, <2>3
<1>6. Decreasing(t)
  BY <1>4, <1>5 DEF Decreasing
<1> QED  BY <1>4, <1>6 DEF n

\* A list of a finite set without repetitions, as long as the set, has all of it.
LEMMA ListsAll ==
  ASSUME NEW S, IsFiniteSet(S), NEW s \in [1 .. Cardinality(S) -> S], IsInjective(s)
  PROVE  s \in Seq(S) /\ Range(s) = S
<1> DEFINE n == Cardinality(S)
<1>1. n \in Nat
  BY FS_CardinalityType
<1>2. s \in Seq(S)
  BY <1>1, IsASeq
<1>3. s \in Injection(1 .. n, S)
  BY DEF Injection
<1>4. Cardinality(1 .. n) = n
  <2> HIDE DEF n
  <2>1. Cardinality(1 .. n) = IF 1 > n THEN 0 ELSE (n - 1) + 1
    BY <1>1, FS_Interval
  <2> QED  BY <1>1, <2>1
<1>5. s \in Surjection(1 .. n, S)
  BY <1>3, <1>4, FS_Injection
<1> QED  BY <1>2, <1>5 DEF Surjection, Range
=============================================================================
