------------------------------ MODULE Counting ------------------------------
(***************************************************************************)
(* How a cardinality changes when a step moves one element into or out of  *)
(* a set: the argument behind every counter that is kept beside the state  *)
(* it counts.  What is left of a list when entries are unlinked.  And the  *)
(* least number of a set, which stands for induction: the counterexample   *)
(* with the smallest index has none before it.                             *)
(***************************************************************************)
EXTENDS Integers, Lists, SequenceTheorems, FiniteSetTheorems, WellFoundedInduction, TLAPS

(* 1 if b holds, 0 if not. *)
Ind(b) == IF b THEN 1 ELSE 0

(* Two subsets of a finite set that differ at most in u. *)
LEMMA OneChange ==
  ASSUME NEW U, IsFiniteSet(U), NEW A \in SUBSET U, NEW B \in SUBSET U, NEW u \in U,
         \A v \in U \ {u} : v \in A <=> v \in B
  PROVE  /\ Cardinality(A) \in Nat /\ Cardinality(B) \in Nat
         /\ Cardinality(B) = Cardinality(A) + Ind(u \in B) - Ind(u \in A)
<1>1. IsFiniteSet(A) /\ IsFiniteSet(B)
    BY FS_Subset
<1>2. Cardinality(A) \in Nat /\ Cardinality(B) \in Nat
    BY <1>1, FS_CardinalityType
<1>3. CASE u \in A /\ u \in B
  <2>1. A = B
      BY <1>3
  <2> QED BY <1>2, <1>3, <2>1 DEF Ind
<1>4. CASE u \in A /\ u \notin B
  <2>1. B = A \ {u}
      BY <1>4
  <2>2. Cardinality(A \ {u}) = Cardinality(A) - 1
      BY <1>1, <1>4, FS_RemoveElement
  <2> QED BY <1>2, <1>4, <2>1, <2>2 DEF Ind
<1>5. CASE u \notin A /\ u \in B
  <2>1. B = A \cup {u}
      BY <1>5
  <2>2. Cardinality(A \cup {u}) = Cardinality(A) + 1
      BY <1>1, <1>5, FS_AddElement
  <2> QED BY <1>2, <1>5, <2>1, <2>2 DEF Ind
<1>6. CASE u \notin A /\ u \notin B
  <2>1. A = B
      BY <1>6
  <2> QED BY <1>2, <1>6, <2>1 DEF Ind
<1> QED BY <1>3, <1>4, <1>5, <1>6

-----------------------------------------------------------------------------
(* A set of natural numbers that is not empty has a least element. *)
LEMMA LeastNat ==
  ASSUME NEW S \in SUBSET Nat, S # {}
  PROVE  \E x \in S : \A y \in S : x <= y
<1> DEFINE R == OpToRel(<, Nat)
<1>1. IsWellFoundedOn(R, Nat)
    BY NatLessThanWellFounded
<1>2. PICK x \in S : \A y \in S : ~ (<<y, x>> \in R)
    BY <1>1, WFMin
<1>3. ASSUME NEW y \in S PROVE ~ (y < x)
    BY <1>2 DEF OpToRel
<1> QED BY <1>3

-----------------------------------------------------------------------------
(* The entries that stay are numbered from 1 on, in their order. *)
LEMMA RankFacts ==
  ASSUME NEW C, NEW s \in Seq(C), NEW gone
  PROVE  LET K == Kept(s, gone)
             n == Cardinality(K)
         IN /\ K \subseteq DOMAIN s /\ n \in Nat
            /\ \A i \in K : Rank(s, gone, i) \in 1 .. n
            /\ \A i, j \in K : i < j => Rank(s, gone, i) < Rank(s, gone, j)
            /\ \A k \in 1 .. n : \E i \in K : Rank(s, gone, i) = k
<1> DEFINE K == Kept(s, gone)
           n == Cardinality(K)
           Le(i) == {j \in K : j <= i}
           R(i) == Rank(s, gone, i)
<1>1. K \subseteq 1 .. Len(s) /\ DOMAIN s = 1 .. Len(s) /\ Len(s) \in Nat
    BY DEF Kept
<1>2. IsFiniteSet(K)
  <2>1. IsFiniteSet(1 .. Len(s))
      BY <1>1, FS_Interval
  <2> QED BY <1>1, <2>1, FS_Subset
<1>3. n \in Nat
    BY <1>2, FS_CardinalityType
<1>4. \A i \in K : R(i) = Cardinality(Le(i))
    BY DEF Rank
<1>5. ASSUME NEW i \in K PROVE R(i) \in 1 .. n
  <2>1. Le(i) \in SUBSET K /\ i \in Le(i)
      BY <1>1
  <2>2. IsFiniteSet(Le(i)) /\ Cardinality(Le(i)) <= n
      BY <2>1, <1>2, FS_Subset
  <2>3. Cardinality(Le(i)) \in Nat /\ Cardinality(Le(i)) # 0
      BY <2>1, <2>2, FS_CardinalityType, FS_EmptySet
  <2> QED BY <1>3, <1>4, <2>2, <2>3
<1>6. ASSUME NEW i \in K, NEW j \in K, i < j PROVE R(i) < R(j)
  <2>1. Le(i) \in SUBSET Le(j) /\ j \in Le(j) /\ j \notin Le(i)
      BY <1>1, <1>6
  <2>2. Le(i) # Le(j)
      BY <2>1
  <2>3. IsFiniteSet(Le(j)) /\ IsFiniteSet(Le(i))
      BY <1>2, FS_Subset
  <2>4. Cardinality(Le(i)) <= Cardinality(Le(j)) /\ Cardinality(Le(j)) # Cardinality(Le(i))
      BY <2>1, <2>2, <2>3, FS_Subset
  <2>5. Cardinality(Le(i)) \in Nat /\ Cardinality(Le(j)) \in Nat
      BY <2>3, FS_CardinalityType
  <2> QED BY <1>4, <2>4, <2>5
<1>7. ASSUME NEW k \in 1 .. n PROVE \E i \in K : R(i) = k
  <2> DEFINE f == [i \in K |-> R(i)]
  <2>1. f \in [K -> 1 .. n]
      BY <1>5
  <2>2. \A i, j \in K : f[i] = f[j] => i = j
    <3> SUFFICES ASSUME NEW i \in K, NEW j \in K, f[i] = f[j] PROVE i = j
        OBVIOUS
    <3>1. i \in Int /\ j \in Int /\ R(i) \in Int /\ R(j) \in Int
        BY <1>1, <1>5, <1>3
    <3>2. R(i) = R(j)
        OBVIOUS
    <3> QED BY <3>1, <3>2, <1>6
  <2>3. f \in Injection(K, 1 .. n)
      BY <2>1, <2>2 DEF Injection, IsInjective
  <2>4. IsFiniteSet(1 .. n) /\ Cardinality(1 .. n) = n
      BY <1>3, FS_Interval
  <2>5. f \in Surjection(K, 1 .. n)
      BY <2>3, <2>4, FS_Injection
  <2> QED BY <2>5 DEF Surjection
<1> QED BY <1>1, <1>3, <1>5, <1>6, <1>7

(* Unlinking entries of a list keeps the others, each once and in their    *)
(* order.                                                                  *)
LEMMA WithoutFacts ==
  ASSUME NEW C, NEW s \in Seq(C), Distinct(s), NEW gone
  PROVE  LET r == Without(s, gone)
         IN /\ r \in Seq(C) /\ Distinct(r)
            /\ Elements(r) = Elements(s) \ gone
            /\ \A x, y \in Elements(r) : Before(r, x, y) <=> Before(s, x, y)
<1> DEFINE r == Without(s, gone)
           K == Kept(s, gone)
           n == Cardinality(K)
           R(i) == Rank(s, gone, i)
           At(k) == CHOOSE i \in K : R(i) = k
<1>0. DOMAIN s = 1 .. Len(s) /\ Len(s) \in Nat
    OBVIOUS
<1>1. /\ K \subseteq DOMAIN s /\ n \in Nat
      /\ \A i \in K : R(i) \in 1 .. n
      /\ \A i, j \in K : i < j => R(i) < R(j)
      /\ \A k \in 1 .. n : \E i \in K : R(i) = k
    BY RankFacts
<1>2. \A k \in 1 .. n : At(k) \in K /\ R(At(k)) = k
    BY <1>1
<1>3. r = [k \in 1 .. n |-> s[At(k)]]
    BY DEF Without
<1> HIDE DEF R, At, n, K, r
<1>4. \A i \in K : R(i) \in 1 .. n /\ At(R(i)) = i
  <2> SUFFICES ASSUME NEW i \in K PROVE R(i) \in 1 .. n /\ At(R(i)) = i
      OBVIOUS
  <2>1. R(i) \in 1 .. n
      BY <1>1
  <2>2. At(R(i)) \in K /\ R(At(R(i))) = R(i)
      BY <2>1, <1>2
  <2>3. i \in Int /\ At(R(i)) \in Int /\ R(i) \in Int
      BY <2>1, <2>2, <1>0, <1>1
  <2> QED BY <2>1, <2>2, <2>3, <1>1
<1>5. \A k, l \in 1 .. n : k < l <=> At(k) < At(l)
  <2> SUFFICES ASSUME NEW k \in 1 .. n, NEW l \in 1 .. n PROVE k < l <=> At(k) < At(l)
      OBVIOUS
  <2>1. At(k) \in K /\ At(l) \in K /\ R(At(k)) = k /\ R(At(l)) = l
      BY <1>2
  <2>2. At(k) \in Int /\ At(l) \in Int
      BY <2>1, <1>0, <1>1
  <2>3. At(k) < At(l) => k < l
      BY <2>1, <1>1
  <2>4. At(l) < At(k) => l < k
      BY <2>1, <1>1
  <2>5. At(k) = At(l) => k = l
      BY <2>1
  <2>6. k \in Int /\ l \in Int
      BY <1>1
  <2> QED BY <2>2, <2>3, <2>4, <2>5, <2>6
<1>6. \A k \in 1 .. n : r[k] = s[At(k)] /\ At(k) \in DOMAIN s /\ s[At(k)] \in C
    BY <1>2, <1>3, <1>1, <1>0
<1>7. r \in Seq(C) /\ DOMAIN r = 1 .. n
  <2>1. r \in [1 .. n -> C]
      BY <1>3, <1>6
  <2> QED BY <2>1, <1>1, SeqDef
<1>8. Distinct(r)
  <2> SUFFICES ASSUME NEW k \in 1 .. n, NEW l \in 1 .. n, r[k] = r[l] PROVE k = l
      BY <1>7 DEF Distinct
  <2>1. At(k) = At(l)
      BY <1>6 DEF Distinct
  <2> QED BY <2>1, <1>2
<1>9. Elements(r) = Elements(s) \ gone
  <2>1. ASSUME NEW k \in 1 .. n PROVE r[k] \in Elements(s) \ gone
      BY <1>6, <1>2 DEF Elements, K, Kept
  <2>2. ASSUME NEW i \in DOMAIN s, s[i] \notin gone PROVE s[i] \in Elements(r)
    <3>1. i \in K
        BY <2>2 DEF K, Kept
    <3>2. R(i) \in 1 .. n /\ r[R(i)] = s[i]
        BY <3>1, <1>4, <1>6
    <3> QED BY <3>2, <1>7 DEF Elements
  <2> QED BY <2>1, <2>2, <1>7 DEF Elements
<1>10. ASSUME NEW x \in Elements(r), NEW y \in Elements(r)
       PROVE  Before(r, x, y) <=> Before(s, x, y)
  <2>1. ASSUME Before(r, x, y) PROVE Before(s, x, y)
    <3>1. PICK k \in 1 .. n, l \in 1 .. n : k < l /\ r[k] = x /\ r[l] = y
        BY <2>1, <1>7 DEF Before
    <3> QED BY <3>1, <1>5, <1>6 DEF Before
  <2>2. ASSUME Before(s, x, y) PROVE Before(r, x, y)
    <3>1. PICK i \in DOMAIN s, j \in DOMAIN s : i < j /\ s[i] = x /\ s[j] = y
        BY <2>2 DEF Before
    <3>2. i \in K /\ j \in K
        BY <3>1, <1>9 DEF K, Kept
    <3>3. R(i) \in 1 .. n /\ R(j) \in 1 .. n /\ R(i) < R(j)
        BY <3>1, <3>2, <1>1
    <3>4. r[R(i)] = x /\ r[R(j)] = y
        BY <3>1, <3>2, <3>3, <1>4, <1>6
    <3> QED BY <3>3, <3>4, <1>7 DEF Before
  <2> QED BY <2>1, <2>2
<1> QED BY <1>7, <1>8, <1>9, <1>10 DEF r

(* An entry that is linked at the end of a list comes after the others. *)
LEMMA AppendFacts ==
  ASSUME NEW C, NEW s \in Seq(C), Distinct(s), NEW e \in C, e \notin Elements(s)
  PROVE  LET r == Append(s, e)
         IN /\ r \in Seq(C) /\ Distinct(r)
            /\ Elements(r) = Elements(s) \cup {e}
            /\ \A x, y : Before(r, x, y) <=> Before(s, x, y) \/ (x \in Elements(s) /\ y = e)
<1> DEFINE r == Append(s, e)
<1>1. /\ r \in Seq(C) /\ Len(s) \in Nat /\ DOMAIN s = 1 .. Len(s) /\ DOMAIN r = 1 .. Len(s) + 1
      /\ \A i \in 1 .. Len(s) : r[i] = s[i]
      /\ r[Len(s) + 1] = e
    OBVIOUS
<1> HIDE DEF r
<1>2. \A i \in DOMAIN r : i \in DOMAIN s \/ i = Len(s) + 1
    BY <1>1
<1>3. \A i \in DOMAIN s : i \in DOMAIN r /\ i # Len(s) + 1 /\ i < Len(s) + 1 /\ r[i] = s[i] /\ s[i] # e
    BY <1>1 DEF Elements
<1>4. Len(s) + 1 \in DOMAIN r
    BY <1>1
<1>5. Distinct(r)
    BY <1>1, <1>2, <1>3 DEF Distinct
<1>6. Elements(r) = Elements(s) \cup {e}
    BY <1>1, <1>2, <1>3, <1>4 DEF Elements
<1>7. ASSUME NEW x, NEW y
      PROVE  Before(r, x, y) <=> Before(s, x, y) \/ (x \in Elements(s) /\ y = e)
  <2>1. ASSUME Before(r, x, y) PROVE Before(s, x, y) \/ (x \in Elements(s) /\ y = e)
    <3>1. PICK i \in DOMAIN r, j \in DOMAIN r : i < j /\ r[i] = x /\ r[j] = y
        BY <2>1 DEF Before
    <3>2. i \in DOMAIN s
        BY <1>1, <1>2, <3>1
    <3>3. CASE j \in DOMAIN s
        BY <1>3, <3>1, <3>2, <3>3 DEF Before
    <3>4. CASE j = Len(s) + 1
        BY <1>1, <1>3, <3>1, <3>2, <3>4 DEF Elements
    <3> QED BY <1>2, <3>3, <3>4
  <2>2. ASSUME Before(s, x, y) PROVE Before(r, x, y)
      BY <1>3, <2>2 DEF Before
  <2>3. ASSUME x \in Elements(s), y = e PROVE Before(r, x, y)
      BY <1>1, <1>3, <1>4, <2>3 DEF Before, Elements
  <2> QED BY <2>1, <2>2, <2>3
<1> QED BY <1>1, <1>5, <1>6, <1>7 DEF r

(* A list without duplicates is as long as the set of its entries. *)
LEMMA ListLength ==
  ASSUME NEW C, NEW s \in Seq(C), Distinct(s)
  PROVE  /\ IsFiniteSet(Elements(s)) /\ Len(s) \in Nat /\ Cardinality(Elements(s)) = Len(s)
<1>1. Len(s) \in Nat /\ s \in [1 .. Len(s) -> C] /\ DOMAIN s = 1 .. Len(s)
    BY LenProperties
<1>2. s \in [1 .. Len(s) -> Elements(s)]
    BY <1>1 DEF Elements
<1>3. s \in Surjection(1 .. Len(s), Elements(s))
    BY <1>1, <1>2 DEF Surjection, Elements
<1>4. s \in Injection(1 .. Len(s), Elements(s))
    BY <1>1, <1>2 DEF Injection, IsInjective, Distinct
<1>5. IsFiniteSet(1 .. Len(s)) /\ Cardinality(1 .. Len(s)) = Len(s)
    BY <1>1, FS_Interval
<1> QED BY <1>1, <1>3, <1>4, <1>5, FS_Surjection
=============================================================================
