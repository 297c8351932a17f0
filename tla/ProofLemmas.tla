---------------------------- MODULE ProofLemmas -----------------------------
(***************************************************************************)
(* What the proofs share: induction over the naturals for a set, in place  *)
(* of the library's theorems for an operator; the shape of sequences whose *)
(* elements have no set of their own; the elements of a sequence that a    *)
(* filter keeps, in order; and what the operators of ChangeTree yield, for *)
(* every tree, list of tips and bound.                                     *)
(***************************************************************************)
EXTENDS ChangeTree, FiniteSetTheorems, TLAPS

(* A set of naturals that is not empty has a smallest element.              *)
LEMMA SmallestIn ==
  ASSUME NEW T \in SUBSET Nat, T # {}
  PROVE  \E m \in T : \A k \in T : m <= k
<1> DEFINE R == OpToRel(<, Nat)
<1>1. IsWellFoundedOn(R, Nat)
  BY NatLessThanWellFounded, Zenon
<1>2. \A x, y \in Nat : x < y => <<x, y>> \in R
  BY DEF OpToRel
<1> HIDE DEF R
<1>3. PICK m \in T : \A k \in T : <<k, m>> \notin R
  BY <1>1, WFMin, Zenon
<1>4. ASSUME NEW k \in T PROVE m <= k
  <2>1. k \in Nat /\ m \in Nat /\ ~(k < m)
    BY <1>2, <1>3, Zenon
  <2> QED
    BY <2>1
<1> QED
  BY <1>4

(* Induction: a set that has 0 and every successor has every natural.       *)
LEMMA NatSetInduction ==
  ASSUME NEW S, 0 \in S, \A n \in Nat : n \in S => n + 1 \in S
  PROVE  Nat \subseteq S
<1> SUFFICES ASSUME Nat \ S # {} PROVE FALSE
  OBVIOUS
<1>1. PICK m \in Nat \ S : \A k \in Nat \ S : m <= k
  BY SmallestIn, Zenon
<1>2. m # 0 /\ m - 1 \in Nat
  OBVIOUS
<1>3. m - 1 \in S
  BY <1>1, <1>2
<1> QED
  BY <1>2, <1>3

-----------------------------------------------------------------------------
(* A sequence, of whatever elements it has.                                 *)
IsSequence(s) == s \in Seq({s[i] : i \in DOMAIN s})

(* A sequence over some set is a sequence over its own elements.            *)
LEMMA SequenceOfOwn ==
  ASSUME NEW D, NEW s \in Seq(D)
  PROVE  IsSequence(s)
BY DEF IsSequence

(* The indices of a sequence.                                               *)
LEMMA SequenceShape ==
  ASSUME NEW s, IsSequence(s)
  PROVE  /\ Len(s) \in Nat
         /\ DOMAIN s = 1..Len(s)
         /\ s = << >> <=> Len(s) = 0
BY DEF IsSequence

(* The empty sequence.                                                      *)
LEMMA EmptyIsSequence ==
  IsSequence(<< >>) /\ Len(<< >>) = 0 /\ DOMAIN << >> = {}
BY DEF IsSequence

(* Append: the indices and elements of the longer sequence.                 *)
LEMMA AppendShape ==
  ASSUME NEW s, IsSequence(s), NEW e
  PROVE  /\ IsSequence(Append(s, e))
         /\ Len(Append(s, e)) = Len(s) + 1
         /\ DOMAIN Append(s, e) = DOMAIN s \cup {Len(s) + 1}
         /\ Append(s, e)[Len(s) + 1] = e
         /\ \A i \in DOMAIN s : Append(s, e)[i] = s[i]
<1> DEFINE D == {s[i] : i \in DOMAIN s} \cup {e}
<1>1. s \in Seq(D) /\ e \in D
  BY DEF IsSequence
<1> HIDE DEF D
<1>2. Append(s, e) \in Seq(D)
  BY <1>1
<1>3. Len(s) \in Nat /\ DOMAIN s = 1..Len(s) /\ Len(Append(s, e)) = Len(s) + 1
  BY <1>1
<1>4. DOMAIN Append(s, e) = 1..(Len(s) + 1)
  BY <1>2, <1>3
<1>5. Append(s, e)[Len(s) + 1] = e /\ \A i \in 1..Len(s) : Append(s, e)[i] = s[i]
  BY <1>1, <1>3
<1>6. IsSequence(Append(s, e))
  BY <1>2, SequenceOfOwn, Zenon
<1> QED
  BY <1>3, <1>4, <1>5, <1>6

(* Two sequences, joined.                                                    *)
LEMMA ConcatShape ==
  ASSUME NEW D, NEW s \in Seq(D), NEW t \in Seq(D)
  PROVE  /\ s \o t \in Seq(D) /\ Len(s \o t) = Len(s) + Len(t)
         /\ \A i \in 1..(Len(s) + Len(t)) :
              (s \o t)[i] = IF i <= Len(s) THEN s[i] ELSE t[i - Len(s)]
OBVIOUS

(* A sequence without its element at k: those before it, then those after.  *)
LEMMA WithoutShape ==
  ASSUME NEW s, IsSequence(s), NEW k \in DOMAIN s
  PROVE  LET r == SubSeq(s, 1, k - 1) \o SubSeq(s, k + 1, Len(s))
         IN  /\ IsSequence(r)
             /\ Len(r) = Len(s) - 1
             /\ \A i \in DOMAIN r : r[i] = IF i < k THEN s[i] ELSE s[i + 1]
<1> DEFINE D == {s[i] : i \in DOMAIN s}
           a == SubSeq(s, 1, k - 1)
           b == SubSeq(s, k + 1, Len(s))
<1>1. s \in Seq(D)
  BY DEF IsSequence
<1> HIDE DEF D
<1>2. Len(s) \in Nat /\ DOMAIN s = 1..Len(s) /\ k \in 1..Len(s)
  BY <1>1
<1>3. a \in Seq(D) /\ Len(a) = k - 1 /\ \A i \in 1..(k - 1) : a[i] = s[i]
  BY <1>1, <1>2
<1>4. b \in Seq(D) /\ Len(b) = Len(s) - k /\ \A i \in 1..(Len(s) - k) : b[i] = s[k + i]
  BY <1>1, <1>2
<1> HIDE DEF a, b
<1>5. /\ a \o b \in Seq(D) /\ Len(a \o b) = Len(s) - 1
      /\ \A i \in 1..(Len(s) - 1) :
           (a \o b)[i] = IF i <= Len(a) THEN a[i] ELSE b[i - Len(a)]
  <2>1. Len(a) + Len(b) = Len(s) - 1
    BY <1>2, <1>3, <1>4
  <2>2. /\ a \o b \in Seq(D) /\ Len(a \o b) = Len(a) + Len(b)
        /\ \A i \in 1..(Len(a) + Len(b)) :
             (a \o b)[i] = IF i <= Len(a) THEN a[i] ELSE b[i - Len(a)]
    BY <1>3, <1>4, ConcatShape, Zenon
  <2> QED
    BY <2>1, <2>2
<1>6. DOMAIN (a \o b) = 1..(Len(s) - 1)
  BY <1>5
<1>7. ASSUME NEW i \in 1..(Len(s) - 1)
      PROVE  (a \o b)[i] = IF i < k THEN s[i] ELSE s[i + 1]
  <2>1. CASE i < k
    <3>1. i \in 1..(k - 1) /\ i <= Len(a)
      BY <1>2, <1>3, <2>1
    <3> QED
      BY <1>3, <1>5, <2>1, <3>1
  <2>2. CASE i >= k
    <3>1. i - Len(a) \in 1..(Len(s) - k) /\ ~(i <= Len(a)) /\ ~(i < k)
      BY <1>2, <1>3, <1>4, <2>2
    <3>2. (a \o b)[i] = b[i - Len(a)]
      BY <1>5, <3>1
    <3>3. b[i - Len(a)] = s[k + (i - Len(a))] /\ k + (i - Len(a)) = i + 1
      BY <1>2, <1>3, <1>4, <3>1
    <3> QED
      BY <3>1, <3>2, <3>3
  <2>3. i < k \/ i >= k
    BY <1>2
  <2> QED
    BY <2>1, <2>2, <2>3, Zenon
<1>8. IsSequence(a \o b)
  BY <1>5, SequenceOfOwn, Zenon
<1> QED
  BY <1>5, <1>6, <1>7, <1>8, Zenon DEF a, b

(* Replacing one element of a sequence.                                     *)
LEMMA ReplaceShape ==
  ASSUME NEW s, IsSequence(s), NEW k \in DOMAIN s, NEW e
  PROVE  /\ IsSequence([s EXCEPT ![k] = e])
         /\ Len([s EXCEPT ![k] = e]) = Len(s)
         /\ DOMAIN [s EXCEPT ![k] = e] = DOMAIN s
         /\ \A i \in DOMAIN s : [s EXCEPT ![k] = e][i] = IF i = k THEN e ELSE s[i]
<1> DEFINE D == {s[i] : i \in DOMAIN s} \cup {e}
<1>1. s \in Seq(D) /\ e \in D
  BY DEF IsSequence
<1> HIDE DEF D
<1>2. Len(s) \in Nat /\ DOMAIN s = 1..Len(s)
  BY <1>1
<1>3. [s EXCEPT ![k] = e] \in Seq(D) /\ Len([s EXCEPT ![k] = e]) = Len(s)
  BY <1>1, <1>2
<1>4. IsSequence([s EXCEPT ![k] = e])
  BY <1>3, SequenceOfOwn, Zenon
<1> QED
  BY <1>1, <1>2, <1>3, <1>4

-----------------------------------------------------------------------------
(* Ranks: a finite set of indices has one element of each rank.             *)
LEMMA OneOfEachRank ==
  ASSUME NEW n \in Nat, NEW S \in SUBSET (1..n)
  PROVE  /\ IsFiniteSet(S) /\ Cardinality(S) \in Nat
         /\ \A m \in 1..Cardinality(S) : \E i \in S : Cardinality({j \in S : j <= i}) = m
         /\ \A i \in S : Cardinality({j \in S : j <= i}) \in 1..Cardinality(S)
         /\ \A i, k \in S : Cardinality({j \in S : j <= i}) = Cardinality({j \in S : j <= k})
                            => i = k
<1> DEFINE upto(i) == {j \in S : j <= i}
           c == Cardinality(S)
           f == [i \in S |-> Cardinality(upto(i))]
           T == 1..c
<1>1. IsFiniteSet(S) /\ c \in Nat
  <2>1. IsFiniteSet(1..n)
    BY FS_Interval, n \in Int, 1 \in Int
  <2>2. IsFiniteSet(S)
    BY <2>1, FS_Subset, Zenon
  <2> QED
    BY <2>2, FS_CardinalityType
<1>2. ASSUME NEW i \in S
      PROVE  IsFiniteSet(upto(i)) /\ Cardinality(upto(i)) \in T
  <2>1. upto(i) \in SUBSET S /\ i \in upto(i)
    OBVIOUS
  <2> HIDE DEF upto
  <2>2. IsFiniteSet(upto(i)) /\ Cardinality(upto(i)) <= c
    BY <1>1, <2>1, FS_Subset
  <2>3. Cardinality(upto(i)) \in Nat /\ Cardinality(upto(i)) # 0
    BY <2>1, <2>2, FS_CardinalityType, FS_EmptySet
  <2> QED
    BY <1>1, <2>2, <2>3
<1>3. ASSUME NEW i \in S, NEW j \in S, i < j
      PROVE  Cardinality(upto(i)) # Cardinality(upto(j))
  <2>0. \A x \in S : x \in Int
    OBVIOUS
  <2>1. upto(i) \in SUBSET upto(j) /\ j \in upto(j) /\ j \notin upto(i)
    <3>1. \A x \in S : x <= i => x <= j
      BY <2>0, <1>3
    <3>2. j <= j /\ ~(j <= i)
      BY <2>0, <1>3
    <3> QED
      BY <3>1, <3>2, Zenon
  <2> HIDE DEF upto
  <2>2. IsFiniteSet(upto(j))
    BY <1>2
  <2> QED
    BY <2>1, <2>2, FS_Subset
<1>4. f \in [S -> T]
  BY <1>2
<1>5. ASSUME NEW i \in S, NEW j \in S, f[i] = f[j] PROVE i = j
  <2>1. f[i] = Cardinality(upto(i)) /\ f[j] = Cardinality(upto(j))
    OBVIOUS
  <2>2. i < j \/ j < i \/ i = j
    OBVIOUS
  <2> HIDE DEF upto, f
  <2> QED
    BY <1>3, <1>5, <2>1, <2>2, Zenon
<1>6. f \in Injection(S, T)
  <2>1. DOMAIN f = S
    OBVIOUS
  <2> HIDE DEF f, T
  <2> QED
    BY <1>4, <1>5, <2>1 DEF Injection, IsInjective
<1>7. IsFiniteSet(T) /\ Cardinality(T) = c
  <2>1. IsFiniteSet(1..c) /\ Cardinality(1..c) = IF 1 > c THEN 0 ELSE c - 1 + 1
    BY <1>1, FS_Interval
  <2> HIDE DEF c
  <2> QED
    BY <1>1, <2>1
<1>8. f \in Surjection(S, T)
  <2> HIDE DEF f, T
  <2> QED
    BY <1>1, <1>6, <1>7, FS_Injection
<1>9. \A m \in T : \E i \in S : f[i] = m
  <2> HIDE DEF f, T
  <2> QED
    BY <1>8 DEF Surjection
<1>10. \A m \in T : \E i \in S : Cardinality(upto(i)) = m
  BY <1>9
<1>11. \A i, j \in S : Cardinality(upto(i)) = Cardinality(upto(j)) => i = j
  BY <1>5
<1>12. \A i \in S : Cardinality(upto(i)) \in T
  BY <1>2
<1> QED
  BY <1>1, <1>10, <1>11, <1>12

(* The elements of a sequence at some of its indices, in order: what a       *)
(* filter of the code computes.                                              *)
InOrder(s, S) ==
  LET Nth(m) == CHOOSE i \in S : Cardinality({j \in S : j <= i}) = m
  IN  [m \in 1..Cardinality(S) |-> s[Nth(m)]]

Elements(s) == {s[i] : i \in DOMAIN s}

(* The elements of r are those that s has at the indices in S.               *)
ElementsAt(r, s, S) ==
  /\ \A x \in Elements(r) : \E i \in S : x = s[i]
  /\ \A i \in S : s[i] \in Elements(r)

(* A filter yields a sequence of the elements it keeps, as many as indices;  *)
(* different elements stay different.                                        *)
LEMMA InOrderShape ==
  ASSUME NEW n \in Nat, NEW S \in SUBSET (1..n), NEW s, NEW D, \A i \in S : s[i] \in D
  PROVE  /\ InOrder(s, S) \in Seq(D)
         /\ Len(InOrder(s, S)) = Cardinality(S)
         /\ Cardinality(S) \in Nat
         /\ \A m \in DOMAIN InOrder(s, S) : \E i \in S : InOrder(s, S)[m] = s[i]
         /\ ElementsAt(InOrder(s, S), s, S)
         /\ (\A i, j \in S : s[i] = s[j] => i = j) => IsInjective(InOrder(s, S))
<1> DEFINE c == Cardinality(S)
           rank(i) == Cardinality({j \in S : j <= i})
           Nth(m) == CHOOSE i \in S : rank(i) = m
           r == InOrder(s, S)
<1>0. /\ c \in Nat
      /\ \A m \in 1..c : \E i \in S : rank(i) = m
      /\ \A i \in S : rank(i) \in 1..c
      /\ \A i, k \in S : rank(i) = rank(k) => i = k
  BY OneOfEachRank, Zenon
<1>1. c \in Nat
  BY <1>0
<1>2. r = [m \in 1..c |-> s[Nth(m)]]
  BY DEF InOrder
<1>3. ASSUME NEW m \in 1..c PROVE Nth(m) \in S /\ rank(Nth(m)) = m
  <2> HIDE DEF rank, c
  <2> QED
    BY <1>0
<1>7. ASSUME NEW i \in S PROVE rank(i) \in 1..c /\ Nth(rank(i)) = i
  <2> HIDE DEF rank, Nth, c
  <2> QED
    BY <1>0, <1>3, ZenonT(30)
<1> HIDE DEF rank, Nth, r, c
<1>4. DOMAIN r = 1..c /\ \A m \in 1..c : r[m] = s[Nth(m)]
  BY <1>2
<1>5. r \in Seq(D) /\ Len(r) = c
  <2>1. r \in [1..c -> D]
    BY <1>2, <1>3, Zenon
  <2> QED
    BY <1>1, <2>1
<1>6. ASSUME \A i, j \in S : s[i] = s[j] => i = j PROVE IsInjective(r)
  <2> SUFFICES ASSUME NEW a \in 1..c, NEW b \in 1..c, r[a] = r[b] PROVE a = b
    BY <1>4 DEF IsInjective
  <2>1. Nth(a) = Nth(b)
    BY <1>3, <1>4, <1>6, ZenonT(30)
  <2> QED
    BY <1>3, <2>1
<1>8. ElementsAt(r, s, S)
  <2>1. \A m \in DOMAIN r : \E i \in S : r[m] = s[i]
    BY <1>3, <1>4, Zenon
  <2>2. \A i \in S : \E m \in DOMAIN r : r[m] = s[i]
    BY <1>4, <1>7
  <2> QED
    BY <2>1, <2>2 DEF ElementsAt, Elements
<1> QED
  BY <1>1, <1>3, <1>4, <1>5, <1>6, <1>8, Zenon DEF r, c

(* A filter keeps the elements at the indices it keeps, and no others.       *)
LEMMA InOrderElements ==
  ASSUME NEW s, IsSequence(s), NEW S \in SUBSET DOMAIN s
  PROVE  /\ IsSequence(InOrder(s, S))
         /\ \A x \in Elements(InOrder(s, S)) : \E i \in S : x = s[i]
         /\ \A i \in S : s[i] \in Elements(InOrder(s, S))
         /\ IsInjective(s) => IsInjective(InOrder(s, S))
<1> DEFINE n == Len(s)
           D == {s[i] : i \in DOMAIN s}
           r == InOrder(s, S)
<1>1. n \in Nat /\ S \in SUBSET (1..n) /\ \A i \in S : s[i] \in D
  BY SequenceShape
<1>2. IsInjective(s) => \A i, j \in S : s[i] = s[j] => i = j
  BY DEF IsInjective
<1> HIDE DEF n, D
<1>3. r \in Seq(D)
  BY <1>1, InOrderShape, Zenon
<1>6. ElementsAt(r, s, S)
  BY <1>1, InOrderShape, Zenon
<1>8. IsInjective(s) => IsInjective(r)
  BY <1>1, <1>2, InOrderShape, Zenon
<1> HIDE DEF r
<1>4. /\ \A x \in Elements(r) : \E i \in S : x = s[i]
      /\ \A i \in S : s[i] \in Elements(r)
  BY <1>6 DEF ElementsAt
<1>5. IsSequence(r)
  BY <1>3, SequenceOfOwn
<1> QED
  BY <1>4, <1>5, <1>8 DEF r

(* Different positions of an injective sequence hold different elements: as *)
(* many elements as positions.                                              *)
LEMMA AsManyElements ==
  ASSUME NEW s, IsInjective(s), NEW K \in SUBSET DOMAIN s, IsFiniteSet(K)
  PROVE  /\ IsFiniteSet({s[i] : i \in K})
         /\ Cardinality({s[i] : i \in K}) = Cardinality(K)
<1> DEFINE T == {s[i] : i \in K}
           f == [i \in K |-> s[i]]
<1>1. f \in [K -> T] /\ DOMAIN f = K /\ \A i \in K : f[i] = s[i]
  OBVIOUS
<1>2. \A t \in T : \E i \in K : f[i] = t
  OBVIOUS
<1>3. \A i, j \in K : f[i] = f[j] => i = j
  BY <1>1 DEF IsInjective
<1> HIDE DEF f, T
<1>4. f \in Injection(K, T) /\ f \in Surjection(K, T)
  BY <1>1, <1>2, <1>3 DEF Injection, Surjection, IsInjective
<1>5. IsFiniteSet(T) /\ Cardinality(T) = Cardinality(K)
  BY <1>4, FS_Surjection
<1> QED
  BY <1>5 DEF T

(* A filter that keeps everything changes nothing. *)
LEMMA InOrderAll ==
  ASSUME NEW s, IsSequence(s)
  PROVE  InOrder(s, DOMAIN s) = s
<1> DEFINE n == Len(s)
           upto(i) == {j \in 1..n : j <= i}
           Nth(m) == CHOOSE i \in 1..n : Cardinality(upto(i)) = m
<1>1. n \in Nat /\ DOMAIN s = 1..n
  BY SequenceShape
<1>2. ASSUME NEW m \in 0..n PROVE Cardinality(upto(m)) = m
  <2>1. upto(m) = 1..m
    BY <1>1
  <2>2. Cardinality(1..m) = IF 1 > m THEN 0 ELSE m - 1 + 1
    BY FS_Interval, 1 \in Int, m \in Int
  <2>3. Cardinality(1..m) = m
    <3> DEFINE k == Cardinality(1..m)
    <3>1. k = IF 1 > m THEN 0 ELSE m - 1 + 1
      BY <2>2
    <3>2. m \in Nat
      BY <1>1
    <3> HIDE DEF k
    <3>3. k = m
      BY <3>1, <3>2
    <3> QED
      BY <3>3 DEF k
  <2> HIDE DEF upto
  <2> QED
    BY <2>1, <2>3, Zenon
<1>3. Cardinality(1..n) = n
  <2>1. Cardinality(1..n) = IF 1 > n THEN 0 ELSE n - 1 + 1
    BY <1>1, FS_Interval, 1 \in Int, n \in Int
  <2> QED
    BY <1>1, <2>1
<1>4. \A i \in 1..n : Cardinality(upto(i)) = i
  BY <1>1, <1>2
<1>5. InOrder(s, DOMAIN s) = [m \in 1..n |-> s[Nth(m)]]
  BY <1>1, <1>3 DEF InOrder
<1> HIDE DEF upto
<1>6. \A m \in 1..n : Nth(m) = m
  BY <1>4
<1> HIDE DEF Nth
<1>7. InOrder(s, DOMAIN s) = [m \in 1..n |-> s[m]]
  BY <1>5, <1>6
<1>8. s = [m \in DOMAIN s |-> s[m]]
  BY DEF IsSequence
<1> QED
  BY <1>1, <1>7, <1>8

-----------------------------------------------------------------------------

(* Newest: a suffix of the sequence, no longer than the bound.              *)
LEMMA NewestShape ==
  ASSUME NEW D, NEW s \in Seq(D), NEW n \in Nat
  PROVE  /\ Newest(s, n) \in Seq(D)
         /\ Len(Newest(s, n)) <= n
         /\ Len(Newest(s, n)) <= Len(s)
         /\ \A i \in DOMAIN Newest(s, n) :
              /\ i + (Len(s) - Len(Newest(s, n))) \in DOMAIN s
              /\ Newest(s, n)[i] = s[i + (Len(s) - Len(Newest(s, n)))]
<1>1. Len(s) \in Nat /\ DOMAIN s = 1..Len(s)
  OBVIOUS
<1>2. CASE Len(s) <= n
  <2>1. Newest(s, n) = s
    BY <1>2 DEF Newest
  <2>2. Len(s) - Len(s) = 0 /\ \A i \in DOMAIN s : i + 0 = i
    BY <1>1
  <2> QED
    BY <1>1, <1>2, <2>1, <2>2
<1>3. CASE Len(s) > n
  <2> DEFINE a == Len(s) - n + 1
             r == SubSeq(s, a, Len(s))
  <2>1. Newest(s, n) = r
    BY <1>1, <1>3 DEF Newest
  <2>2. a \in 1..(Len(s) + 1)
    BY <1>1, <1>3
  <2>3. r \in Seq(D) /\ Len(r) = n /\ DOMAIN r = 1..n
    BY <1>1, <1>3, <2>2
  <2>4. \A i \in 1..n : r[i] = s[a + i - 1] /\ i + (Len(s) - n) \in 1..Len(s)
                        /\ a + i - 1 = i + (Len(s) - n)
    BY <1>1, <1>3, <2>2
  <2>5. \A i \in DOMAIN r : i + (Len(s) - n) \in DOMAIN s /\ r[i] = s[i + (Len(s) - n)]
    BY <1>1, <2>3, <2>4, Zenon
  <2> HIDE DEF a, r
  <2>6. Len(r) <= n /\ Len(r) <= Len(s)
    BY <1>1, <1>3, <2>3
  <2> QED
    BY <2>1, <2>3, <2>5, <2>6
<1> QED
  BY <1>1, <1>2, <1>3

(* The newest elements of different ones are different.                     *)
LEMMA NewestInjective ==
  ASSUME NEW D, NEW s \in Seq(D), NEW n \in Nat, IsInjective(s)
  PROVE  IsInjective(Newest(s, n)) /\ Elements(Newest(s, n)) \subseteq Elements(s)
<1> DEFINE r == Newest(s, n)
           k == Len(s) - Len(r)
<1>1. /\ r \in Seq(D) /\ Len(r) \in Nat /\ Len(s) \in Nat /\ DOMAIN r = 1..Len(r)
      /\ \A i \in DOMAIN r : i + k \in DOMAIN s /\ r[i] = s[i + k]
  BY NewestShape
<1>2. k \in Int
  BY <1>1
<1> HIDE DEF r, k
<1>3. ASSUME NEW i \in DOMAIN r, NEW j \in DOMAIN r, r[i] = r[j] PROVE i = j
  <2>1. i + k = j + k
    BY <1>1, <1>3 DEF IsInjective
  <2>2. i \in Int /\ j \in Int
    BY <1>1
  <2> QED
    BY <1>2, <2>1, <2>2
<1>4. IsInjective(r) /\ Elements(r) \subseteq Elements(s)
  BY <1>1, <1>3 DEF IsInjective, Elements
<1> QED
  BY <1>4 DEF r

(* Without: what is not in S, once more in order.                           *)
LEMMA WithoutElements ==
  ASSUME NEW D, NEW s \in Seq(D), NEW S
  PROVE  /\ Without(s, S) \in Seq(D)
         /\ Elements(Without(s, S)) = Elements(s) \ S
         /\ IsInjective(s) => IsInjective(Without(s, S))
<1> DEFINE kept == {i \in DOMAIN s : s[i] \notin S}
           r == InOrder(s, kept)
<1>1. IsSequence(s) /\ kept \in SUBSET DOMAIN s
  BY SequenceOfOwn
<1>2. Without(s, S) = r
  BY DEF Without, InOrder
<1>3. \A i \in kept : i \in DOMAIN s /\ s[i] \notin S /\ s[i] \in D
  OBVIOUS
<1>4. \A i \in DOMAIN s : s[i] \notin S => i \in kept
  OBVIOUS
<1> HIDE DEF kept
<1>5. /\ IsSequence(r)
      /\ \A x \in Elements(r) : \E i \in kept : x = s[i]
      /\ \A i \in kept : s[i] \in Elements(r)
      /\ IsInjective(s) => IsInjective(r)
  BY <1>1, InOrderElements
<1> HIDE DEF r
<1>6. Elements(r) = Elements(s) \ S
  BY <1>3, <1>4, <1>5 DEF Elements
<1>7. r \in Seq(D)
  <2>1. \A i \in DOMAIN r : r[i] \in D
    BY <1>3, <1>5 DEF Elements
  <2> QED
    BY <1>5, <2>1 DEF IsSequence
<1> QED
  BY <1>2, <1>5, <1>6, <1>7

(* Sequences of different elements, joined.                                 *)
LEMMA JoinInjective ==
  ASSUME NEW D, NEW s \in Seq(D), NEW t \in Seq(D), IsInjective(s), IsInjective(t),
         Elements(s) \cap Elements(t) = {}
  PROVE  /\ s \o t \in Seq(D) /\ IsInjective(s \o t)
         /\ Elements(s \o t) = Elements(s) \cup Elements(t)
<1> DEFINE u == s \o t
           m == Len(s)
           n == Len(t)
<1>1. /\ m \in Nat /\ n \in Nat /\ DOMAIN s = 1..m /\ DOMAIN t = 1..n
  OBVIOUS
<1>2. /\ u \in Seq(D) /\ Len(u) = m + n
      /\ \A i \in 1..(m + n) : u[i] = IF i <= m THEN s[i] ELSE t[i - m]
  BY ConcatShape, Zenon
<1>3. DOMAIN u = 1..(m + n)
  BY <1>1, <1>2
<1> HIDE DEF u, m, n
<1>4. ASSUME NEW i \in DOMAIN u
      PROVE  \/ i \in DOMAIN s /\ u[i] = s[i] /\ u[i] \in Elements(s)
             \/ i - m \in DOMAIN t /\ u[i] = t[i - m] /\ u[i] \in Elements(t)
  BY <1>1, <1>2, <1>3 DEF Elements
<1>5. ASSUME NEW i \in DOMAIN u, NEW j \in DOMAIN u, u[i] = u[j] PROVE i = j
  <2>1. i \in Int /\ j \in Int /\ m \in Int
    BY <1>1, <1>3
  <2>2. CASE i \in DOMAIN s /\ u[i] = s[i] /\ u[i] \in Elements(s)
    <3>1. j \in DOMAIN s /\ u[j] = s[j]
      BY <1>4, <1>5, <2>2, Zenon
    <3> QED
      BY <1>5, <2>2, <3>1, Zenon DEF IsInjective
  <2>3. CASE i - m \in DOMAIN t /\ u[i] = t[i - m] /\ u[i] \in Elements(t)
    <3>1. j - m \in DOMAIN t /\ u[j] = t[j - m]
      BY <1>4, <1>5, <2>3, Zenon
    <3>2. i - m = j - m
      BY <1>5, <2>3, <3>1, Zenon DEF IsInjective
    <3> QED
      BY <2>1, <3>2
  <2> QED
    BY <1>4, <2>2, <2>3
<1>6. \A i \in DOMAIN s : i \in DOMAIN u /\ u[i] = s[i]
  BY <1>1, <1>2, <1>3
<1>7. \A i \in DOMAIN t : i + m \in DOMAIN u /\ u[i + m] = t[i]
  <2> SUFFICES ASSUME NEW i \in DOMAIN t PROVE i + m \in DOMAIN u /\ u[i + m] = t[i]
    OBVIOUS
  <2>1. i + m \in 1..(m + n) /\ ~(i + m <= m) /\ (i + m) - m = i
    BY <1>1
  <2> QED
    BY <1>2, <1>3, <2>1
<1>8. Elements(u) = Elements(s) \cup Elements(t)
  BY <1>4, <1>6, <1>7 DEF Elements
<1>9. IsInjective(u)
  BY <1>5 DEF IsInjective
<1> QED
  BY <1>2, <1>8, <1>9 DEF u

(* TrackTips: the tips stay different from each other and within the bound, *)
(* and each is one of the old or of the fresh ones.                         *)
LEMMA TrackTipsShape ==
  ASSUME NEW D, NEW tips \in Seq(D), NEW fresh \in Seq(D),
         IsInjective(tips), IsInjective(fresh)
  PROVE  /\ TrackTips(tips, fresh) \in Seq(D)
         /\ Len(TrackTips(tips, fresh)) <= MaxRecentTips
         /\ IsInjective(TrackTips(tips, fresh))
         /\ Elements(TrackTips(tips, fresh)) \subseteq Elements(tips) \cup Elements(fresh)
<1> DEFINE old == Without(tips, Elements(fresh))
           all == old \o fresh
<1>1. /\ old \in Seq(D) /\ Elements(old) = Elements(tips) \ Elements(fresh)
      /\ IsInjective(old)
  BY WithoutElements
<1>2. TrackTips(tips, fresh) = Newest(all, MaxRecentTips)
  BY DEF TrackTips, Elements
<1> HIDE DEF old
<1>3. /\ all \in Seq(D) /\ IsInjective(all)
      /\ Elements(all) = Elements(old) \cup Elements(fresh)
  BY <1>1, JoinInjective
<1> HIDE DEF all
<1>4. MaxRecentTips \in Nat
  BY TipBoundsAssumption
<1>5. /\ Newest(all, MaxRecentTips) \in Seq(D)
      /\ Len(Newest(all, MaxRecentTips)) <= MaxRecentTips
  BY <1>3, <1>4, NewestShape
<1>6. /\ IsInjective(Newest(all, MaxRecentTips))
      /\ Elements(Newest(all, MaxRecentTips)) \subseteq Elements(all)
  BY <1>3, <1>4, NewestInjective
<1> QED
  BY <1>1, <1>2, <1>3, <1>5, <1>6

(* trackTipInList: the same for one CID.                                    *)
LEMMA TrackTipShape ==
  ASSUME NEW D, NEW tips \in Seq(D), NEW c \in D, IsInjective(tips)
  PROVE  /\ trackTipInList(tips, c) \in Seq(D)
         /\ Len(trackTipInList(tips, c)) <= MaxRecentTips
         /\ IsInjective(trackTipInList(tips, c))
         /\ Elements(trackTipInList(tips, c)) \subseteq Elements(tips) \cup {c}
<1> DEFINE fresh == <<c>>
<1>1. fresh \in Seq(D) /\ IsInjective(fresh) /\ Elements(fresh) = {c}
  BY DEF IsInjective, Elements
<1> HIDE DEF fresh
<1>2. trackTipInList(tips, c) = TrackTips(tips, fresh)
  BY DEF trackTipInList, fresh
<1> QED
  BY <1>1, <1>2, TrackTipsShape

(* trackTipInList of a CID that is no tip yet: it is appended, and the      *)
(* oldest one may be evicted.                                               *)
LEMMA TrackNewTip ==
  ASSUME NEW D, NEW tips \in Seq(D), NEW c, c \notin Elements(tips)
  PROVE  trackTipInList(tips, c) = Newest(Append(tips, c), MaxRecentTips)
<1> DEFINE kept == {i \in DOMAIN tips : tips[i] \notin {c}}
<1>1. {<<c>>[i] : i \in DOMAIN <<c>>} = {c}
  OBVIOUS
<1>2. kept = DOMAIN tips
  BY Zenon DEF Elements
<1>3. IsSequence(tips)
  BY SequenceOfOwn
<1>4. Without(tips, {c}) = InOrder(tips, kept)
  BY DEF Without, InOrder
<1> HIDE DEF kept
<1>5. Without(tips, {c}) = tips
  BY <1>2, <1>3, <1>4, InOrderAll
<1>6. trackTipInList(tips, c) = Newest(tips \o <<c>>, MaxRecentTips)
  BY <1>1, <1>5, Zenon DEF trackTipInList, TrackTips
<1>7. tips \o <<c>> = Append(tips, c)
  OBVIOUS
<1> QED
  BY <1>6, <1>7, Zenon

(* selectCrossLinks: tips, and neither the parent nor the new change.       *)
LEMMA LinksAreTips ==
  ASSUME NEW tips, NEW p, NEW c
  PROVE  selectCrossLinks(tips, p, c) \subseteq Elements(tips) \ {p, c}
BY Zenon DEF selectCrossLinks, Elements

(* After a tip c has been added, the tips that a change with parent q would *)
(* link are c, the former parent p, or tips it would have linked before: an *)
(* older one never takes their place.                                       *)
LEMMA NextLinks ==
  ASSUME NEW D, NEW tips \in Seq(D), NEW c \in D, c \notin Elements(tips),
         NEW p, NEW q \in {c, p}, NEW d, NEW e,
         d \notin Elements(tips), e \notin Elements(tips)
  PROVE  selectCrossLinks(trackTipInList(tips, c), q, d)
           \subseteq {c, p} \cup selectCrossLinks(tips, p, e)
<1> DEFINE all == Append(tips, c)
           new == trackTipInList(tips, c)
           k == Len(all) - Len(new)
           n == Len(tips)
           Cand(s, x, y) == {i \in DOMAIN s : s[i] \notin {x, y}}
           Newer(s, x, y, i) == {j \in Cand(s, x, y) : j > i}
<1>1. /\ n \in Nat /\ DOMAIN tips = 1..n /\ all \in Seq(D) /\ Len(all) = n + 1
      /\ DOMAIN all = 1..(n + 1) /\ \A i \in 1..n : all[i] = tips[i]
      /\ all[n + 1] = c
  OBVIOUS
<1>2. new = Newest(all, MaxRecentTips)
  BY TrackNewTip
<1> HIDE DEF all, n
<1>3. /\ new \in Seq(D) /\ Len(new) <= Len(all)
      /\ \A i \in DOMAIN new : i + k \in DOMAIN all /\ new[i] = all[i + k]
  BY <1>1, <1>2, TipBoundsAssumption, NewestShape
<1>4. Len(new) \in Nat /\ DOMAIN new = 1..Len(new) /\ k \in Nat /\ Len(new) + k = n + 1
  BY <1>1, <1>3
<1> HIDE DEF new, k
<1>5. SUFFICES ASSUME NEW t \in selectCrossLinks(new, q, d), t \notin {c, p}
               PROVE  t \in selectCrossLinks(tips, p, e)
  BY DEF new
<1>6. PICK i \in Cand(new, q, d) : t = new[i] /\ Cardinality(Newer(new, q, d, i)) < MaxCrossLinks
  BY <1>5 DEF selectCrossLinks
<1>7. i + k \in 1..n /\ t = tips[i + k] /\ i \in 1..Len(new)
  <2>1. i \in DOMAIN new /\ i + k \in 1..(n + 1) /\ t = all[i + k]
    BY <1>1, <1>3, <1>6
  <2>2. i + k # n + 1
    BY <1>1, <1>5, <2>1
  <2> QED
    BY <1>1, <1>4, <2>1, <2>2
<1>8. i + k \in Cand(tips, p, e)
  BY <1>1, <1>5, <1>7 DEF Elements
<1> DEFINE A == Newer(tips, p, e, i + k)
           B == Newer(new, q, d, i)
           f == [j \in A |-> j - k]
<1>9. ASSUME NEW j \in A PROVE j - k \in B /\ j \in Int
  <2>1. j \in 1..n /\ j > i + k /\ tips[j] \notin {p, e}
    BY <1>1
  <2>2. j - k \in 1..Len(new) /\ j - k > i /\ (j - k) + k = j
    BY <1>1, <1>4, <1>7, <2>1
  <2>3. new[j - k] = tips[j]
    BY <1>1, <1>3, <1>4, <2>1, <2>2, Zenon
  <2>4. tips[j] \in Elements(tips) /\ tips[j] # c
    BY <1>1, <2>1 DEF Elements
  <2>5. j - k \in DOMAIN new /\ new[j - k] \notin {q, d}
    BY <1>4, <2>1, <2>2, <2>3, <2>4
  <2> QED
    BY <2>1, <2>2, <2>5
<1>10. IsFiniteSet(B)
  <2>1. B \in SUBSET (1..Len(new))
    BY <1>4
  <2> HIDE DEF B
  <2> QED
    BY <1>4, <2>1, OneOfEachRank, Zenon
<1>11. f \in [A -> B] /\ DOMAIN f = A /\ \A j \in A : f[j] = j - k
  BY <1>9
<1>12. \A j, l \in A : j \in Int /\ l \in Int /\ (j - k = l - k => j = l)
  BY <1>4, <1>9
<1> HIDE DEF A, B, f
<1>13. f \in Injection(A, B)
  BY <1>11, <1>12 DEF Injection, IsInjective
<1>14. /\ IsFiniteSet(A) /\ Cardinality(A) <= Cardinality(B)
       /\ Cardinality(A) \in Nat /\ Cardinality(B) \in Nat
  BY <1>10, <1>13, FS_Injection, FS_CardinalityType
<1>15. Cardinality(A) < MaxCrossLinks
  BY <1>6, <1>14, TipBoundsAssumption DEF B
<1> QED
  BY <1>7, <1>8, <1>15, Zenon DEF A, selectCrossLinks

(* NewNodes: the root of the tree is known, or one of the new nodes; each of *)
(* these is a node of the tree, and different nodes stay different.          *)
LEMMA NewNodesShape ==
  ASSUME NEW D, NEW tree \in Seq(D), NEW known
  PROVE  /\ NewNodes(tree, known) \in Seq(D)
         /\ Inline(NewNodes(tree, known)) \subseteq Inline(tree)
         /\ Deferred(NewNodes(tree, known)) \subseteq Deferred(tree)
         /\ tree # << >> => \/ tree[Len(tree)].cid \in known
                            \/ tree[Len(tree)].cid \in Inline(NewNodes(tree, known))
         /\ (\A i, j \in DOMAIN tree : tree[i].cid = tree[j].cid => i = j)
              => \A i, j \in DOMAIN NewNodes(tree, known) :
                   NewNodes(tree, known)[i].cid = NewNodes(tree, known)[j].cid => i = j
<1> DEFINE n == Len(tree)
           Top(i) == /\ i > 0 => tree[i].cid \in known
                     /\ \A j \in (i + 1)..n : tree[j].cid \notin known
           top == CHOOSE i \in 0..n : Top(i)
           new == NewNodes(tree, known)
<1>1. n \in Nat /\ DOMAIN tree = 1..n
  OBVIOUS
<1>2. \E i \in 0..n : Top(i)
  <2> DEFINE known_ == {i \in 1..n : tree[i].cid \in known}
             T == {n - i : i \in known_}
  <2>1. CASE known_ = {}
    <3>1. Top(0)
      BY <1>1, <2>1
    <3> QED
      BY <1>1, <3>1
  <2>2. CASE known_ # {}
    <3>1. T \in SUBSET Nat /\ T # {}
      <4>1. \A i \in known_ : n - i \in Nat
        BY <1>1
      <4> QED
        BY <2>2, <4>1
    <3> HIDE DEF T
    <3>2. PICK m \in T : \A k \in T : m <= k
      BY <3>1, SmallestIn
    <3>3. PICK i \in known_ : m = n - i
      BY <3>2 DEF T
    <3>4. \A j \in known_ : n - j \in T
      BY DEF T
    <3>5. ASSUME NEW j \in (i + 1)..n PROVE tree[j].cid \notin known
      <4>1. i \in 1..n /\ j \in 1..n /\ ~(n - i <= n - j)
        BY <1>1
      <4> QED
        BY <3>2, <3>3, <3>4, <4>1
    <3>6. i \in 0..n /\ tree[i].cid \in known
      BY <1>1
    <3> QED
      BY <3>5, <3>6
  <2> QED
    BY <2>1, <2>2
<1>3. top \in 0..n /\ Top(top)
  <2> HIDE DEF Top
  <2> QED
    BY <1>2
<1>4. new = SubSeq(tree, top + 1, n)
  BY DEF NewNodes
<1> HIDE DEF top, n
<1>0. n \in Nat /\ top \in 0..n
  BY <1>1, <1>3
<1> HIDE DEF new
<1>5. new \in Seq(D) /\ Len(new) = n - top /\ \A i \in 1..(n - top) : new[i] = tree[top + i]
  <2> DEFINE r == SubSeq(tree, top + 1, n)
  <2>1. top + 1 \in 1..(Len(tree) + 1) /\ n \in (top + 1 - 1)..Len(tree) /\ n = Len(tree)
    BY <1>0 DEF n
  <2>2. r \in Seq(D)
    BY <1>0, <2>1
  <2>3. Len(r) = n - top
    BY <1>0, <2>1
  <2>4. \A i \in 1..(n - top) : r[i] = tree[top + i]
    BY <1>0, <2>1
  <2> QED
    BY <1>4, <2>2, <2>3, <2>4
<1>6. DOMAIN new = 1..(n - top)
  BY <1>0, <1>5
<1>7. \A i \in DOMAIN new : top + i \in DOMAIN tree /\ new[i] = tree[top + i]
  <2>1. \A i \in 1..(n - top) : top + i \in 1..n
    BY <1>0
  <2> QED
    BY <1>1, <1>5, <1>6, <2>1
<1>8. Inline(new) \subseteq Inline(tree) /\ Deferred(new) \subseteq Deferred(tree)
  BY <1>7 DEF Inline, Deferred
<1>9. ASSUME tree # << >>
      PROVE  tree[n].cid \in known \/ tree[n].cid \in Inline(new)
  <2>1. n # 0
    BY <1>1, <1>9 DEF n
  <2>2. CASE top = n
    BY <1>1, <1>3, <2>1, <2>2
  <2>3. CASE top # n
    <3>1. n - top \in DOMAIN new /\ top + (n - top) = n
      BY <1>1, <1>3, <1>6, <2>3
    <3>2. new[n - top] = tree[n]
      BY <1>7, <3>1
    <3> QED
      BY <3>1, <3>2 DEF Inline
  <2> QED
    BY <2>2, <2>3
<1>10. ASSUME \A i, j \in DOMAIN tree : tree[i].cid = tree[j].cid => i = j,
              NEW i \in DOMAIN new, NEW j \in DOMAIN new, new[i].cid = new[j].cid
       PROVE  i = j
  <2>1. top + i = top + j
    BY <1>7, <1>10
  <2>2. i \in Int /\ j \in Int /\ top \in Int
    BY <1>1, <1>3, <1>6
  <2> QED
    BY <2>1, <2>2
<1>11. (\A i, j \in DOMAIN tree : tree[i].cid = tree[j].cid => i = j)
         => \A i, j \in DOMAIN new : new[i].cid = new[j].cid => i = j
  BY <1>10
<1> QED
  BY <1>5, <1>8, <1>9, <1>11 DEF new, n
=============================================================================
