---------------------------- MODULE OrdersProofs ----------------------------
(* What Orders promises: every element of a finite set has a place of its    *)
(* own in the order, and the places are those from 1 to the cardinality; and *)
(* what the proofs need of numbers, powers of 2, and sequences.              *)
EXTENDS Orders, FiniteSetTheorems, FunctionTheorems, SequenceTheorems, WellFoundedInduction, TLAPS

LEMMA HasLeast ==
  ASSUME NEW S \in SUBSET Nat, S # {}
  PROVE  \E n \in S : \A m \in S : n <= m
<1> DEFINE R == OpToRel(<, Nat)
<1>1. IsWellFoundedOn(R, Nat)
  BY NatLessThanWellFounded, Zenon
<1>2. \A m, n \in Nat : m < n => <<m, n>> \in R
  BY Zenon DEF OpToRel
<1> HIDE DEF R
<1>3. PICK n \in S : \A m \in S : <<m, n>> \notin R
  BY <1>1, WFMin
<1>4. \A m \in S : ~(m < n)
  BY <1>2, <1>3
<1>5. n \in Nat /\ \A m \in S : m \in Nat
  OBVIOUS
<1> QED BY <1>4, <1>5

\* Induction, over a set.
LEMMA AllNumbers ==
  ASSUME NEW S \in SUBSET Nat, 0 \in S, \A n \in S : n + 1 \in S
  PROVE  S = Nat
<1> SUFFICES ASSUME Nat \ S # {} PROVE FALSE
  OBVIOUS
<1>1. PICK n \in Nat \ S : \A m \in Nat \ S : n <= m
  BY HasLeast
<1>2. n - 1 \in Nat \ S
  BY <1>1
<1> QED BY <1>1, <1>2

LEMMA BeforeFinite ==
  ASSUME NEW S, IsFiniteSet(S), NEW R, Orders(R, S), NEW x \in S
  PROVE  /\ IsFiniteSet(Before(x, R, S))
         /\ Cardinality(Before(x, R, S)) \in 0 .. Cardinality(S) - 1
<1>1. Before(x, R, S) \in SUBSET S /\ Before(x, R, S) # S
  BY DEF Before, Orders
<1>2. /\ IsFiniteSet(Before(x, R, S))
      /\ Cardinality(Before(x, R, S)) <= Cardinality(S)
      /\ Cardinality(S) # Cardinality(Before(x, R, S))
  BY <1>1, FS_Subset
<1>3. Cardinality(S) \in Nat /\ Cardinality(Before(x, R, S)) \in Nat
  BY <1>2, FS_CardinalityType
<1>. QED BY <1>2, <1>3

\* An element that is before another has fewer before it.
LEMMA BeforeGrows ==
  ASSUME NEW S, IsFiniteSet(S), NEW R, Orders(R, S), NEW x \in S, NEW y \in S, <<x, y>> \in R
  PROVE  Cardinality(Before(x, R, S)) < Cardinality(Before(y, R, S))
<1>1. Before(x, R, S) \in SUBSET Before(y, R, S) /\ Before(x, R, S) # Before(y, R, S)
  BY DEF Before, Orders
<1>2. IsFiniteSet(Before(y, R, S)) /\ IsFiniteSet(Before(x, R, S))
  BY BeforeFinite
<1>3. /\ Cardinality(Before(x, R, S)) <= Cardinality(Before(y, R, S))
      /\ Cardinality(Before(x, R, S)) # Cardinality(Before(y, R, S))
  BY <1>1, <1>2, FS_Subset
<1>4. Cardinality(Before(x, R, S)) \in Nat /\ Cardinality(Before(y, R, S)) \in Nat
  BY <1>2, FS_CardinalityType
<1>. QED BY <1>3, <1>4

\* Every place is taken, as there are as many places as elements.
LEMMA PlacesTaken ==
  ASSUME NEW S, IsFiniteSet(S), NEW R, Orders(R, S), NEW k \in 1 .. Cardinality(S)
  PROVE  \E x \in S : Cardinality(Before(x, R, S)) = k - 1
<1> DEFINE n == Cardinality(S)
           place == [x \in S |-> Cardinality(Before(x, R, S))]
<1>1. n \in Nat
  BY FS_CardinalityType
<1>2. place \in [S -> 0 .. n - 1]
  BY BeforeFinite
<1>3. \A x, y \in S : place[x] = place[y] => x = y
  <2> SUFFICES ASSUME NEW x \in S, NEW y \in S, x # y PROVE place[x] # place[y]
    OBVIOUS
  <2>1. place[x] \in Int /\ place[y] \in Int
    BY <1>1, <1>2
  <2>2. <<x, y>> \in R \/ <<y, x>> \in R
    BY DEF Orders
  <2>3. place[x] < place[y] \/ place[y] < place[x]
    BY <2>2, BeforeGrows
  <2>. QED BY <2>1, <2>3
<1>4. place \in Injection(S, 0 .. n - 1)
  BY <1>2, <1>3 DEF Injection, IsInjective
<1> HIDE DEF n
<1>5. IsFiniteSet(0 .. n - 1) /\ Cardinality(0 .. n - 1) = n
  <2>1. 0 \in Int /\ n - 1 \in Int /\ (0 > n - 1 => n = 0) /\ n - 1 - 0 + 1 = n
    BY <1>1
  <2>. QED BY <2>1, FS_Interval
<1>6. place \in Surjection(S, 0 .. n - 1)
  BY <1>4, <1>5, FS_Injection DEF n
<1>7. \A j \in 0 .. n - 1 : \E x \in S : place[x] = j
  BY <1>6 DEF Surjection
<1>8. k - 1 \in 0 .. n - 1
  BY <1>1 DEF n
<1>. QED BY <1>7, <1>8

\* InOrder has each element of the set once, and the elements in order.
THEOREM InOrderSorts ==
  ASSUME NEW S, IsFiniteSet(S), NEW R, Orders(R, S)
  PROVE  /\ InOrder(R, S) \in Seq(S)
         /\ Len(InOrder(R, S)) = Cardinality(S)
         /\ \A x \in S : \E k \in 1 .. Cardinality(S) : InOrder(R, S)[k] = x
         /\ \A j, k \in 1 .. Cardinality(S) : j < k => <<InOrder(R, S)[j], InOrder(R, S)[k]>> \in R
<1> DEFINE n == Cardinality(S)
           s == InOrder(R, S)
           place == [x \in S |-> Cardinality(Before(x, R, S))]
<1>1. n \in Nat
  BY FS_CardinalityType
<1>2. \A k \in 1 .. n : s[k] \in S /\ place[s[k]] = k - 1
  BY PlacesTaken DEF InOrder
<1>3. place \in [S -> 0 .. n - 1]
  BY BeforeFinite
<1>4. \A x, y \in S : <<x, y>> \in R => place[x] < place[y]
  BY BeforeGrows
<1>5. s \in [1 .. n -> S]
  BY <1>2 DEF InOrder
<1> HIDE DEF n, s, place
<1>6. s \in Seq(S) /\ Len(s) = n
  BY <1>1, <1>5
<1>7. ASSUME NEW x \in S PROVE \E k \in 1 .. n : s[k] = x
  <2>1. \A y \in S : place[y] \in 0 .. n - 1
    BY <1>3
  <2>2. PICK k \in 1 .. n : place[x] = k - 1
    BY <1>1, <2>1
  <2>3. s[k] \in S /\ place[s[k]] = place[x]
    BY <1>2, <2>2
  <2>4. ~(place[s[k]] < place[x]) /\ ~(place[x] < place[s[k]])
    BY <1>1, <2>1, <2>3
  <2>5. s[k] = x
    BY <1>4, <2>3, <2>4 DEF Orders
  <2>. QED BY <2>5
<1>8. ASSUME NEW j \in 1 .. n, NEW k \in 1 .. n, j < k PROVE <<s[j], s[k]>> \in R
  <2>1. s[j] \in S /\ s[k] \in S /\ place[s[j]] = j - 1 /\ place[s[k]] = k - 1
    BY <1>2
  <2>2. j - 1 # k - 1 /\ ~(k - 1 < j - 1)
    BY <1>1, <1>8
  <2>3. s[j] # s[k] /\ ~(place[s[k]] < place[s[j]])
    BY <2>1, <2>2
  <2>. QED BY <1>4, <2>1, <2>3 DEF Orders
<1>. QED BY <1>6, <1>7, <1>8 DEF n, s

\* A part of a sequence has the elements at its positions, and no others.
THEOREM PartHas ==
  ASSUME NEW T, NEW s \in Seq(T), NEW S \in SUBSET (DOMAIN s)
  PROVE  /\ Part(s, S) \in Seq(T)
         /\ {Part(s, S)[k] : k \in DOMAIN Part(s, S)} = {s[i] : i \in S}
<1> DEFINE less == {ij \in S \X S : ij[1] < ij[2]}
           positions == InOrder(less, S)
           n == Cardinality(S)
<1>1. DOMAIN s = 1 .. Len(s) /\ Len(s) \in Nat
  BY LenProperties
<1>2. IsFiniteSet(1 .. Len(s))
  BY <1>1, FS_Interval
<1>3. IsFiniteSet(S) /\ n \in Nat
  BY <1>1, <1>2, FS_Subset, FS_CardinalityType
<1>4. \A i \in S : i \in Nat
  BY <1>1
<1>5. Orders(less, S)
  BY <1>4 DEF Orders
<1>6. /\ positions \in Seq(S) /\ Len(positions) = n
      /\ \A i \in S : \E k \in 1 .. n : positions[k] = i
  BY <1>3, <1>5, InOrderSorts
<1>7. \A k \in 1 .. n : positions[k] \in S
  BY <1>6, ElementOfSeq
<1>8. Part(s, S) = [k \in 1 .. n |-> s[positions[k]]]
  BY DEF Part
<1> HIDE DEF positions, less
<1>9. \A i \in S : s[i] \in T
  BY <1>1, ElementOfSeq
<1>10. Part(s, S) \in [1 .. n -> T]
  BY <1>7, <1>8, <1>9
<1>11. Part(s, S) \in Seq(T) /\ DOMAIN Part(s, S) = 1 .. n
  BY <1>3, <1>10, SeqDef
<1>12. {Part(s, S)[k] : k \in DOMAIN Part(s, S)} = {s[positions[k]] : k \in 1 .. n}
  BY <1>8
<1>13. {s[positions[k]] : k \in 1 .. n} = {s[i] : i \in S}
  BY <1>6, <1>7
<1>. QED BY <1>11, <1>12, <1>13
-----------------------------------------------------------------------------
(* Powers of 2, as the numbers of subsets *)

\* The subsets of 1 .. n + 1 are those of 1 .. n, with n + 1 and without it.
LEMMA PowerDoubles ==
  ASSUME NEW n \in Nat
  PROVE  2 ^ n \in Nat /\ 2 ^ (n + 1) = 2 * 2 ^ n
<1> DEFINE A == SUBSET (1 .. n)
           B == {U \cup {n + 1} : U \in A}
           f == [U \in A |-> U \cup {n + 1}]
<1>1. \A m \in Nat : IsFiniteSet(1 .. m) /\ Cardinality(1 .. m) = m
  <2> SUFFICES ASSUME NEW m \in Nat PROVE IsFiniteSet(1 .. m) /\ Cardinality(1 .. m) = m
    OBVIOUS
  <2>1. IsFiniteSet(1 .. m) /\ Cardinality(1 .. m) = IF 1 > m THEN 0 ELSE m - 1 + 1
    BY FS_Interval
  <2> QED BY <2>1
<1>2. \A m \in Nat : /\ IsFiniteSet(SUBSET (1 .. m))
                     /\ Cardinality(SUBSET (1 .. m)) = 2 ^ m /\ 2 ^ m \in Nat
  BY <1>1, FS_SUBSET, FS_CardinalityType
<1>3. IsFiniteSet(A) /\ Cardinality(A) = 2 ^ n /\ 2 ^ n \in Nat
  BY <1>2
<1>4. n + 1 \in Nat /\ n + 1 \notin 1 .. n /\ 1 .. n + 1 = (1 .. n) \cup {n + 1}
  OBVIOUS
<1>5. f \in Bijection(A, B)
  <2>1. f \in [A -> B] /\ \A V \in B : \E U \in A : f[U] = V
    OBVIOUS
  <2>2. ASSUME NEW U \in A, NEW V \in A, f[U] = f[V] PROVE U = V
    <3>1. n + 1 \notin U /\ n + 1 \notin V /\ U \cup {n + 1} = V \cup {n + 1}
      BY <1>4, <2>2
    <3> QED BY <3>1
  <2> QED BY <2>1, <2>2 DEF Bijection, Injection, IsInjective, Surjection
<1>6. IsFiniteSet(B) /\ Cardinality(B) = 2 ^ n
  BY <1>3, <1>5, FS_Bijection DEF ExistsBijection
<1>7. SUBSET (1 .. n + 1) = A \cup B
  <2>1. ASSUME NEW U \in SUBSET (1 .. n + 1) PROVE U \in A \cup B
    <3>1. CASE n + 1 \in U
      <4>1. U \ {n + 1} \in A /\ U = (U \ {n + 1}) \cup {n + 1}
        BY <1>4, <3>1
      <4> QED BY <4>1
    <3>2. CASE n + 1 \notin U
      BY <1>4, <3>2
    <3> QED BY <3>1, <3>2
  <2>2. ASSUME NEW U \in A \cup B PROVE U \in SUBSET (1 .. n + 1)
    BY <1>4
  <2> QED BY <2>1, <2>2
<1>8. A \cap B = {}
  BY <1>4
<1> HIDE DEF A, B
<1>9. Cardinality(A \cup B) = 2 ^ n + 2 ^ n - 0
  BY <1>3, <1>6, <1>8, FS_Union, FS_EmptySet
<1>10. Cardinality(SUBSET (1 .. n + 1)) = 2 ^ (n + 1)
  BY <1>2, <1>4
<1>11. \A x \in Nat : x + x - 0 = 2 * x
  OBVIOUS
<1>12. 2 ^ (n + 1) = 2 ^ n + 2 ^ n - 0
  BY <1>7, <1>9, <1>10, Zenon
<1> QED BY <1>3, <1>11, <1>12, Zenon

\* More elements have as many subsets or more, and more subsets than elements.
LEMMA PowerGrows ==
  ASSUME NEW m \in Nat, NEW n \in Nat, m <= n
  PROVE  2 ^ m <= 2 ^ n
<1>1. \A k \in Nat : IsFiniteSet(1 .. k) /\ Cardinality(1 .. k) = k
  <2> SUFFICES ASSUME NEW k \in Nat PROVE IsFiniteSet(1 .. k) /\ Cardinality(1 .. k) = k
    OBVIOUS
  <2>1. IsFiniteSet(1 .. k) /\ Cardinality(1 .. k) = IF 1 > k THEN 0 ELSE k - 1 + 1
    BY FS_Interval
  <2> QED BY <2>1
<1>2. \A k \in Nat : IsFiniteSet(SUBSET (1 .. k)) /\ Cardinality(SUBSET (1 .. k)) = 2 ^ k
  BY <1>1, FS_SUBSET
<1>3. SUBSET (1 .. m) \in SUBSET (SUBSET (1 .. n))
  OBVIOUS
<1>4. Cardinality(SUBSET (1 .. m)) <= Cardinality(SUBSET (1 .. n))
  BY <1>2, <1>3, FS_Subset
<1> QED BY <1>2, <1>4

-----------------------------------------------------------------------------
(* Sequences, whatever their elements                                        *)

\* A sequence is its elements at its positions.
OfLength(s, n) == n \in Nat /\ s = [j \in 1 .. n |-> s[j]]

\* q is s, of length m, and then r, of length n.
Joins(q, s, m, r, n) ==
  /\ Len(s) = m /\ DOMAIN s = 1 .. m
  /\ OfLength(q, m + n) /\ Len(q) = m + n /\ DOMAIN q = 1 .. m + n
  /\ \A j \in 1 .. m : q[j] = s[j]
  /\ \A j \in 1 .. n : q[m + j] = r[j]

\* Joined sequences have the elements of both, one after the other.
LEMMA Joined ==
  ASSUME NEW s, NEW m, OfLength(s, m), NEW r, NEW n, OfLength(r, n)
  PROVE  Joins(s \o r, s, m, r, n)
<1> DEFINE F == {s[j] : j \in 1 .. m} \cup {r[j] : j \in 1 .. n}
<1>1. m \in Nat /\ n \in Nat /\ s \in [1 .. m -> F] /\ r \in [1 .. n -> F]
  BY DEF OfLength
<1> HIDE DEF F
<1>2. s \in Seq(F) /\ Len(s) = m /\ r \in Seq(F) /\ Len(r) = n
  BY <1>1
<1>3. /\ s \o r \in Seq(F) /\ Len(s \o r) = m + n
      /\ \A j \in 1 .. m + n : (s \o r)[j] = IF j <= m THEN s[j] ELSE r[j - m]
  BY <1>2, ConcatProperties
<1>4. s \o r \in [1 .. m + n -> F] /\ DOMAIN s = 1 .. m
  BY <1>1, <1>3, LenProperties
<1>5. OfLength(s \o r, m + n)
  BY <1>1, <1>4 DEF OfLength
<1>6. \A j \in 1 .. m : j \in 1 .. m + n /\ j <= m
  BY <1>1
<1>7. \A j \in 1 .. n : m + j \in 1 .. m + n /\ ~(m + j <= m) /\ (m + j) - m = j
  BY <1>1
<1> QED BY <1>2, <1>3, <1>4, <1>5, <1>6, <1>7 DEF Joins

\* Appending adds one element, after the others.
LEMMA Appended ==
  ASSUME NEW s, NEW n, OfLength(s, n), NEW x
  PROVE  /\ OfLength(Append(s, x), n + 1) /\ Len(Append(s, x)) = n + 1 /\ Append(s, x)[n + 1] = x
         /\ DOMAIN Append(s, x) = 1 .. n + 1 /\ DOMAIN s = 1 .. n
         /\ \A j \in 1 .. n : Append(s, x)[j] = s[j]
<1> DEFINE r == <<x>>
           F == {s[j] : j \in 1 .. n} \cup {x}
<1>1. OfLength(r, 1) /\ r[1] = x /\ n \in Nat /\ 1 \in 1 .. 1
  BY DEF OfLength
<1>2. x \in F /\ s \in [1 .. n -> F]
  BY DEF OfLength
<1> HIDE DEF F
<1>3. s \in Seq(F)
  BY <1>1, <1>2
<1>4. Append(s, x) = s \o r
  BY <1>2, <1>3, AppendIsConcat
<1> HIDE DEF r
<1>5. Joins(Append(s, x), s, n, r, 1)
  BY <1>1, <1>4, Joined
<1> QED BY <1>1, <1>5 DEF Joins

\* A sequence has one length, and its positions are those up to it.
LEMMA LengthOf ==
  ASSUME NEW s, NEW n, OfLength(s, n)
  PROVE  n \in Nat /\ Len(s) = n /\ DOMAIN s = 1 .. n
<1>1. OfLength(<<>>, 0)
  BY DEF OfLength
<1>2. Joins(s \o <<>>, s, n, <<>>, 0)
  BY <1>1, Joined
<1> QED BY <1>2 DEF Joins, OfLength

\* The elements of short tuples.
LEMMA TupleHas ==
  ASSUME NEW x, NEW y, NEW z
  PROVE  /\ DOMAIN <<x>> = {1} /\ Len(<<x>>) = 1 /\ <<x>>[1] = x
         /\ DOMAIN <<x, y>> = {1, 2} /\ Len(<<x, y>>) = 2 /\ <<x, y>>[1] = x /\ <<x, y>>[2] = y
         /\ DOMAIN <<x, y, z>> = {1, 2, 3} /\ Len(<<x, y, z>>) = 3
         /\ <<x, y, z>>[1] = x /\ <<x, y, z>>[2] = y /\ <<x, y, z>>[3] = z
  OBVIOUS

\* Short tuples that are joined with one element or none.
LEMMA TupleJoined ==
  ASSUME NEW x, NEW y, NEW z
  PROVE  /\ <<x>> \o <<y>> = <<x, y>> /\ <<x>> \o <<>> = <<x>>
         /\ <<x, y>> \o <<z>> = <<x, y, z>> /\ <<x, y>> \o <<>> = <<x, y>>
<1>1. <<x>> \o <<>> = <<x>> /\ <<x, y>> \o <<>> = <<x, y>>
  OBVIOUS
<1>2. ASSUME NEW u PROVE OfLength(<<u>>, 1) /\ <<u>>[1] = u
  BY DEF OfLength
<1>3. <<x>> \o <<y>> = <<x, y>>
  <2> DEFINE q == <<x>> \o <<y>>
  <2>1. Joins(q, <<x>>, 1, <<y>>, 1)
    BY <1>2, Joined
  <2> HIDE DEF q
  <2>2. q = [j \in 1 .. 2 |-> q[j]] /\ q[1] = x /\ q[2] = y
    BY <1>2, <2>1 DEF Joins, OfLength
  <2>3. q = <<x, y>>
    BY <2>2
  <2> QED BY <2>3 DEF q
<1>4. <<x, y>> \o <<z>> = <<x, y, z>>
  <2> DEFINE q == <<x, y>> \o <<z>>
  <2>1. OfLength(<<x, y>>, 2)
    BY DEF OfLength
  <2>2. Joins(q, <<x, y>>, 2, <<z>>, 1)
    BY <1>2, <2>1, Joined
  <2> HIDE DEF q
  <2>3. q = [j \in 1 .. 3 |-> q[j]] /\ q[1] = x /\ q[2] = y /\ q[3] = z
    BY <1>2, <2>2 DEF Joins, OfLength
  <2>4. q = <<x, y, z>>
    BY <2>3
  <2> QED BY <2>4 DEF q
<1> QED BY <1>1, <1>3, <1>4
=============================================================================
