----------------------------- MODULE Enumeration ------------------------------
(***************************************************************************)
(* A finite set of integers, smallest first: what a loop over positions or *)
(* timestamps that keeps some of them leaves behind.  It is defined by     *)
(* counting, and not by sorting, so that it can be reasoned about.         *)
(***************************************************************************)
EXTENDS Integers, Sequences, FiniteSets, FiniteSetTheorems, SequenceTheorems, TLAPS

\* A sequence, over whatever elements it has.
IsTuple(s) == Len(s) \in Nat /\ s = [k \in 1 .. Len(s) |-> s[k]]

\* The place of n among the elements of S.
Rank(S, n) == Cardinality({m \in S : m <= n})

\* The elements of S, each at the place its rank names.
InOrder(S) == [k \in 1 .. Cardinality(S) |-> CHOOSE n \in S : Rank(S, n) = k]

Increasing(s) == \A i, j \in DOMAIN s : i < j => s[i] < s[j]

-----------------------------------------------------------------------------
\* Ranks are between one and the size of the set, and grow with the element.
LEMMA RankGrows ==
  ASSUME NEW S, S \subseteq Int, IsFiniteSet(S)
  PROVE  /\ \A n \in S : Rank(S, n) \in 1 .. Cardinality(S)
         /\ \A m, n \in S : m < n => Rank(S, m) < Rank(S, n)
<1> DEFINE Low(n) == {m \in S : m <= n}
<1>1. ASSUME NEW n \in S
      PROVE  Cardinality(Low(n)) \in 1 .. Cardinality(S)
  <2>1. /\ IsFiniteSet(Low(n)) /\ Cardinality(Low(n)) <= Cardinality(S)
    BY FS_Subset
  <2>2. Cardinality(Low(n)) \in Nat /\ Cardinality(S) \in Nat
    BY <2>1, FS_CardinalityType
  <2>3. n \in Low(n)
    OBVIOUS
  <2>4. Cardinality(Low(n)) # 0
    <3> HIDE DEF Low
    <3> QED BY <2>1, <2>3, FS_EmptySet
  <2> QED BY <2>1, <2>2, <2>4
<1>2. ASSUME NEW m \in S, NEW n \in S, m < n
      PROVE  Cardinality(Low(m)) < Cardinality(Low(n))
  <2>1. IsFiniteSet(Low(n)) BY FS_Subset
  <2>2. Low(m) \in SUBSET Low(n) /\ n \in Low(n) /\ n \notin Low(m)
    <3>1. \A x \in S : (x <= m => x <= n) /\ x <= x
      BY <1>2
    <3>2. ~(n <= m)
      BY <1>2
    <3> QED BY <3>1, <3>2
  <2>3. /\ IsFiniteSet(Low(m)) /\ Cardinality(Low(m)) <= Cardinality(Low(n))
        /\ Cardinality(Low(m)) # Cardinality(Low(n))
    <3> HIDE DEF Low
    <3> QED BY <2>1, <2>2, FS_Subset
  <2>4. Cardinality(Low(m)) \in Nat /\ Cardinality(Low(n)) \in Nat
    BY <2>1, <2>3, FS_CardinalityType
  <2> QED BY <2>3, <2>4
<1> QED BY <1>1, <1>2 DEF Rank

\* No two elements have the same rank.
LEMMA RankIsOneToOne ==
  ASSUME NEW S, S \subseteq Int, IsFiniteSet(S), NEW a \in S, NEW b \in S, Rank(S, a) = Rank(S, b)
  PROVE  a = b
<1>1. a \in Int /\ b \in Int
  OBVIOUS
<1>2. Rank(S, a) \in 1 .. Cardinality(S) /\ Cardinality(S) \in Nat
  BY RankGrows, FS_CardinalityType
<1>3. ~(a < b) /\ ~(b < a)
  <2>1. ~(Rank(S, a) < Rank(S, a)) BY <1>2
  <2> QED BY <2>1, RankGrows
<1> QED BY <1>1, <1>3

\* Every rank up to the size of the set is taken: an injection between sets
\* of the same size is onto.
LEMMA RanksAreTaken ==
  ASSUME NEW S, S \subseteq Int, IsFiniteSet(S), NEW k \in 1 .. Cardinality(S)
  PROVE  \E n \in S : Rank(S, n) = k
<1> DEFINE N == Cardinality(S)
           f == [n \in S |-> Rank(S, n)]
<1>1. N \in Nat BY FS_CardinalityType
<1>2. f \in [S -> 1 .. N] BY RankGrows
<1>3. \A a, b \in S : f[a] = f[b] => a = b
  BY RankIsOneToOne
<1>4. f \in Injection(S, 1 .. N)
  <2> HIDE DEF f
  <2> QED BY <1>2, <1>3 DEF Injection, IsInjective
<1>5. IsFiniteSet(1 .. N) /\ Cardinality(1 .. N) = N
  BY <1>1, FS_Interval
<1>6. f \in Surjection(S, 1 .. N)
  <2> HIDE DEF f
  <2> QED BY <1>4, <1>5, FS_Injection
<1>7. \A t \in 1 .. N : \E s \in S : f[s] = t
  <2> HIDE DEF f
  <2> QED BY <1>6 DEF Surjection
<1> QED BY <1>7

\* The enumeration of a finite set has each of its elements once, in order.
THEOREM InOrderEnumerates ==
  ASSUME NEW S, S \subseteq Int, IsFiniteSet(S)
  PROVE  /\ Cardinality(S) \in Nat
         /\ InOrder(S) \in [1 .. Cardinality(S) -> S]
         /\ {InOrder(S)[k] : k \in DOMAIN InOrder(S)} = S
         /\ Increasing(InOrder(S))
<1>0. Cardinality(S) \in Nat BY FS_CardinalityType
<1>1. ASSUME NEW k \in 1 .. Cardinality(S)
      PROVE  InOrder(S)[k] \in S /\ Rank(S, InOrder(S)[k]) = k
  BY RanksAreTaken DEF InOrder
<1>2. DOMAIN InOrder(S) = 1 .. Cardinality(S)
  BY DEF InOrder
<1>3. InOrder(S) \in [1 .. Cardinality(S) -> S]
  BY <1>1 DEF InOrder
<1>4. ASSUME NEW n \in S PROVE \E k \in DOMAIN InOrder(S) : InOrder(S)[k] = n
  <2> DEFINE k == Rank(S, n)
  <2>1. k \in 1 .. Cardinality(S) BY RankGrows
  <2>2. InOrder(S)[k] \in S /\ Rank(S, InOrder(S)[k]) = Rank(S, n) BY <2>1, <1>1
  <2>3. InOrder(S)[k] = n BY <2>2, RankIsOneToOne
  <2> QED BY <2>1, <2>3, <1>2
<1>5. ASSUME NEW i \in DOMAIN InOrder(S), NEW j \in DOMAIN InOrder(S), i < j
      PROVE  InOrder(S)[i] < InOrder(S)[j]
  <2>1. /\ InOrder(S)[i] \in S /\ Rank(S, InOrder(S)[i]) = i
        /\ InOrder(S)[j] \in S /\ Rank(S, InOrder(S)[j]) = j
        /\ i \in Int /\ j \in Int
    BY <1>1, <1>2, <1>0
  <2>2. InOrder(S)[i] # InOrder(S)[j] /\ ~(InOrder(S)[j] < InOrder(S)[i])
    <3>1. ~(Rank(S, InOrder(S)[j]) < Rank(S, InOrder(S)[i]))
      BY <2>1, <1>5
    <3>2. \A m, n \in S : m < n => Rank(S, m) < Rank(S, n)
      BY RankGrows
    <3> QED BY <2>1, <1>5, <3>1, <3>2
  <2>3. InOrder(S)[i] \in Int /\ InOrder(S)[j] \in Int
    BY <2>1
  <2> QED BY <2>2, <2>3
<1> QED BY <1>0, <1>1, <1>2, <1>3, <1>4, <1>5 DEF Increasing

\* There is only one such sequence.
THEOREM InOrderIsUnique ==
  ASSUME NEW S, S \subseteq Int, NEW n \in Nat, NEW s \in [1 .. n -> S],
         {s[k] : k \in 1 .. n} = S, Increasing(s)
  PROVE  IsFiniteSet(S) /\ Cardinality(S) = n /\ s = InOrder(S)
<1>0. \A i \in 1 .. n : s[i] \in Int /\ s[i] \in S /\ i \in Int
  <2>1. \A i \in 1 .. n : s[i] \in S
    BY Zenon
  <2>2. \A i \in 1 .. n : s[i] \in Int
    BY <2>1, Zenon
  <2> QED BY <2>1, <2>2
<1>o. \A i, j \in 1 .. n : i < j => s[i] < s[j]
  BY DEF Increasing
<1>1. \A i, j \in 1 .. n : s[i] = s[j] => i = j
  BY <1>0, <1>o
<1>2. ASSUME NEW k \in 0 .. n
      PROVE  LET T == {s[i] : i \in 1 .. k} IN IsFiniteSet(T) /\ Cardinality(T) = k
  <2> DEFINE T == {s[i] : i \in 1 .. k}
             f == [i \in 1 .. k |-> s[i]]
  <2>1. f \in [1 .. k -> T] /\ (\A a, b \in 1 .. k : f[a] = f[b] => a = b)
        /\ (\A t \in T : \E a \in 1 .. k : f[a] = t)
    BY <1>1
  <2>2. f \in Bijection(1 .. k, T)
    <3> HIDE DEF f, T
    <3> QED BY <2>1 DEF Bijection, Injection, Surjection, IsInjective
  <2>3. ExistsBijection(1 .. k, T) BY <2>2 DEF ExistsBijection
  <2>4. k \in Nat OBVIOUS
  <2>5. IsFiniteSet(T) /\ Cardinality(T) = k
    <3> HIDE DEF T
    <3> QED BY <2>3, <2>4, FS_CountingElements, FS_NatBijection
  <2> QED BY <2>5
<1>3. IsFiniteSet(S) /\ Cardinality(S) = n
  <2>1. n \in 0 .. n
    OBVIOUS
  <2> QED BY <1>2, <2>1
<1>4. ASSUME NEW k \in 1 .. n PROVE s[k] = InOrder(S)[k]
  <2>1. {m \in S : m <= s[k]} = {s[i] : i \in 1 .. k}
    <3>1. ASSUME NEW i \in 1 .. n PROVE s[i] <= s[k] <=> i <= k
      BY <1>0, <1>o
    <3>2. 1 .. k = {i \in 1 .. n : i <= k}
      OBVIOUS
    <3> QED BY <3>1, <3>2
  <2>2. Rank(S, s[k]) = k
    <3>1. k \in 0 .. n
      OBVIOUS
    <3> QED BY <3>1, <2>1, <1>2 DEF Rank
  <2>3. InOrder(S)[k] \in S /\ Rank(S, InOrder(S)[k]) = k
    BY <1>3, RanksAreTaken DEF InOrder
  <2>4. s[k] \in S OBVIOUS
  <2> QED BY <2>2, <2>3, <2>4, <1>3, RankIsOneToOne
<1> QED BY <1>3, <1>4 DEF InOrder

\* A set of integers that is finite and not empty has a greatest element.
THEOREM Greatest ==
  ASSUME NEW S, S \subseteq Int, IsFiniteSet(S), S # {}
  PROVE  \E g \in S : \A n \in S : n <= g
<1> DEFINE s == InOrder(S)
           c == Cardinality(S)
<1>1. c \in Nat /\ s \in [1 .. c -> S] /\ {s[k] : k \in DOMAIN s} = S /\ Increasing(s)
  BY InOrderEnumerates
<1>2. c # 0
  BY FS_EmptySet
<1>3. c \in 1 .. c /\ s[c] \in S
  BY <1>1, <1>2
<1> HIDE DEF s, c
<1>4. ASSUME NEW n \in S PROVE n <= s[c]
  <2>1. PICK k \in 1 .. c : n = s[k]
    BY <1>1
  <2>2. k < c => s[k] < s[c]
    BY <1>1, <1>3, <2>1 DEF Increasing
  <2>3. k < c \/ k = c
    BY <1>1, <2>1
  <2>4. s[k] \in Int /\ s[c] \in Int
    BY <1>1, <1>3
  <2> QED BY <2>1, <2>2, <2>3, <2>4
<1> QED BY <1>3, <1>4

-----------------------------------------------------------------------------
\* Tuples, whatever their elements are.

(* A tuple is a sequence over its own elements.                             *)
LEMMA TupleIsSeq ==
  ASSUME NEW s, IsTuple(s)
  PROVE  s \in Seq({s[k] : k \in DOMAIN s}) /\ DOMAIN s = 1 .. Len(s)
<1>1. DOMAIN s = 1 .. Len(s)
  BY DEF IsTuple
<1> DEFINE T == {s[k] : k \in DOMAIN s}
<1>2. \A k \in 1 .. Len(s) : s[k] \in T
  BY <1>1
<1> HIDE DEF T
<1>3. s \in Seq(T)
  BY <1>2 DEF IsTuple
<1> QED BY <1>1, <1>3 DEF T

(* A sequence is a tuple.                                                   *)
LEMMA SeqIsTuple ==
  ASSUME NEW T, NEW s \in Seq(T)
  PROVE  IsTuple(s)
BY DEF IsTuple

(* Appending keeps every element and adds the last one.                     *)
LEMMA AppendTuple ==
  ASSUME NEW s, IsTuple(s), NEW e
  PROVE  /\ IsTuple(Append(s, e)) /\ Len(Append(s, e)) = Len(s) + 1
         /\ DOMAIN Append(s, e) = 1 .. Len(s) + 1
         /\ Append(s, e)[Len(s) + 1] = e
         /\ \A k \in 1 .. Len(s) : Append(s, e)[k] = s[k]
<1> DEFINE T == {s[k] : k \in DOMAIN s} \union {e}
<1>1. s \in Seq(T) /\ e \in T
  <2>1. DOMAIN s = 1 .. Len(s) /\ Len(s) \in Nat
    BY DEF IsTuple
  <2>2. \A k \in 1 .. Len(s) : s[k] \in T
    BY <2>1
  <2> HIDE DEF T
  <2>3. s \in Seq(T)
    BY <2>2 DEF IsTuple
  <2> QED BY <2>3 DEF T
<1> HIDE DEF T
<1>2. Append(s, e) \in Seq(T)
  BY <1>1, AppendProperties
<1>3. IsTuple(Append(s, e))
  BY <1>2, SeqIsTuple
<1>4. /\ Len(Append(s, e)) = Len(s) + 1 /\ Append(s, e)[Len(s) + 1] = e
      /\ \A k \in 1 .. Len(s) : Append(s, e)[k] = s[k]
  BY <1>1, AppendProperties
<1> QED BY <1>3, <1>4, TupleIsSeq

(* Concatenation keeps the elements of both, in their places.               *)
LEMMA ConcatTuple ==
  ASSUME NEW s, IsTuple(s), NEW t, IsTuple(t)
  PROVE  /\ IsTuple(s \o t) /\ Len(s \o t) = Len(s) + Len(t)
         /\ DOMAIN (s \o t) = 1 .. Len(s) + Len(t)
         /\ \A k \in 1 .. Len(s) : (s \o t)[k] = s[k]
         /\ \A k \in 1 .. Len(t) : (s \o t)[Len(s) + k] = t[k]
<1> DEFINE T == {s[k] : k \in DOMAIN s} \union {t[k] : k \in DOMAIN t}
<1>1. s \in Seq(T) /\ t \in Seq(T) /\ Len(s) \in Nat /\ Len(t) \in Nat
  <2>1. /\ DOMAIN s = 1 .. Len(s) /\ Len(s) \in Nat
        /\ DOMAIN t = 1 .. Len(t) /\ Len(t) \in Nat
    BY DEF IsTuple
  <2>2. /\ \A k \in 1 .. Len(s) : s[k] \in T
        /\ \A k \in 1 .. Len(t) : t[k] \in T
    BY <2>1
  <2> HIDE DEF T
  <2>3. s \in Seq(T)
    BY <2>2 DEF IsTuple
  <2>4. t \in Seq(T)
    BY <2>2 DEF IsTuple
  <2> QED BY <2>1, <2>3, <2>4
<1> HIDE DEF T
<1>2. /\ s \o t \in Seq(T) /\ Len(s \o t) = Len(s) + Len(t)
      /\ \A i \in 1 .. Len(s) + Len(t) : (s \o t)[i] = IF i <= Len(s) THEN s[i] ELSE t[i - Len(s)]
  BY <1>1, ConcatProperties
<1>3. IsTuple(s \o t)
  BY <1>2, SeqIsTuple
<1>4. \A k \in 1 .. Len(s) : (s \o t)[k] = s[k]
  BY <1>1, <1>2
<1>5. ASSUME NEW k \in 1 .. Len(t) PROVE (s \o t)[Len(s) + k] = t[k]
  <2>1. Len(s) + k \in 1 .. Len(s) + Len(t) /\ ~(Len(s) + k <= Len(s)) /\ (Len(s) + k) - Len(s) = k
    BY <1>1
  <2> QED BY <2>1, <1>2
<1> QED BY <1>2, <1>3, <1>4, <1>5, TupleIsSeq
=============================================================================
