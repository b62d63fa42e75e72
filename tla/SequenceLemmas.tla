--------------------------- MODULE SequenceLemmas ---------------------------
(***************************************************************************)
(* The elements of a sequence that is built, read or cut, for the proofs.  *)
(***************************************************************************)
EXTENDS Integers, SequencesExt, Subsequences, FiniteSetTheorems, SequenceTheorems, TLAPS

LEMMA ToSetOfAppend ==
  ASSUME NEW T, NEW s \in Seq(T), NEW e \in T
  PROVE  ToSet(Append(s, e)) = ToSet(s) \cup {e}
  <1>1. \A i \in DOMAIN s : i \in DOMAIN Append(s, e) /\ Append(s, e)[i] = s[i] OBVIOUS
  <1>2. Len(s) + 1 \in DOMAIN Append(s, e) /\ Append(s, e)[Len(s) + 1] = e OBVIOUS
  <1>3. \A i \in DOMAIN Append(s, e) : i \in DOMAIN s \/ i = Len(s) + 1 OBVIOUS
  <1>4. QED BY <1>1, <1>2, <1>3 DEF ToSet

LEMMA ToSetOfConcat ==
  ASSUME NEW T, NEW s \in Seq(T), NEW t \in Seq(T)
  PROVE  ToSet(s \o t) = ToSet(s) \cup ToSet(t)
  <1>1. \A i \in DOMAIN s : i \in DOMAIN (s \o t) /\ (s \o t)[i] = s[i] OBVIOUS
  <1>2. \A i \in DOMAIN t : Len(s) + i \in DOMAIN (s \o t) /\ (s \o t)[Len(s) + i] = t[i] OBVIOUS
  <1>3. \A i \in DOMAIN (s \o t) :
          i \in DOMAIN s \/ (i - Len(s) \in DOMAIN t /\ i = Len(s) + (i - Len(s)))
    OBVIOUS
  <1>4. ToSet(s) \cup ToSet(t) \subseteq ToSet(s \o t)
    BY <1>1, <1>2 DEF ToSet
  <1>5. ToSet(s \o t) \subseteq ToSet(s) \cup ToSet(t)
    <2>1. SUFFICES ASSUME NEW i \in DOMAIN (s \o t) PROVE (s \o t)[i] \in ToSet(s) \cup ToSet(t)
      BY DEF ToSet
    <2>2. CASE i \in DOMAIN s BY <2>2, <1>1 DEF ToSet
    <2>3. CASE i \notin DOMAIN s BY <2>3, <1>3, <1>2 DEF ToSet
    <2>4. QED BY <2>2, <2>3
  <1>6. QED BY <1>4, <1>5

LEMMA ToSetOfSubSeq ==
  ASSUME NEW T, NEW s \in Seq(T), NEW m \in 1..Len(s) + 1, NEW n \in 0..Len(s)
  PROVE  SubSeq(s, m, n) \in Seq(T) /\ ToSet(SubSeq(s, m, n)) \subseteq ToSet(s)
  <1>1. \A i \in m..n : i \in DOMAIN s /\ s[i] \in T OBVIOUS
  <1>2. SubSeq(s, m, n) \in Seq(T) BY <1>1
  <1>3. \A i \in DOMAIN SubSeq(s, m, n) : m + i - 1 \in DOMAIN s /\ SubSeq(s, m, n)[i] = s[m + i - 1]
    OBVIOUS
  <1>4. QED BY <1>2, <1>3 DEF ToSet

LEMMA ToSetOfTail ==
  ASSUME NEW T, NEW s \in Seq(T), s # <<>>
  PROVE  /\ Tail(s) \in Seq(T) /\ ToSet(Tail(s)) \subseteq ToSet(s)
         /\ Head(s) \in T /\ Head(s) \in ToSet(s)
  <1>1. \A i \in DOMAIN Tail(s) : i + 1 \in DOMAIN s /\ Tail(s)[i] = s[i + 1] OBVIOUS
  <1>2. 1 \in DOMAIN s /\ Head(s) = s[1] OBVIOUS
  <1>3. QED BY <1>1, <1>2 DEF ToSet

LEMMA ToSetOfEmpty == ToSet(<<>>) = {}
  BY DEF ToSet

LEMMA ToSetOfOne == ASSUME NEW e PROVE ToSet(<<e>>) = {e}
  BY DEF ToSet

(* Where the elements of a sequence come from.                             *)
LEMMA TailAt ==
  ASSUME NEW S, NEW s \in Seq(S), s # <<>>
  PROVE  \A i \in DOMAIN Tail(s) : i + 1 \in DOMAIN s /\ Tail(s)[i] = s[i + 1] /\ i \in Nat
  BY HeadTailProperties, LenProperties, EmptySeq

LEMMA AppendAt ==
  ASSUME NEW S, NEW s \in Seq(S), NEW e \in S
  PROVE  \A i \in DOMAIN Append(s, e) :
            \/ i \in DOMAIN s /\ Append(s, e)[i] = s[i]
            \/ i = Len(s) + 1 /\ Append(s, e)[i] = e
  BY AppendProperties, LenProperties

LEMMA ConcatAt ==
  ASSUME NEW S, NEW s \in Seq(S), NEW t \in Seq(S)
  PROVE  \A i \in DOMAIN (s \o t) :
            \/ i \in DOMAIN s /\ (s \o t)[i] = s[i]
            \/ i - Len(s) \in DOMAIN t /\ (s \o t)[i] = t[i - Len(s)]
  BY ConcatProperties, LenProperties

(* Concatenating one element, or a last one after others, appends it.      *)
LEMMA AppendAfterConcat ==
  ASSUME NEW S, NEW s \in Seq(S), NEW t \in Seq(S), NEW e \in S
  PROVE  /\ s \o <<e>> = Append(s, e)
         /\ s \o (t \o <<e>>) = Append(s \o t, e)
  OBVIOUS

-----------------------------------------------------------------------------
(* A set of numbers has a smallest one ...                                 *)
LEMMA SmallestElement ==
  ASSUME NEW S \in SUBSET Nat, S # {} PROVE \E i \in S : \A j \in S : i <= j
<1> DEFINE R == OpToRel(<, Nat)
<1>1. IsWellFoundedOn(R, Nat)
  BY NatLessThanWellFounded
<1> HIDE DEF R
<1>2. PICK least \in S : \A y \in S : ~ (<<y, least>> \in R)
  BY <1>1, WFMin
<1>3. \A x, y \in Nat : y < x => <<y, x>> \in R
  BY DEF R, OpToRel
<1>4. ASSUME NEW y \in S PROVE least <= y
  <2>1. least \in Nat /\ y \in Nat
    OBVIOUS
  <2>2. ~(y < least)
    BY <1>2, <1>3, <2>1
  <2>3. QED BY <2>1, <2>2
<1>5. QED BY <1>4

(* ... and a largest one, if it is bounded.                                *)
LEMMA LargestElement ==
  ASSUME NEW n \in Nat, NEW S \in SUBSET (0..n), S # {} PROVE \E i \in S : \A j \in S : j <= i
<1> DEFINE T == {k \in Nat : n - k \in S}
<1>1. \A i \in S : i \in 0..n /\ n - i \in Nat /\ n - (n - i) = i
  OBVIOUS
<1>2. T # {}
  BY <1>1
<1>3. PICK least \in T : \A k \in T : least <= k
  BY <1>2, SmallestElement
<1>4. n - least \in S /\ least \in Nat
  BY <1>3
<1>5. ASSUME NEW j \in S PROVE j <= n - least
  <2>1. n - j \in T /\ j \in 0..n /\ least \in Nat
    BY <1>1, <1>4
  <2>2. least <= n - j
    BY <1>3, <2>1
  <2>3. QED BY <2>1, <2>2
<1>6. QED BY <1>4, <1>5

(* Of what there is at most one, counted.                                  *)
LEMMA CountAtMostOne ==
  ASSUME NEW S, \A i, j \in S : i = j
  PROVE  Cardinality(S) = IF S = {} THEN 0 ELSE 1
<1>1. CASE S = {}
  BY <1>1, FS_EmptySet
<1>2. CASE S # {}
  <2>1. PICK i \in S : S = {i}
    BY <1>2
  <2>2. QED BY <2>1, FS_Singleton
<1>3. QED BY <1>1, <1>2

(* How many elements of a sequence are in a set, as it is built and read.  *)
CountIn(q, S) == Cardinality({i \in DOMAIN q : q[i] \in S})

LEMMA CountInSequences ==
  ASSUME NEW T, NEW q \in Seq(T), NEW S
  PROVE  /\ IsFiniteSet({i \in DOMAIN q : q[i] \in S}) /\ CountIn(q, S) \in Nat
         /\ CountIn(<<>>, S) = 0
         /\ (\A i \in DOMAIN q : q[i] \notin S) <=> CountIn(q, S) = 0
<1> DEFINE I == {i \in DOMAIN q : q[i] \in S}
<1>1. DOMAIN q = 1..Len(q) /\ Len(q) \in Nat
  BY LenProperties
<1>2. IsFiniteSet(I)
  <2>1. IsFiniteSet(1..Len(q))
    BY <1>1, FS_Interval
  <2>2. I \subseteq 1..Len(q)
    BY <1>1
  <2>3. QED BY <2>1, <2>2, FS_Subset
<1>3. {i \in DOMAIN <<>> : <<>>[i] \in S} = {}
  OBVIOUS
<1>4. I = {} <=> \A i \in DOMAIN q : q[i] \notin S
  OBVIOUS
<1>5. QED BY <1>2, <1>3, <1>4, FS_CardinalityType, FS_EmptySet DEF CountIn

LEMMA CountInAppend ==
  ASSUME NEW T, NEW q \in Seq(T), NEW e \in T, NEW S
  PROVE  CountIn(Append(q, e), S) = CountIn(q, S) + (IF e \in S THEN 1 ELSE 0)
<1> DEFINE r == Append(q, e)
           I == {i \in DOMAIN q : q[i] \in S}
           J == {i \in DOMAIN r : r[i] \in S}
<1>1. /\ Len(q) \in Nat /\ DOMAIN q = 1..Len(q) /\ DOMAIN r = 1..(Len(q) + 1)
      /\ \A k \in 1..Len(q) : r[k] = q[k]
      /\ r[Len(q) + 1] = e
  BY AppendProperties, LenProperties
<1>0. CountIn(Append(q, e), S) = Cardinality(J) /\ CountIn(q, S) = Cardinality(I)
  BY DEF CountIn
<1> HIDE DEF r
<1>2. IsFiniteSet(I) /\ CountIn(q, S) \in Nat
  BY CountInSequences
<1>3. CASE e \in S
  <2>1. J = I \cup {Len(q) + 1} /\ Len(q) + 1 \notin I
    BY <1>1, <1>3
  <2>2. Cardinality(I \cup {Len(q) + 1}) = Cardinality(I) + 1
    BY <1>2, <2>1, FS_AddElement
  <2>3. QED BY ONLY <1>0, <1>3, <2>1, <2>2
<1>4. CASE e \notin S
  <2>1. J = I
    BY <1>1, <1>4
  <2>2. Cardinality(J) = Cardinality(I)
    BY <2>1
  <2>3. QED BY ONLY <1>0, <1>2, <1>4, <2>2
<1>5. QED BY <1>3, <1>4

LEMMA CountInConcat ==
  ASSUME NEW T, NEW q \in Seq(T), NEW r \in Seq(T), NEW S
  PROVE  CountIn(q \o r, S) = CountIn(q, S) + CountIn(r, S)
<1> DEFINE c == q \o r
           I == {i \in DOMAIN q : q[i] \in S}
           J == {i \in DOMAIN r : r[i] \in S}
           C == {i \in DOMAIN c : c[i] \in S}
           K == C \ I
           f == [i \in J |-> Len(q) + i]
<1>0. CountIn(q \o r, S) = Cardinality(C) /\ CountIn(q, S) = Cardinality(I) /\ CountIn(r, S) = Cardinality(J)
  BY DEF CountIn
<1>1. /\ Len(q) \in Nat /\ Len(r) \in Nat
      /\ DOMAIN q = 1..Len(q) /\ DOMAIN r = 1..Len(r) /\ DOMAIN c = 1..(Len(q) + Len(r))
      /\ \A k \in 1..Len(q) : c[k] = q[k]
      /\ \A k \in (Len(q) + 1)..(Len(q) + Len(r)) : c[k] = r[k - Len(q)] /\ k - Len(q) \in 1..Len(r)
      /\ \A k \in 1..Len(r) : c[Len(q) + k] = r[k] /\ Len(q) + k \in (Len(q) + 1)..(Len(q) + Len(r))
  BY ConcatProperties, LenProperties
<1> HIDE DEF c
<1>2. IsFiniteSet(I) /\ IsFiniteSet(J) /\ Cardinality(I) \in Nat /\ Cardinality(J) \in Nat
  BY <1>0, CountInSequences
<1>3. I \subseteq C /\ I \cap K = {} /\ C = I \cup K
  BY <1>1
<1>4. \A k \in K : k \in (Len(q) + 1)..(Len(q) + Len(r)) /\ c[k] \in S
  BY <1>1
<1>5. f \in Bijection(J, K)
  <2>1. \A i \in J : i \in 1..Len(r) /\ r[i] \in S
    BY <1>1
  <2>2. \A i \in J : Len(q) + i \in K
    BY <1>1, <2>1
  <2>3. f \in [J -> K]
    BY <2>2
  <2>4. \A i, j \in J : f[i] = f[j] => i = j
    BY <1>1, <2>1
  <2>5. ASSUME NEW k \in K PROVE \E i \in J : f[i] = k
    <3>1. k - Len(q) \in J /\ Len(q) + (k - Len(q)) = k
      BY <1>1, <1>4
    <3>2. f[k - Len(q)] = k
      BY <3>1
    <3>3. QED BY <3>1, <3>2
  <2>6. QED BY <2>3, <2>4, <2>5 DEF Bijection, Injection, Surjection, IsInjective
<1>6. IsFiniteSet(K) /\ Cardinality(K) = Cardinality(J)
  BY <1>2, <1>5, FS_Bijection DEF ExistsBijection
<1>7. Cardinality(I \cup K) = Cardinality(I) + Cardinality(K)
  <2>1. Cardinality(I \cup K) = Cardinality(I) + Cardinality(K) - Cardinality(I \cap K)
    BY <1>2, <1>6, FS_Union
  <2>2. Cardinality(I \cap K) = 0
    BY <1>3, FS_EmptySet
  <2>3. QED BY ONLY <1>2, <1>6, <2>1, <2>2
<1>8. Cardinality(C) = Cardinality(I \cup K)
  BY <1>3
<1>9. QED BY ONLY <1>0, <1>6, <1>7, <1>8

LEMMA CountInTail ==
  ASSUME NEW T, NEW q \in Seq(T), q # <<>>, NEW S
  PROVE  CountIn(q, S) = CountIn(Tail(q), S) + (IF Head(q) \in S THEN 1 ELSE 0)
<1> DEFINE t == Tail(q)
           I == {i \in DOMAIN t : t[i] \in S}
           J == {j \in DOMAIN q : q[j] \in S}
           K == J \ {1}
           f == [i \in I |-> i + 1]
<1>1. /\ t \in Seq(T) /\ Len(q) \in Nat /\ Len(q) >= 1 /\ Len(t) = Len(q) - 1
      /\ DOMAIN q = 1..Len(q) /\ DOMAIN t = 1..(Len(q) - 1)
      /\ \A k \in 1..(Len(q) - 1) : t[k] = q[k + 1]
      /\ Head(q) = q[1]
  BY HeadTailProperties, LenProperties, EmptySeq
<1>0. CountIn(q, S) = Cardinality(J) /\ CountIn(Tail(q), S) = Cardinality(I)
  BY DEF CountIn
<1>2. IsFiniteSet(I) /\ CountIn(t, S) \in Nat
  BY <1>1, CountInSequences
<1> HIDE DEF t
<1>3. f \in Bijection(I, K)
  <2>1. \A i \in I : i \in 1..(Len(q) - 1) /\ i + 1 \in 2..Len(q) /\ q[i + 1] \in S
    BY <1>1
  <2>2. f \in [I -> K]
    BY <1>1, <2>1
  <2>3. \A i, j \in I : f[i] = f[j] => i = j
    BY <2>1
  <2>4. ASSUME NEW j \in K PROVE \E i \in I : f[i] = j
    <3>1. j \in 2..Len(q) /\ q[j] \in S
      BY <1>1
    <3>2. j - 1 \in 1..(Len(q) - 1) /\ t[j - 1] = q[j] /\ (j - 1) + 1 = j
      BY <1>1, <3>1
    <3>3. j - 1 \in I /\ f[j - 1] = j
      BY <1>1, <3>1, <3>2
    <3>4. QED BY <3>3
  <2>5. QED BY <2>2, <2>3, <2>4 DEF Bijection, Injection, Surjection, IsInjective
<1>4. IsFiniteSet(K) /\ Cardinality(K) = Cardinality(I)
  BY <1>2, <1>3, FS_Bijection DEF ExistsBijection
<1>8. Cardinality(I) \in Nat
  BY <1>0, <1>2 DEF t
<1>5. CASE Head(q) \in S
  <2>1. J = K \cup {1} /\ 1 \notin K
    BY <1>1, <1>5
  <2>2. Cardinality(K \cup {1}) = Cardinality(K) + 1
    BY <1>4, <2>1, FS_AddElement
  <2>3. QED BY ONLY <1>0, <1>5, <1>4, <2>1, <2>2
<1>6. CASE Head(q) \notin S
  <2>1. J = K
    BY <1>1, <1>6
  <2>2. Cardinality(J) = Cardinality(K)
    BY <2>1
  <2>3. QED BY ONLY <1>0, <1>4, <1>6, <1>8, <2>2
<1>7. QED BY <1>5, <1>6

(* A position's rank among some positions tells them apart and grows with  *)
(* them ...                                                                *)
LEMMA RankProperties ==
  ASSUME NEW I, IsFiniteSet(I), I \subseteq Nat
  PROVE  /\ \A i \in I : Rank(i, I) \in 1..Cardinality(I)
         /\ \A i, j \in I : i < j => Rank(i, I) < Rank(j, I)
<1>1. Cardinality(I) \in Nat
  BY FS_CardinalityType
<1>2. ASSUME NEW i \in I PROVE Rank(i, I) \in 1..Cardinality(I)
  <2> DEFINE U == {k \in I : k <= i}
  <2>1. IsFiniteSet(U) /\ Cardinality(U) <= Cardinality(I)
    BY FS_Subset
  <2>2. Cardinality(U) \in Nat /\ Cardinality(U) # 0
    BY <2>1, FS_CardinalityType, FS_EmptySet
  <2>3. QED BY <1>1, <2>1, <2>2 DEF Rank
<1>3. ASSUME NEW i \in I, NEW j \in I, i < j PROVE Rank(i, I) < Rank(j, I)
  <2> DEFINE U == {k \in I : k <= i}
             V == {k \in I : k <= j}
  <2>0. i \in Nat /\ j \in Nat /\ \A k \in I : k \in Nat
    OBVIOUS
  <2>1. U \subseteq V /\ j \in V /\ j \notin U
    <3>1. \A k \in I : k <= i => k <= j
      BY <1>3, <2>0
    <3>2. j <= j /\ ~(j <= i)
      BY <1>3, <2>0
    <3>3. QED BY <3>1, <3>2
  <2>2. IsFiniteSet(V)
    BY FS_Subset
  <2>3. Cardinality(U) <= Cardinality(V) /\ Cardinality(U) # Cardinality(V) /\ IsFiniteSet(U)
    BY <2>1, <2>2, FS_Subset
  <2>4. Cardinality(U) \in Nat /\ Cardinality(V) \in Nat
    BY <2>2, <2>3, FS_CardinalityType
  <2>5. QED BY <2>3, <2>4 DEF Rank
<1>4. QED BY <1>2, <1>3

(* ... so Keep has each of the elements once, and in order.                *)
LEMMA KeepProperties ==
  ASSUME NEW T, NEW s \in Seq(T), NEW I \in SUBSET DOMAIN s
  PROVE  /\ Cardinality(I) \in Nat
         /\ Keep(s, I) \in Seq(T) /\ Len(Keep(s, I)) = Cardinality(I)
         /\ \E f \in [1..Cardinality(I) -> I] :
              /\ \A j \in 1..Cardinality(I) : Keep(s, I)[j] = s[f[j]]
              /\ \A j, k \in 1..Cardinality(I) : j < k => f[j] < f[k]
              /\ \A i \in I : \E j \in 1..Cardinality(I) : f[j] = i
<1> DEFINE n == Cardinality(I)
           r == [i \in I |-> Rank(i, I)]
           f == [j \in 1..n |-> CHOOSE i \in I : Rank(i, I) = j]
<1>1. IsFiniteSet(I) /\ n \in Nat /\ I \subseteq Nat
  <2>1. Len(s) \in Nat /\ DOMAIN s = 1..Len(s)
    BY LenProperties
  <2>2. IsFiniteSet(1..Len(s))
    BY <2>1, FS_Interval
  <2>3. IsFiniteSet(I)
    BY <2>1, <2>2, FS_Subset
  <2>4. QED BY <2>1, <2>3, FS_CardinalityType
<1>2. /\ \A i \in I : Rank(i, I) \in 1..n
      /\ \A i, j \in I : i < j => Rank(i, I) < Rank(j, I)
  BY <1>1, RankProperties
<1>3. r \in Injection(I, 1..n)
  BY <1>1, <1>2 DEF Injection, IsInjective
<1>4. IsFiniteSet(1..n) /\ Cardinality(1..n) = n
  BY <1>1, FS_Interval
<1>5. r \in Surjection(I, 1..n)
  BY <1>3, <1>4, FS_Injection
<1>6. \A j \in 1..n : \E i \in I : Rank(i, I) = j
  BY <1>5 DEF Surjection
<1>7. \A j \in 1..n : f[j] \in I /\ Rank(f[j], I) = j
  BY <1>6
<1>8. f \in [1..n -> I] /\ \A j \in 1..n : Keep(s, I)[j] = s[f[j]]
  BY <1>7 DEF Keep
<1>9. ASSUME NEW j \in 1..n, NEW k \in 1..n, j < k PROVE f[j] < f[k]
  <2>1. f[j] \in I /\ f[k] \in I /\ f[j] \in Nat /\ f[k] \in Nat
    BY <1>1, <1>7
  <2>2. Rank(f[j], I) < Rank(f[k], I)
    BY <1>7, <1>9
  <2>3. f[k] < f[j] => Rank(f[k], I) < Rank(f[j], I)
    BY <1>2, <2>1
  <2> HIDE DEF f
  <2>4. Rank(f[j], I) \in Nat /\ Rank(f[k], I) \in Nat
    BY <1>1, <1>2, <2>1
  <2>5. QED BY <2>1, <2>2, <2>3, <2>4
<1>10. ASSUME NEW i \in I PROVE f[Rank(i, I)] = i
  <2> DEFINE g == f[Rank(i, I)]
  <2>1. Rank(i, I) \in 1..n /\ g \in I /\ Rank(g, I) = Rank(i, I)
    BY <1>2, <1>7
  <2>2. r[g] = r[i]
    BY <2>1
  <2>3. QED BY <1>3, <2>1, <2>2 DEF Injection, IsInjective
<1> HIDE DEF f
<1>11. Keep(s, I) \in Seq(T) /\ Len(Keep(s, I)) = n
  <2>1. Keep(s, I) \in [1..n -> T]
    <3>1. \A j \in 1..n : f[j] \in DOMAIN s
      BY <1>8
    <3>2. \A j \in 1..n : s[f[j]] \in T
      BY <3>1, ElementOfSeq, LenProperties
    <3>3. DOMAIN Keep(s, I) = 1..n /\ Keep(s, I) = [j \in 1..n |-> Keep(s, I)[j]]
      BY DEF Keep
    <3>4. QED BY <1>8, <3>2, <3>3
  <2>2. QED BY <1>1, <2>1
<1>12. QED BY <1>1, <1>2, <1>8, <1>9, <1>10, <1>11

=============================================================================
