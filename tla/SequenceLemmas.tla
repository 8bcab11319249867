--------------------------- MODULE SequenceLemmas ---------------------------
(***************************************************************************)
(* Induction over numbers, and facts about parts of sequences, for the     *)
(* proofs about text.                                                      *)
(***************************************************************************)
EXTENDS Integers, Sequences, TLAPS, FiniteSetTheorems, SequenceTheorems

-----------------------------------------------------------------------------
(***************************************************************************)
(* Induction without an operator parameter.                                *)
(***************************************************************************)

\* A set of numbers that holds 0 and every successor of its members is Nat: if n
\* were missing, adding 1 would map its members below n into one member less.
LEMMA NatSet ==
  ASSUME NEW S \in SUBSET Nat, 0 \in S, \A n \in S : n + 1 \in S
  PROVE  S = Nat
<1> SUFFICES ASSUME NEW n \in Nat, n \notin S PROVE FALSE
  OBVIOUS
<1> DEFINE T == S \cap (0..n)
           shift == [k \in T |-> k + 1]
<1>1. IsFiniteSet(T) /\ Cardinality(T) \in Nat
  <2>1. IsFiniteSet(0..n)
    BY FS_Interval
  <2>2. IsFiniteSet(T)
    BY <2>1, FS_Subset
  <2> QED
    BY <2>2, FS_CardinalityType
<1>2. 0 \in T
  OBVIOUS
<1>3. IsFiniteSet(T \ {0}) /\ Cardinality(T \ {0}) = Cardinality(T) - 1
  BY <1>1, <1>2, FS_RemoveElement
<1>4. shift \in Injection(T, T \ {0})
  BY DEF Injection, IsInjective
<1>5. Cardinality(T) <= Cardinality(T \ {0})
  BY <1>3, <1>4, FS_Injection
<1> QED
  BY <1>1, <1>3, <1>5

\* Induction from n down to m.
LEMMA Downwards ==
  ASSUME NEW m \in Nat, NEW n \in Nat, NEW S,
         \A k \in m..n : (\A j \in (k + 1)..n : j \in S) => k \in S
  PROVE  \A k \in m..n : k \in S
<1> DEFINE T == {d \in Nat : \A k \in m..n : k + d >= n => k \in S}
<1>1. 0 \in T
  OBVIOUS
<1>2. ASSUME NEW d \in T PROVE d + 1 \in T
  <2> SUFFICES ASSUME NEW k \in m..n, k + (d + 1) >= n PROVE k \in S
    OBVIOUS
  <2>1. \A j \in (k + 1)..n : j \in S
    BY <1>2
  <2> QED
    BY <2>1
<1>3. T = Nat
  BY <1>1, <1>2, NatSet
<1> SUFFICES ASSUME NEW k \in m..n PROVE k \in S
  OBVIOUS
<1>4. n - k \in Nat /\ k + (n - k) >= n
  OBVIOUS
<1>5. n - k \in T
  BY <1>3, <1>4
<1> QED
  BY <1>4, <1>5

\* Induction from 0 up to n.
LEMMA Upwards ==
  ASSUME NEW n \in Nat, NEW S, 0 \in S, \A k \in 1..n : k - 1 \in S => k \in S
  PROVE  \A k \in 0..n : k \in S
<1> DEFINE T == {k \in Nat : k <= n => k \in S}
<1>1. 0 \in T
  OBVIOUS
<1>2. ASSUME NEW k \in T PROVE k + 1 \in T
  <2> SUFFICES ASSUME k + 1 <= n PROVE k + 1 \in S
    OBVIOUS
  <2>1. k \in S /\ k + 1 \in 1..n /\ (k + 1) - 1 = k
    BY <1>2
  <2> QED
    BY <2>1
<1>3. T = Nat
  BY <1>1, <1>2, NatSet
<1> QED
  BY <1>3

-----------------------------------------------------------------------------
(***************************************************************************)
(* Parts of sequences.                                                     *)
(***************************************************************************)

\* A concatenation, part by part.
LEMMA ConcatParts ==
  ASSUME NEW S, NEW s \in Seq(S), NEW t \in Seq(S), NEW u, u = s \o t
  PROVE  /\ Len(s) \in Nat /\ Len(t) \in Nat /\ Len(u) = Len(s) + Len(t) /\ u \in Seq(S)
         /\ Len(s) <= Len(u)
         /\ \A j \in 1..Len(s) : j \in 1..Len(u) /\ u[j] = s[j]
         /\ \A j \in 1..Len(t) : Len(s) + j \in 1..Len(u) /\ u[Len(s) + j] = t[j]
<1> DEFINE m == Len(s)
           n == Len(t)
<1>1. m \in Nat /\ n \in Nat
  BY LenProperties
<1>2. /\ u \in Seq(S) /\ Len(u) = m + n
      /\ \A i \in 1..(m + n) : u[i] = IF i <= m THEN s[i] ELSE t[i - m]
  BY ConcatProperties
<1> HIDE DEF m, n
<1>3. \A j \in 1..m : j \in 1..(m + n) /\ u[j] = s[j]
  BY <1>1, <1>2
<1>4. ASSUME NEW j \in 1..n PROVE m + j \in 1..(m + n) /\ u[m + j] = t[j]
  <2>1. m + j \in 1..(m + n) /\ ~(m + j <= m) /\ (m + j) - m = j
    BY <1>1
  <2> QED
    BY <2>1, <1>2
<1>5. m <= m + n
  BY <1>1
<1> QED
  BY <1>1, <1>2, <1>3, <1>4, <1>5 DEF m, n

\* What SubSeq() cuts out.
LEMMA Slice ==
  ASSUME NEW S, NEW s \in Seq(S), NEW a \in 1..(Len(s) + 1), NEW z \in 0..Len(s), a <= z + 1
  PROVE  /\ SubSeq(s, a, z) \in Seq(S) /\ Len(SubSeq(s, a, z)) = z - a + 1
         /\ \A k \in 1..(z - a + 1) : SubSeq(s, a, z)[k] = s[a + k - 1]
<1>1. Len(s) \in Nat /\ a \in Int /\ z \in Int
  BY LenProperties
<1>2. \A k \in a..z : s[k] \in S
  BY <1>1, ElementOfSeq
<1>3. SubSeq(s, a, z) \in Seq(S)
  BY <1>1, <1>2, SubSeqProperties
<1>4. Len(SubSeq(s, a, z)) = IF a <= z THEN z - a + 1 ELSE 0
  BY <1>1, <1>2, SubSeqProperties
<1>5. \A k \in 1..(z - a + 1) : SubSeq(s, a, z)[k] = s[a + k - 1]
  BY <1>1, <1>2, SubSeqProperties
<1>6. Len(SubSeq(s, a, z)) = z - a + 1
  BY <1>1, <1>4
<1> QED
  BY <1>3, <1>5, <1>6

\* A slice is known by its length and its elements.
LEMMA SliceIs ==
  ASSUME NEW S, NEW s \in Seq(S), NEW u \in Seq(S), NEW a \in 1..(Len(s) + 1), NEW z \in 0..Len(s),
         Len(u) = z - a + 1, \A k \in 1..Len(u) : u[k] = s[a + k - 1]
  PROVE  SubSeq(s, a, z) = u
<1>1. a <= z + 1
  BY LenProperties
<1>2. /\ SubSeq(s, a, z) \in Seq(S) /\ Len(SubSeq(s, a, z)) = z - a + 1
      /\ \A k \in 1..(z - a + 1) : SubSeq(s, a, z)[k] = s[a + k - 1]
  BY <1>1, Slice
<1> QED
  BY <1>2, SeqEqual
=============================================================================
