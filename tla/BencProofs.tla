----------------------------- MODULE BencProofs -----------------------------
(***************************************************************************)
(* What the accessors of benc.c and the tools built on them make of        *)
(* well-formed text, for every such text.                                  *)
(*                                                                         *)
(* A node of a tree that occurs anywhere in a text is found there: the     *)
(* accessors see its type and its length (NodeFound, by induction on the   *)
(* length of its text), and from that its number, its string, its items    *)
(* and the values of its keys.  torrentinfo's agenda is a chain of nodes   *)
(* whose lines, put behind one another, are what is still to be printed    *)
(* (Planned); getpeers looks up keys in a document, and in a reply whose   *)
(* text is that of a legal tree (ReplyLegal).                              *)
(***************************************************************************)
EXTENDS BencTools, SequenceLemmas

-----------------------------------------------------------------------------
(***************************************************************************)
(* Text within text.                                                       *)
(***************************************************************************)

\* The text t stands in s at i.
Occurs(t, s, i) ==
  /\ i \in Nat /\ Len(s) \in Nat /\ Len(t) \in Nat /\ i + Len(t) <= Len(s)
  /\ \A k \in 1..Len(t) : s[i + k] = t[k]

\* Its characters are found there.
LEMMA OccursAt ==
  ASSUME NEW s, NEW t, NEW i, Occurs(t, s, i)
  PROVE  /\ \A k \in 1..Len(t) : At(s, i + k - 1) = t[k]
         /\ \A k \in 0..(Len(t) - 1) : At(s, i + k) = t[k + 1]
<1> DEFINE n == Len(s)
           m == Len(t)
<1>1. i \in Nat /\ n \in Nat /\ m \in Nat /\ i + m <= n /\ \A k \in 1..m : s[i + k] = t[k]
  BY DEF Occurs
<1> HIDE DEF n, m
<1>2. \A k \in 1..m : i + k - 1 \in 0..(n - 1) /\ (i + k - 1) + 1 = i + k
  BY <1>1
<1>3. \A k \in 1..m : At(s, i + k - 1) = t[k]
  BY <1>1, <1>2 DEF At, n
<1>4. \A k \in 0..(m - 1) : k + 1 \in 1..m /\ i + (k + 1) - 1 = i + k
  BY <1>1
<1>5. \A k \in 0..(m - 1) : At(s, i + k) = t[k + 1]
  BY <1>3, <1>4
<1> QED
  BY <1>3, <1>5 DEF m

\* What stands in a text stands where that text stands.
LEMMA OccursWithin ==
  ASSUME NEW s, NEW t, NEW u, NEW i, NEW j, Occurs(t, s, i), Occurs(u, t, j)
  PROVE  Occurs(u, s, i + j)
<1>1. i \in Nat /\ Len(s) \in Nat /\ Len(t) \in Nat /\ i + Len(t) <= Len(s)
  BY DEF Occurs
<1>2. j \in Nat /\ Len(u) \in Nat /\ j + Len(u) <= Len(t)
  BY DEF Occurs
<1>3. i + j \in Nat /\ (i + j) + Len(u) <= Len(s)
  BY <1>1, <1>2
<1>4. ASSUME NEW k \in 1..Len(u) PROVE s[(i + j) + k] = u[k]
  <2>1. j + k \in 1..Len(t) /\ i + (j + k) = (i + j) + k
    BY <1>1, <1>2
  <2>2. t[j + k] = u[k]
    BY DEF Occurs
  <2>3. s[i + (j + k)] = t[j + k]
    BY <2>1 DEF Occurs
  <2> QED
    BY <2>1, <2>2, <2>3
<1> QED
  BY <1>1, <1>2, <1>3, <1>4 DEF Occurs

\* Both parts of a concatenation stand in it.
LEMMA OccursParts ==
  ASSUME NEW S, NEW s \in Seq(S), NEW t \in Seq(S)
  PROVE  Occurs(s, s \o t, 0) /\ Occurs(t, s \o t, Len(s))
<1> DEFINE u == s \o t
<1>0. u = s \o t
  OBVIOUS
<1> HIDE DEF u
<1>1. /\ Len(s) \in Nat /\ Len(t) \in Nat /\ Len(u) = Len(s) + Len(t)
      /\ \A j \in 1..Len(s) : u[j] = s[j]
      /\ \A j \in 1..Len(t) : u[Len(s) + j] = t[j]
  BY <1>0, ConcatParts
<1>2. Occurs(s, u, 0)
  BY <1>1 DEF Occurs
<1>3. Occurs(t, u, Len(s))
  BY <1>1 DEF Occurs
<1> QED
  BY <1>2, <1>3 DEF u

\* A text stands in itself.
LEMMA OccursItself ==
  ASSUME NEW s, Len(s) \in Nat
  PROVE  Occurs(s, s, 0)
BY DEF Occurs

-----------------------------------------------------------------------------
(***************************************************************************)
(* Concatenations.                                                         *)
(***************************************************************************)

\* The recursion of Flat().
Glued(ss, u) == u = [k \in 0..Len(ss) |-> IF k = 0 THEN <<>> ELSE u[k - 1] \o ss[k]]

\* There is such a function.
LEMMA GluedExists ==
  ASSUME NEW ss, Len(ss) \in Nat
  PROVE  \E u : Glued(ss, u)
<1> DEFINE N == Len(ss)
           Body(g, i) == IF i = 0 THEN <<>> ELSE g[i - 1] \o ss[i]
           Partial(k) == \E g : \A i \in 0..k : g[i] = Body(g, i)
           S == {k \in 0..N : Partial(k)}
<1>l. N \in Nat
  OBVIOUS
<1> HIDE DEF N
<1>1. 0 \in S
  <2> DEFINE g == [i \in 0..0 |-> <<>>]
  <2>1. \A i \in 0..0 : g[i] = Body(g, i)
    OBVIOUS
  <2>2. Partial(0)
    BY <2>1
  <2> QED
    BY <2>2, <1>l
<1>2. ASSUME NEW k \in 1..N, k - 1 \in S PROVE k \in S
  <2>1. PICK g : \A i \in 0..(k - 1) : g[i] = Body(g, i)
    BY <1>2
  <2> DEFINE h == [i \in 0..k |-> IF i = k THEN Body(g, k) ELSE g[i]]
  <2>2. ASSUME NEW i \in 0..k PROVE h[i] = Body(h, i)
    <3>1. i # 0 => h[i - 1] = g[i - 1]
      BY <1>2, <1>l
    <3>2. Body(h, i) = Body(g, i)
      BY <3>1
    <3>3. h[i] = Body(g, i)
      BY <2>1, <1>2, <1>l
    <3> QED
      BY <3>2, <3>3
  <2>3. Partial(k)
    BY <2>2
  <2> QED
    BY <2>3, <1>2, <1>l
<1>3. N \in S
  <2>1. N \in 0..N
    BY <1>l
  <2> HIDE DEF S
  <2>2. \A k \in 0..N : k \in S
    BY <1>1, <1>2, <1>l, Upwards
  <2> QED
    BY <2>1, <2>2
<1>4. PICK g : \A i \in 0..N : g[i] = Body(g, i)
  BY <1>3
<1> DEFINE u == [i \in 0..N |-> g[i]]
<1>5. ASSUME NEW i \in 0..N PROVE u[i] = Body(u, i)
  <2>1. i # 0 => u[i - 1] = g[i - 1]
    BY <1>l
  <2> QED
    BY <2>1, <1>4
<1>6. u = [i \in 0..N |-> Body(u, i)]
  BY <1>5
<1> QED
  BY <1>6 DEF Glued, N

\* One more sequence is put behind the others.
LEMMA FlatStep ==
  ASSUME NEW ss, Len(ss) \in Nat
  PROVE  /\ Flat(ss, 0) = <<>>
         /\ \A k \in 1..Len(ss) : Flat(ss, k) = Flat(ss, k - 1) \o ss[k]
<1> DEFINE f == CHOOSE u : Glued(ss, u)
<1>1. Glued(ss, f)
  BY GluedExists
<1>2. \A n : Flat(ss, n) = f[n]
  BY DEF Flat, Glued
<1> HIDE DEF f
<1>3. f[0] = <<>> /\ \A k \in 1..Len(ss) : f[k] = f[k - 1] \o ss[k]
  <2>1. 0 \in 0..Len(ss) /\ \A k \in 1..Len(ss) : k \in 0..Len(ss) /\ k # 0
    OBVIOUS
  <2> DEFINE D == 0..Len(ss)
  <2> HIDE DEF D
  <2>2. f = [k \in D |-> IF k = 0 THEN <<>> ELSE f[k - 1] \o ss[k]]
    BY <1>1 DEF Glued, D
  <2>3. \A k \in D : f[k] = IF k = 0 THEN <<>> ELSE f[k - 1] \o ss[k]
    BY <2>2
  <2> QED
    BY <2>1, <2>3 DEF D
<1> QED
  BY <1>2, <1>3

\* What the concatenation of some sequences over S is.
LEMMA FlatType ==
  ASSUME NEW S, NEW ss, Len(ss) \in Nat, \A k \in 1..Len(ss) : ss[k] \in Seq(S)
  PROVE  \A k \in 0..Len(ss) : Flat(ss, k) \in Seq(S) /\ Len(Flat(ss, k)) \in Nat
<1> DEFINE T == {k \in 0..Len(ss) : Flat(ss, k) \in Seq(S)}
<1>1. 0 \in T
  <2>1. Flat(ss, 0) = <<>>
    BY FlatStep
  <2>2. <<>> \in Seq(S)
    OBVIOUS
  <2>3. 0 \in 0..Len(ss)
    OBVIOUS
  <2> QED
    BY <2>1, <2>2, <2>3
<1>2. ASSUME NEW k \in 1..Len(ss), k - 1 \in T PROVE k \in T
  <2>1. Flat(ss, k) = Flat(ss, k - 1) \o ss[k]
    BY FlatStep
  <2>2. Flat(ss, k) \in Seq(S)
    BY <1>2, <2>1, ConcatProperties
  <2> QED
    BY <2>2
<1>3. \A k \in 0..Len(ss) : k \in T
  <2> HIDE DEF T
  <2> QED
    BY <1>1, <1>2, Upwards
<1> QED
  BY <1>3, LenProperties

\* Each of the sequences is found behind those before it.
LEMMA FlatPlaces ==
  ASSUME NEW S, NEW ss, Len(ss) \in Nat, \A k \in 1..Len(ss) : ss[k] \in Seq(S),
         NEW k \in 1..Len(ss), NEW n \in k..Len(ss)
  PROVE  /\ Len(Flat(ss, k)) = Len(Flat(ss, k - 1)) + Len(ss[k])
         /\ Len(Flat(ss, k)) <= Len(Flat(ss, n))
         /\ Occurs(ss[k], Flat(ss, n), Len(Flat(ss, k - 1)))
<1> DEFINE N == Len(ss)
           f == [m \in 0..N |-> Flat(ss, m)]
           a == Len(f[k - 1])
           b == Len(ss[k])
           Has(m) == a + b <= Len(f[m]) /\ \A j \in 1..b : f[m][a + j] = ss[k][j]
           T == {m \in 0..N : m < k \/ Has(m)}
<1>1. ASSUME NEW m \in 1..N PROVE f[m] = f[m - 1] \o ss[m]
  <2>1. f[m] = Flat(ss, m) /\ f[m - 1] = Flat(ss, m - 1)
    OBVIOUS
  <2>2. Flat(ss, m) = Flat(ss, m - 1) \o ss[m]
    BY FlatStep
  <2> QED
    BY <2>1, <2>2
<1>2. \A m \in 0..N : f[m] = Flat(ss, m) /\ f[m] \in Seq(S) /\ Len(f[m]) \in Nat
  BY FlatType
<1>3. \A m \in 1..N : ss[m] \in Seq(S)
  OBVIOUS
<1>l. N \in Nat /\ k \in 1..N /\ k - 1 \in 0..N /\ k \in 0..N
  OBVIOUS
<1>t. a \in Nat /\ b \in Nat
  BY <1>2, <1>l, LenProperties
<1> HIDE DEF N, f, a, b
<1>4. ASSUME NEW m \in 1..N
      PROVE  /\ Len(f[m]) = Len(f[m - 1]) + Len(ss[m]) /\ Len(f[m - 1]) <= Len(f[m])
             /\ Len(f[m - 1]) \in Nat /\ Len(f[m]) \in Nat
             /\ \A j \in 1..Len(f[m - 1]) : f[m][j] = f[m - 1][j]
             /\ \A j \in 1..Len(ss[m]) : f[m][Len(f[m - 1]) + j] = ss[m][j]
  <2>1. m \in 0..N /\ m - 1 \in 0..N
    BY <1>l
  <2>2. f[m - 1] \in Seq(S) /\ ss[m] \in Seq(S) /\ f[m] = f[m - 1] \o ss[m]
    BY <1>1, <1>2, <1>3, <2>1
  <2> DEFINE u == f[m - 1]
             v == ss[m]
             w == f[m]
  <2> HIDE DEF u, v, w, Has, T
  <2>3. u \in Seq(S) /\ v \in Seq(S) /\ w = u \o v
    BY <2>2 DEF u, v, w
  <2>4. /\ Len(w) = Len(u) + Len(v) /\ Len(u) <= Len(w) /\ Len(u) \in Nat /\ w \in Seq(S)
        /\ \A j \in 1..Len(u) : w[j] = u[j]
        /\ \A j \in 1..Len(v) : w[Len(u) + j] = v[j]
    BY <2>3, ConcatParts
  <2>5. Len(w) \in Nat
    BY <2>4, LenProperties
  <2> QED
    BY <2>4, <2>5 DEF u, v, w
<1>5. Len(f[k]) = a + b /\ \A j \in 1..b : f[k][a + j] = ss[k][j]
  BY <1>4, <1>l DEF a, b
<1>6. 0 \in T
  BY <1>l
<1>7. ASSUME NEW m \in 1..N, m - 1 \in T PROVE m \in T
  <2>1. CASE m < k
    BY <2>1, <1>l
  <2>2. CASE m = k
    <3>1. Has(m)
      BY <2>2, <1>5, <1>l, <1>t
    <3> QED
      BY <3>1, <1>l
  <2>3. CASE m > k
    <3>1. Has(m - 1)
      BY <1>7, <2>3, <1>l
    <3>4. Len(f[m - 1]) <= Len(f[m]) /\ Len(f[m - 1]) \in Nat /\ Len(f[m]) \in Nat
      BY <1>4
    <3>2. ASSUME NEW j \in 1..b PROVE f[m][a + j] = ss[k][j]
      <4>1. a + j \in 1..Len(f[m - 1])
        BY <3>1, <3>4, <1>t
      <4>2. f[m][a + j] = f[m - 1][a + j]
        BY <4>1, <1>4
      <4> QED
        BY <3>1, <4>2
    <3>3. a + b <= Len(f[m])
      BY <3>1, <3>4, <1>t
    <3>5. Has(m)
      BY <3>2, <3>3
    <3> QED
      BY <3>5, <1>l
  <2> QED
    BY <2>1, <2>2, <2>3, <1>l
<1>8. \A m \in 0..N : m \in T
  <2> HIDE DEF T
  <2> QED
    BY <1>6, <1>7, <1>l, Upwards
<1>9. \A m \in k..N : m \in 0..N /\ Has(m)
  BY <1>8, <1>l
<1>10. n \in k..N /\ n \in 0..N
  BY DEF N
<1>11. Has(n)
  BY <1>9, <1>10
<1>12. Len(f[k]) = a + b /\ a + b <= Len(f[n]) /\ \A j \in 1..b : f[n][a + j] = ss[k][j]
  BY <1>5, <1>11
<1>13. f[k] = Flat(ss, k) /\ f[n] = Flat(ss, n) /\ f[k - 1] = Flat(ss, k - 1)
  BY <1>2, <1>10, <1>l
<1>14. a \in Nat /\ b \in Nat /\ Len(f[n]) \in Nat
  BY <1>t, <1>2, <1>10
<1>15. Occurs(ss[k], f[n], a)
  BY <1>12, <1>14 DEF Occurs, b
<1> QED
  BY <1>12, <1>13, <1>15 DEF a, b

-----------------------------------------------------------------------------
(***************************************************************************)
(* Digits and numbers.                                                     *)
(***************************************************************************)

\* The ten digits, and what is none.
LEMMA DigitTable ==
  /\ \A d \in 0..9 : Digits[d + 1] \in Digit /\ DigitValue(Digits[d + 1]) = d
  /\ \A c \in Digit : DigitValue(c) \in 0..9
  /\ "" \notin Digit /\ "d" \notin Digit /\ "l" \notin Digit /\ "i" \notin Digit
  /\ "e" \notin Digit /\ ":" \notin Digit /\ "-" \notin Digit
<1>1. \A d \in 0..9 : d = 0 \/ d = 1 \/ d = 2 \/ d = 3 \/ d = 4 \/ d = 5 \/ d = 6 \/ d = 7
        \/ d = 8 \/ d = 9
  OBVIOUS
<1>2. /\ Digits[0 + 1] = "0" /\ Digits[1 + 1] = "1" /\ Digits[2 + 1] = "2" /\ Digits[3 + 1] = "3"
      /\ Digits[4 + 1] = "4" /\ Digits[5 + 1] = "5" /\ Digits[6 + 1] = "6" /\ Digits[7 + 1] = "7"
      /\ Digits[8 + 1] = "8" /\ Digits[9 + 1] = "9"
  BY DEF Digits
<1>3. \A d, e \in 0..9 : Digits[d + 1] = Digits[e + 1] => d = e
  BY <1>1, <1>2
<1>4. \A d \in 0..9 : Digits[d + 1] \in Digit
  BY DEF Digit
<1>5. \A d \in 0..9 : DigitValue(Digits[d + 1]) = d
  BY <1>3 DEF DigitValue
<1>6. \A c \in Digit : \E d \in 0..9 : c = Digits[d + 1]
  BY DEF Digit
<1>7. \A c \in Digit : DigitValue(c) \in 0..9
  BY <1>5, <1>6
<1>8. \A c \in Digit : c \in {"0", "1", "2", "3", "4", "5", "6", "7", "8", "9"}
  BY <1>1, <1>2, <1>6
<1> QED
  BY <1>4, <1>5, <1>7, <1>8

\* How many digits there are, by what they are.
LEMMA DigitsAre ==
  ASSUME NEW s, NEW i, Len(s) \in Nat, NEW n \in 0..Len(s),
         At(s, i + n) \notin Digit, \A k \in 0..(n - 1) : At(s, i + k) \in Digit
  PROVE  DigitsAt(s, i) = n
<1> DEFINE Run(m) == At(s, i + m) \notin Digit /\ \A k \in 0..(m - 1) : At(s, i + k) \in Digit
<1>1. n \in 0..Len(s) /\ Run(n)
  OBVIOUS
<1>2. ASSUME NEW m \in 0..Len(s), Run(m) PROVE m = n
  <2>1. ~(m < n)
    <3>1. m < n => m \in 0..(n - 1)
      OBVIOUS
    <3> QED
      BY <3>1, <1>1, <1>2
  <2>2. ~(n < m)
    <3>1. n < m => n \in 0..(m - 1)
      OBVIOUS
    <3> QED
      BY <3>1, <1>1, <1>2
  <2> QED
    BY <2>1, <2>2
<1>3. DigitsAt(s, i) = CHOOSE m \in 0..Len(s) : Run(m)
  BY DEF DigitsAt
<1> HIDE DEF Run
<1> QED
  BY <1>1, <1>2, <1>3

\* There is an end to them.
LEMMA DigitsEnd ==
  ASSUME NEW s, NEW i \in Nat, Len(s) \in Nat
  PROVE  /\ DigitsAt(s, i) \in 0..Len(s) /\ At(s, i + DigitsAt(s, i)) \notin Digit
         /\ \A k \in 0..(DigitsAt(s, i) - 1) : At(s, i + k) \in Digit
<1> DEFINE n == Len(s)
           T == {m \in 0..n : \A k \in 0..(m - 1) : At(s, i + k) \in Digit}
<1>1. \E m \in 0..n : At(s, i + m) \notin Digit /\ \A k \in 0..(m - 1) : At(s, i + k) \in Digit
  <2> SUFFICES ASSUME \A m \in T : At(s, i + m) \in Digit PROVE FALSE
    OBVIOUS
  <2>1. 0 \in T
    OBVIOUS
  <2>2. ASSUME NEW m \in 1..n, m - 1 \in T PROVE m \in T
    <3>1. At(s, i + (m - 1)) \in Digit
      BY <2>2
    <3>2. \A k \in 0..(m - 1) : k = m - 1 \/ k \in 0..((m - 1) - 1)
      OBVIOUS
    <3>3. \A k \in 0..(m - 1) : At(s, i + k) \in Digit
      BY <3>1, <3>2, <2>2
    <3> QED
      BY <3>3
  <2>3. \A m \in 0..n : m \in T
    <3> HIDE DEF T
    <3> QED
      BY <2>1, <2>2, Upwards
  <2>n. n \in 0..n /\ i + n \notin 0..(n - 1)
    OBVIOUS
  <2>4. At(s, i + n) \in Digit
    BY <2>3, <2>n
  <2>5. At(s, i + n) = ""
    BY <2>n DEF At
  <2> QED
    BY <2>4, <2>5, DigitTable
<1> QED
  BY <1>1 DEF DigitsAt

\* The digits at i are read one by one.
Read10(s, i, u) ==
  u = [n \in 0..Len(s) |->
         IF n = 0 THEN 0 ELSE 10 * u[n - 1] + DigitValue(At(s, i + n - 1))]

\* There is such a function.
LEMMA Read10Exists ==
  ASSUME NEW s, NEW i, Len(s) \in Nat
  PROVE  \E u : Read10(s, i, u)
<1> DEFINE N == Len(s)
           Body(g, n) == IF n = 0 THEN 0 ELSE 10 * g[n - 1] + DigitValue(At(s, i + n - 1))
           Partial(k) == \E g : \A n \in 0..k : g[n] = Body(g, n)
           S == {k \in 0..N : Partial(k)}
<1>l. N \in Nat
  OBVIOUS
<1> HIDE DEF N
<1>1. 0 \in S
  <2> DEFINE g == [n \in 0..0 |-> 0]
  <2>1. \A n \in 0..0 : g[n] = Body(g, n)
    OBVIOUS
  <2>2. Partial(0)
    BY <2>1
  <2> QED
    BY <2>2, <1>l
<1>2. ASSUME NEW k \in 1..N, k - 1 \in S PROVE k \in S
  <2>1. PICK g : \A n \in 0..(k - 1) : g[n] = Body(g, n)
    BY <1>2
  <2> DEFINE h == [n \in 0..k |-> IF n = k THEN Body(g, k) ELSE g[n]]
  <2>2. ASSUME NEW n \in 0..k PROVE h[n] = Body(h, n)
    <3>1. n # 0 => h[n - 1] = g[n - 1]
      BY <1>2, <1>l
    <3>2. Body(h, n) = Body(g, n)
      BY <3>1
    <3>3. h[n] = Body(g, n)
      BY <2>1, <1>2, <1>l
    <3> QED
      BY <3>2, <3>3
  <2>3. Partial(k)
    BY <2>2
  <2> QED
    BY <2>3, <1>2, <1>l
<1>3. N \in S
  <2>1. N \in 0..N
    BY <1>l
  <2> HIDE DEF S
  <2>2. \A k \in 0..N : k \in S
    BY <1>1, <1>2, <1>l, Upwards
  <2> QED
    BY <2>1, <2>2
<1>4. PICK g : \A n \in 0..N : g[n] = Body(g, n)
  BY <1>3
<1> DEFINE u == [n \in 0..N |-> g[n]]
<1>5. ASSUME NEW n \in 0..N PROVE u[n] = Body(u, n)
  <2>1. n # 0 => u[n - 1] = g[n - 1]
    BY <1>l
  <2> QED
    BY <2>1, <1>4
<1>6. u = [n \in 0..N |-> Body(u, n)]
  BY <1>5
<1> QED
  BY <1>6 DEF Read10, N

\* It is what Number() takes its result from.
LEMMA NumberRead ==
  ASSUME NEW s, NEW i, Len(s) \in Nat
  PROVE  \E u : /\ u[0] = 0 /\ Number(s, i) = u[DigitsAt(s, i)]
                /\ \A k \in 1..Len(s) : u[k] = 10 * u[k - 1] + DigitValue(At(s, i + k - 1))
<1> DEFINE f == CHOOSE u : Read10(s, i, u)
<1>1. Read10(s, i, f)
  BY Read10Exists
<1>2. Number(s, i) = f[DigitsAt(s, i)]
  BY DEF Number, Read10
<1> HIDE DEF f
<1>3. f[0] = 0 /\ \A k \in 1..Len(s) : f[k] = 10 * f[k - 1] + DigitValue(At(s, i + k - 1))
  BY <1>1 DEF Read10
<1> QED
  BY <1>2, <1>3

\* What reads the same digits has the same result.
LEMMA NumberIs ==
  ASSUME NEW s, NEW i, Len(s) \in Nat, NEW n \in 0..Len(s), DigitsAt(s, i) = n,
         NEW v, v[0] = 0, \A k \in 1..n : v[k] = 10 * v[k - 1] + DigitValue(At(s, i + k - 1))
  PROVE  Number(s, i) = v[n]
<1>1. PICK u : /\ u[0] = 0 /\ Number(s, i) = u[n]
               /\ \A k \in 1..Len(s) : u[k] = 10 * u[k - 1] + DigitValue(At(s, i + k - 1))
  BY NumberRead
<1> DEFINE T == {k \in 0..n : u[k] = v[k]}
<1>2. 0 \in T
  BY <1>1
<1>3. ASSUME NEW k \in 1..n, k - 1 \in T PROVE k \in T
  <2>1. k \in 1..Len(s)
    OBVIOUS
  <2>2. u[k] = 10 * u[k - 1] + DigitValue(At(s, i + k - 1))
    BY <1>1, <2>1
  <2>3. u[k - 1] = v[k - 1]
    BY <1>3
  <2> QED
    BY <2>2, <2>3
<1>4. n \in T
  <2>1. n \in Nat /\ n \in 0..n
    OBVIOUS
  <2> HIDE DEF T
  <2>2. \A k \in 0..n : k \in T
    BY <1>2, <1>3, <2>1, Upwards
  <2> QED
    BY <2>1, <2>2
<1> QED
  BY <1>1, <1>4

\* A number without a sign is a natural number.
LEMMA NumberNat ==
  ASSUME NEW s, NEW i \in Nat, Len(s) \in Nat
  PROVE  Number(s, i) \in Nat
<1> DEFINE n == DigitsAt(s, i)
<1>1. n \in 0..Len(s) /\ \A k \in 0..(n - 1) : At(s, i + k) \in Digit
  BY DigitsEnd
<1>2. PICK u : /\ u[0] = 0 /\ Number(s, i) = u[n]
               /\ \A k \in 1..Len(s) : u[k] = 10 * u[k - 1] + DigitValue(At(s, i + k - 1))
  BY NumberRead
<1> HIDE DEF n
<1> DEFINE T == {k \in 0..n : u[k] \in Nat}
<1>3. 0 \in T
  BY <1>1, <1>2
<1>4. ASSUME NEW k \in 1..n, k - 1 \in T PROVE k \in T
  <2>1. k \in 1..Len(s) /\ k - 1 \in 0..(n - 1) /\ i + (k - 1) = i + k - 1
    BY <1>1
  <2>2. u[k] = 10 * u[k - 1] + DigitValue(At(s, i + k - 1))
    BY <1>2, <2>1
  <2>3. DigitValue(At(s, i + k - 1)) \in 0..9
    BY <1>1, <2>1, DigitTable
  <2>4. u[k - 1] \in Nat
    BY <1>4
  <2>5. \A x \in Nat, d \in 0..9 : 10 * x + d \in Nat
    OBVIOUS
  <2>6. u[k] \in Nat
    BY <2>2, <2>3, <2>4, <2>5
  <2> QED
    BY <2>6
<1>5. n \in T
  <2>1. n \in Nat /\ n \in 0..n
    BY <1>1
  <2> HIDE DEF T
  <2>2. \A k \in 0..n : k \in T
    BY <1>3, <1>4, <2>1, Upwards
  <2> QED
    BY <2>1, <2>2
<1> QED
  BY <1>2, <1>5

\* The text t is what n is written as, digit by digit.
Writes(t, n) ==
  /\ t \in Seq(Digit) /\ Len(t) \in Nat /\ 1 <= Len(t) /\ (Len(t) = 1 <=> n < 10)
  /\ \E v : /\ v[0] = 0 /\ v[Len(t)] = n
            /\ \A k \in 1..Len(t) : v[k] = 10 * v[k - 1] + DigitValue(t[k])

\* The recursion of Decimal().
InTens(n, d) ==
  d = [k \in 0..n |-> IF k < 10 THEN <<Digits[k + 1]>>
                      ELSE d[k \div 10] \o <<Digits[(k % 10) + 1]>>]

\* A number is ten times what is left of its last digit, and the digit.
LEMMA LastDigit ==
  ASSUME NEW k \in Nat, ~(k < 10)
  PROVE  /\ k \div 10 \in 0..(k - 1) /\ k \div 10 \in Nat /\ 1 <= k \div 10
         /\ k % 10 \in 0..9 /\ k = 10 * (k \div 10) + (k % 10)
OBVIOUS

\* There is such a function.
LEMMA InTensExists ==
  ASSUME NEW N \in Nat
  PROVE  \E d : InTens(N, d)
<1> DEFINE Body(g, k) == IF k < 10 THEN <<Digits[k + 1]>>
                         ELSE g[k \div 10] \o <<Digits[(k % 10) + 1]>>
           Partial(k) == \E g : \A n \in 0..k : g[n] = Body(g, n)
           S == {k \in 0..N : Partial(k)}
<1>1. 0 \in S
  <2> DEFINE g == [n \in 0..0 |-> <<Digits[n + 1]>>]
  <2>1. \A n \in 0..0 : g[n] = Body(g, n)
    OBVIOUS
  <2>2. Partial(0)
    BY <2>1
  <2>3. 0 \in 0..N
    OBVIOUS
  <2> HIDE DEF Partial
  <2> QED
    BY <2>2, <2>3
<1>2. ASSUME NEW k \in 1..N, k - 1 \in S PROVE k \in S
  <2>1. PICK g : \A n \in 0..(k - 1) : g[n] = Body(g, n)
    BY <1>2
  <2> DEFINE h == [n \in 0..k |-> IF n = k THEN Body(g, k) ELSE g[n]]
  <2>2. ASSUME NEW n \in 0..k PROVE h[n] = Body(h, n)
    <3>1. ~(n < 10) => n \div 10 \in 0..(n - 1)
      BY LastDigit
    <3>4. ~(n < 10) => n \div 10 \in 0..k /\ n \div 10 # k
      BY <3>1
    <3>5. ~(n < 10) => h[n \div 10] = g[n \div 10]
      BY <3>4
    <3>2. Body(h, n) = Body(g, n)
      BY <3>5
    <3>3. h[n] = Body(g, n)
      <4>1. CASE n = k
        BY <4>1
      <4>2. CASE n # k
        <5>1. n \in 0..(k - 1)
          BY <4>2
        <5>2. h[n] = g[n]
          BY <4>2
        <5> QED
          BY <5>1, <5>2, <2>1
      <4> QED
        BY <4>1, <4>2
    <3> QED
      BY <3>2, <3>3
  <2>3. Partial(k)
    BY <2>2
  <2>4. k \in 0..N
    OBVIOUS
  <2> HIDE DEF Partial
  <2> QED
    BY <2>3, <2>4
<1>3. N \in S
  <2>1. N \in 0..N
    OBVIOUS
  <2> HIDE DEF S
  <2>2. \A k \in 0..N : k \in S
    BY <1>1, <1>2, Upwards
  <2> QED
    BY <2>1, <2>2
<1>4. PICK g : \A n \in 0..N : g[n] = Body(g, n)
  BY <1>3
<1> DEFINE u == [n \in 0..N |-> g[n]]
<1>5. ASSUME NEW n \in 0..N PROVE u[n] = Body(u, n)
  <2>1. ~(n < 10) => n \div 10 \in 0..(n - 1)
    BY LastDigit
  <2>2. ~(n < 10) => u[n \div 10] = g[n \div 10]
    BY <2>1
  <2>3. Body(u, n) = Body(g, n)
    BY <2>2
  <2> QED
    BY <2>3, <1>4
<1>6. u = [n \in 0..N |-> Body(u, n)]
  BY <1>5
<1> QED
  BY <1>6 DEF InTens

\* One digit writes the numbers below ten.
LEMMA WritesOne ==
  ASSUME NEW r \in 0..9
  PROVE  Writes(<<Digits[r + 1]>>, r)
<1> DEFINE t == <<Digits[r + 1]>>
           v == [j \in 0..1 |-> IF j = 0 THEN 0 ELSE r]
<1>1. t \in Seq(Digit) /\ Len(t) = 1 /\ t[1] = Digits[r + 1]
  <2>1. Digits[r + 1] \in Digit
    BY DigitTable
  <2> DEFINE c == Digits[r + 1]
  <2> HIDE DEF c
  <2>2. <<c>> \in Seq(Digit) /\ Len(<<c>>) = 1 /\ <<c>>[1] = c
    BY <2>1 DEF c
  <2> QED
    BY <2>2 DEF c
<1>2. v[0] = 0 /\ v[1] = r
  OBVIOUS
<1>3. DigitValue(t[1]) = r
  BY <1>1, DigitTable
<1> HIDE DEF t, v
<1>4. \A k \in 1..Len(t) : v[k] = 10 * v[k - 1] + DigitValue(t[k])
  <2> SUFFICES ASSUME NEW k \in 1..Len(t) PROVE v[k] = 10 * v[k - 1] + DigitValue(t[k])
    OBVIOUS
  <2>1. k = 1 /\ k - 1 = 0
    BY <1>1
  <2> QED
    BY <2>1, <1>2, <1>3
<1>5. v[Len(t)] = r
  BY <1>1, <1>2
<1>6. Writes(t, r)
  BY <1>1, <1>2, <1>4, <1>5 DEF Writes
<1> QED
  BY <1>6 DEF t

\* One more element.
LEMMA OneMore ==
  ASSUME NEW S, NEW t \in Seq(S), NEW c \in S
  PROVE  /\ t \o <<c>> \in Seq(S) /\ Len(t \o <<c>>) = Len(t) + 1
         /\ \A j \in 1..Len(t) : (t \o <<c>>)[j] = t[j]
         /\ (t \o <<c>>)[Len(t) + 1] = c
<1> DEFINE x == <<c>>
           y == t \o x
<1>1. x \in Seq(S) /\ Len(x) = 1 /\ x[1] = c
  OBVIOUS
<1>2. y = t \o x
  OBVIOUS
<1>0. t \in Seq(S)
  OBVIOUS
<1> HIDE DEF x, y
<1>3. /\ y \in Seq(S) /\ Len(y) = Len(t) + Len(x)
      /\ \A i \in 1..(Len(t) + Len(x)) : y[i] = IF i <= Len(t) THEN t[i] ELSE x[i - Len(t)]
  BY <1>0, <1>1, <1>2, ConcatProperties
<1>5. Len(t) \in Nat
  BY <1>0, LenProperties
<1>4. Len(y) = Len(t) + 1 /\ y[Len(t) + 1] = c /\ \A j \in 1..Len(t) : y[j] = t[j]
  BY <1>1, <1>3, <1>5
<1> QED
  BY <1>3, <1>4 DEF x, y

\* One more digit.
LEMMA WritesMore ==
  ASSUME NEW m \in Nat, 1 <= m, NEW t, Writes(t, m), NEW r \in 0..9
  PROVE  Writes(t \o <<Digits[r + 1]>>, 10 * m + r)
<1> DEFINE c == Digits[r + 1]
           L == Len(t)
           u == t \o <<c>>
<1>1. t \in Seq(Digit) /\ L \in Nat /\ 1 <= L
  BY DEF Writes
<1>2. c \in Digit /\ DigitValue(c) = r
  BY DigitTable
<1> HIDE DEF c
<1>3. <<c>> \in Seq(Digit) /\ Len(<<c>>) = 1 /\ <<c>>[1] = c
  BY <1>2
<1>4. /\ u \in Seq(Digit) /\ Len(u) = L + 1
      /\ \A j \in 1..L : u[j] = t[j]
      /\ u[L + 1] = c
  BY <1>1, <1>2, OneMore
<1> HIDE DEF u
<1>5. PICK v : v[0] = 0 /\ v[L] = m /\ \A k \in 1..L : v[k] = 10 * v[k - 1] + DigitValue(t[k])
  BY DEF Writes
<1> HIDE DEF L
<1> DEFINE w == [k \in 0..(L + 1) |-> IF k = L + 1 THEN 10 * m + r ELSE v[k]]
<1>6. w[0] = 0 /\ w[L] = m /\ w[L + 1] = 10 * m + r
  BY <1>1, <1>5
<1>7. ASSUME NEW k \in 1..(L + 1) PROVE w[k] = 10 * w[k - 1] + DigitValue(u[k])
  <2>1. CASE k = L + 1
    <3>1. k - 1 = L
      BY <2>1, <1>1
    <3> HIDE DEF w
    <3> QED
      BY <2>1, <3>1, <1>2, <1>4, <1>6
  <2>2. CASE k # L + 1
    <3>1. k \in 1..L /\ k \in 0..(L + 1) /\ k - 1 \in 0..(L + 1) /\ k - 1 # L + 1
      BY <2>2, <1>1
    <3>2. w[k] = v[k] /\ w[k - 1] = v[k - 1] /\ u[k] = t[k]
      BY <3>1, <2>2, <1>4
    <3> QED
      BY <3>1, <3>2, <1>5
  <2> QED
    BY <2>1, <2>2
<1> HIDE DEF w
<1>8. Len(u) = L + 1 /\ L + 1 \in Nat /\ 1 <= L + 1 /\ L + 1 # 1 /\ ~(10 * m + r < 10)
  BY <1>1, <1>4
<1>9. Writes(u, 10 * m + r)
  <2>1. \A k \in 1..Len(u) : w[k] = 10 * w[k - 1] + DigitValue(u[k])
    BY <1>7, <1>8
  <2>2. w[0] = 0 /\ w[Len(u)] = 10 * m + r
    BY <1>6, <1>8
  <2>3. \E x : /\ x[0] = 0 /\ x[Len(u)] = 10 * m + r
               /\ \A k \in 1..Len(u) : x[k] = 10 * x[k - 1] + DigitValue(u[k])
    BY <2>1, <2>2
  <2>4. u \in Seq(Digit) /\ Len(u) \in Nat /\ 1 <= Len(u) /\ (Len(u) = 1 <=> 10 * m + r < 10)
    BY <1>4, <1>8
  <2> QED
    BY <2>3, <2>4 DEF Writes
<1> QED
  BY <1>9 DEF u, c

\* Decimal() writes every number.
LEMMA DecimalWrites ==
  ASSUME NEW n \in Nat
  PROVE  Writes(Decimal(n), n)
<1> DEFINE f == CHOOSE d : InTens(n, d)
<1>1. InTens(n, f)
  BY InTensExists
<1>2. Decimal(n) = f[n]
  BY DEF Decimal, InTens
<1> HIDE DEF f
<1>3. \A k \in 0..n : f[k] = IF k < 10 THEN <<Digits[k + 1]>>
                             ELSE f[k \div 10] \o <<Digits[(k % 10) + 1]>>
  BY <1>1 DEF InTens
<1> DEFINE T == {k \in 0..n : \A j \in 0..k : Writes(f[j], j)}
<1>4. ASSUME NEW k \in 0..n, \A j \in 0..(k - 1) : Writes(f[j], j) PROVE Writes(f[k], k)
  <2>1. CASE k < 10
    <3>1. k \in 0..9
      BY <2>1
    <3>2. f[k] = <<Digits[k + 1]>>
      BY <2>1, <1>3
    <3> QED
      BY <3>1, <3>2, WritesOne
  <2>2. CASE ~(k < 10)
    <3>1. /\ k \div 10 \in 0..(k - 1) /\ k \div 10 \in Nat /\ 1 <= k \div 10
          /\ k % 10 \in 0..9 /\ k = 10 * (k \div 10) + (k % 10)
      BY <2>2, LastDigit
    <3>2. f[k] = f[k \div 10] \o <<Digits[(k % 10) + 1]>>
      BY <2>2, <1>3
    <3>3. Writes(f[k \div 10], k \div 10)
      BY <3>1, <1>4
    <3> DEFINE m == k \div 10
               r == k % 10
    <3>4. /\ m \in Nat /\ 1 <= m /\ r \in 0..9 /\ k = 10 * m + r
          /\ f[k] = f[m] \o <<Digits[r + 1]>> /\ Writes(f[m], m)
      BY <3>1, <3>2, <3>3
    <3> HIDE DEF m, r
    <3>5. Writes(f[m] \o <<Digits[r + 1]>>, 10 * m + r)
      BY <3>4, WritesMore
    <3> QED
      BY <3>4, <3>5
  <2> QED
    BY <2>1, <2>2
<1>5. 0 \in T
  <2>1. \A j \in 0..(0 - 1) : Writes(f[j], j)
    OBVIOUS
  <2>2. Writes(f[0], 0)
    BY <2>1, <1>4
  <2>3. \A j \in 0..0 : j = 0
    OBVIOUS
  <2>4. \A j \in 0..0 : Writes(f[j], j)
    BY <2>2, <2>3
  <2> QED
    BY <2>4
<1>6. ASSUME NEW k \in 1..n, k - 1 \in T PROVE k \in T
  <2>1. \A j \in 0..(k - 1) : Writes(f[j], j)
    BY <1>6
  <2>2. Writes(f[k], k)
    BY <2>1, <1>4
  <2>3. \A j \in 0..k : j = k \/ j \in 0..(k - 1)
    OBVIOUS
  <2>4. \A j \in 0..k : Writes(f[j], j)
    BY <2>1, <2>2, <2>3
  <2> QED
    BY <2>4
<1>7. n \in T
  <2>1. n \in 0..n
    OBVIOUS
  <2> HIDE DEF T
  <2>2. \A k \in 0..n : k \in T
    BY <1>5, <1>6, Upwards
  <2> QED
    BY <2>1, <2>2
<1>8. Writes(f[n], n)
  <2>1. n \in 0..n
    OBVIOUS
  <2> QED
    BY <1>7, <2>1
<1> QED
  BY <1>2, <1>8

\* Wherever a number stands, up to what is no digit, it is read.
LEMMA DecimalFound ==
  ASSUME NEW n \in Nat, NEW s, NEW i, Occurs(Decimal(n), s, i),
         At(s, i + Len(Decimal(n))) \notin Digit
  PROVE  DigitsAt(s, i) = Len(Decimal(n)) /\ Number(s, i) = n
<1> DEFINE t == Decimal(n)
           L == Len(t)
<1>1. /\ t \in Seq(Digit) /\ L \in Nat /\ 1 <= L
      /\ \E v : v[0] = 0 /\ v[L] = n /\ \A k \in 1..L : v[k] = 10 * v[k - 1] + DigitValue(t[k])
  BY DecimalWrites DEF Writes
<1>2. PICK v : v[0] = 0 /\ v[L] = n /\ \A k \in 1..L : v[k] = 10 * v[k - 1] + DigitValue(t[k])
  BY <1>1
<1>3. /\ \A k \in 1..L : At(s, i + k - 1) = t[k]
      /\ \A k \in 0..(L - 1) : At(s, i + k) = t[k + 1]
  BY OccursAt
<1>4. i \in Nat /\ Len(s) \in Nat /\ i + L <= Len(s)
  BY DEF Occurs
<1>5. At(s, i + L) \notin Digit
  OBVIOUS
<1> HIDE DEF t
<1>6. \A k \in 1..L : t[k] \in Digit
  BY <1>1, ElementOfSeq
<1> HIDE DEF L
<1>7. L \in 0..Len(s)
  BY <1>1, <1>4
<1>8. \A k \in 0..(L - 1) : At(s, i + k) \in Digit
  <2>1. \A k \in 0..(L - 1) : k + 1 \in 1..L
    BY <1>1
  <2> QED
    BY <2>1, <1>3, <1>6
<1>9. DigitsAt(s, i) = L
  BY <1>4, <1>5, <1>7, <1>8, DigitsAre
<1>10. \A k \in 1..L : v[k] = 10 * v[k - 1] + DigitValue(At(s, i + k - 1))
  BY <1>2, <1>3
<1>11. Number(s, i) = v[L]
  BY <1>2, <1>4, <1>7, <1>9, <1>10, NumberIs
<1> QED
  BY <1>2, <1>9, <1>11 DEF L, t

\* A sequence between two elements.
LEMMA Wrapped ==
  ASSUME NEW S, NEW a \in S, NEW f \in Seq(S), NEW z \in S
  PROVE  /\ <<a>> \o f \o <<z>> \in Seq(S) /\ Len(<<a>> \o f \o <<z>>) = Len(f) + 2
         /\ (<<a>> \o f \o <<z>>)[1] = a /\ (<<a>> \o f \o <<z>>)[Len(f) + 2] = z
         /\ Occurs(f, <<a>> \o f \o <<z>>, 1)
<1> DEFINE x == <<a>>
           y == x \o f
           t == y \o <<z>>
<1>1. x \in Seq(S) /\ Len(x) = 1 /\ x[1] = a
  OBVIOUS
<1>0. y = x \o f /\ f \in Seq(S)
  OBVIOUS
<1>l. Len(f) \in Nat
  BY LenProperties
<1> HIDE DEF x
<1>2. /\ y \in Seq(S) /\ Len(y) = 1 + Len(f)
      /\ \A i \in 1..(1 + Len(f)) : y[i] = IF i <= 1 THEN x[i] ELSE f[i - 1]
  <2> HIDE DEF y
  <2>1. /\ y \in Seq(S) /\ Len(y) = Len(x) + Len(f)
        /\ \A i \in 1..(Len(x) + Len(f)) : y[i] = IF i <= Len(x) THEN x[i] ELSE f[i - Len(x)]
    BY <1>0, <1>1, ConcatProperties
  <2> QED
    BY <1>1, <2>1
<1> HIDE DEF y
<1>3. /\ t \in Seq(S) /\ Len(t) = Len(y) + 1
      /\ \A j \in 1..Len(y) : t[j] = y[j]
      /\ t[Len(y) + 1] = z
  BY <1>2, OneMore
<1> HIDE DEF t
<1>4. Len(t) = Len(f) + 2 /\ t[Len(f) + 2] = z
  BY <1>2, <1>3, <1>l
<1>5. t[1] = a
  BY <1>1, <1>2, <1>3, <1>l
<1>6. \A k \in 1..Len(f) : t[1 + k] = f[k]
  <2> SUFFICES ASSUME NEW k \in 1..Len(f) PROVE t[1 + k] = f[k]
    OBVIOUS
  <2>1. 1 + k \in 1..(1 + Len(f)) /\ ~(1 + k <= 1) /\ (1 + k) - 1 = k
    BY <1>l
  <2>2. t[1 + k] = y[1 + k]
    BY <2>1, <1>2, <1>3
  <2>3. y[1 + k] = f[(1 + k) - 1]
    BY <2>1, <1>2
  <2> QED
    BY <2>1, <2>2, <2>3
<1>7. Occurs(f, t, 1)
  BY <1>4, <1>6, <1>l DEF Occurs
<1> QED
  BY <1>3, <1>4, <1>5, <1>7 DEF t, y, x

-----------------------------------------------------------------------------
(***************************************************************************)
(* Legal nodes.                                                            *)
(***************************************************************************)

\* The set holds legal nodes and their items.
Closed(N) == \A n \in N : Legal(n, N)

\* A list or a dictionary, and the character it begins with.
Shut(n) == n.type \in {"T_LIST", "T_DICT"}
Opening(n) == IF n.type = "T_LIST" THEN "l" ELSE "d"

\* What a node is.
LEMMA LegalType ==
  ASSUME NEW N, NEW n, Legal(n, N)
  PROVE  n.type \in {"T_INT", "T_STRING", "T_LIST", "T_DICT"} /\ n.text \in Seq(Char)
BY DEF Legal

\* An integer.
LEMMA LegalInt ==
  ASSUME NEW N, NEW n, Legal(n, N), n.type = "T_INT"
  PROVE  /\ n.number \in Int /\ n.text = <<"i">> \o Signed(n.number) \o <<"e">>
         /\ n.items = <<>> /\ n.value = <<>>
         /\ n.walk = <<Line(0, 0, "T_INT", Len(n.text), <<>>, n.number)>> \o <<>>
<1>1. n.number \in (-MaxInt)..MaxInt /\ n = IntNode(n.number)
  BY DEF Legal
<1> DEFINE v == n.number
<1>2. n = IntNode(v) /\ v \in Int
  BY <1>1
<1> HIDE DEF v
<1>3. IntNode(v).text = <<"i">> \o Signed(v) \o <<"e">>
  BY DEF IntNode, Node
<1>4. IntNode(v).items = <<>> /\ IntNode(v).value = <<>>
  BY DEF IntNode, Node
<1>5. IntNode(v).walk = <<Line(0, 0, "T_INT", Len(IntNode(v).text), <<>>, v)>> \o <<>>
  BY DEF IntNode, Node
<1> QED
  BY <1>2, <1>3, <1>4, <1>5 DEF v

\* A string.
LEMMA LegalString ==
  ASSUME NEW N, NEW n, Legal(n, N), n.type = "T_STRING"
  PROVE  /\ n.value \in Seq(Char) /\ n.text = Counts(n.value) /\ n.number = Len(n.value)
         /\ n.items = <<>>
         /\ n.walk = <<Line(0, 0, "T_STRING", Len(n.text), n.value, n.number)>> \o <<>>
<1>1. n.value \in Seq(Char) /\ n = StringNode(n.value)
  BY DEF Legal
<1> DEFINE v == n.value
<1>2. n = StringNode(v) /\ v \in Seq(Char)
  BY <1>1
<1> HIDE DEF v
<1>3. StringNode(v).text = Counts(v)
  BY DEF StringNode, Node
<1>4. StringNode(v).items = <<>> /\ StringNode(v).number = Len(v)
  BY DEF StringNode, Node
<1>5. StringNode(v).walk = <<Line(0, 0, "T_STRING", Len(StringNode(v).text), v, StringNode(v).number)>> \o <<>>
  BY DEF StringNode, Node
<1> QED
  BY <1>2, <1>3, <1>4, <1>5 DEF v

\* A list or a dictionary.
LEMMA LegalCompound ==
  ASSUME NEW N, NEW n, Legal(n, N), Shut(n)
  PROVE  /\ n.items \in Seq(N)
         /\ n.text = <<Opening(n)>> \o Flat(Texts(n.items), Len(n.items)) \o <<"e">>
         /\ n.value = <<>>
         /\ n.number = IF n.type = "T_LIST" THEN Len(n.items) ELSE Len(n.items) \div 2
         /\ n.walk = <<Line(0, 0, n.type, Len(n.text), <<>>, n.number)>> \o Below(n.type, n.items)
         /\ n.type = "T_DICT" =>
              /\ Len(n.items) % 2 = 0
              /\ \A k \in 1..Len(n.items) : k % 2 = 1 => n.items[k].type = "T_STRING"
<1> DEFINE it == n.items
<1>1. CASE n.type = "T_LIST"
  <2>1. n = ListNode(it) /\ it \in Seq(N)
    BY <1>1 DEF Legal
  <2> HIDE DEF it
  <2>2. ListNode(it).text = <<"l">> \o Flat(Texts(it), Len(it)) \o <<"e">>
    BY DEF ListNode, Compound, Node
  <2>3. ListNode(it).value = <<>> /\ ListNode(it).number = Len(it)
    BY DEF ListNode, Compound, Node
  <2>4. ListNode(it).walk =
          <<Line(0, 0, "T_LIST", Len(ListNode(it).text), <<>>, ListNode(it).number)>> \o Below("T_LIST", it)
    BY DEF ListNode, Compound, Node
  <2>5. Opening(n) = "l"
    BY <1>1 DEF Opening
  <2> QED
    BY <1>1, <2>1, <2>2, <2>3, <2>4, <2>5 DEF it
<1>2. CASE n.type = "T_DICT"
  <2>1. n = DictNode(it) /\ it \in Seq(N)
    BY <1>2 DEF Legal
  <2>6. Len(it) % 2 = 0 /\ \A k \in 1..Len(it) : k % 2 = 1 => it[k].type = "T_STRING"
    BY <1>2 DEF Legal
  <2> HIDE DEF it
  <2>2. DictNode(it).text = <<"d">> \o Flat(Texts(it), Len(it)) \o <<"e">>
    BY DEF DictNode, Compound, Node
  <2>3. DictNode(it).value = <<>> /\ DictNode(it).number = Len(it) \div 2
    BY DEF DictNode, Compound, Node
  <2>4. DictNode(it).walk =
          <<Line(0, 0, "T_DICT", Len(DictNode(it).text), <<>>, DictNode(it).number)>> \o Below("T_DICT", it)
    BY DEF DictNode, Compound, Node
  <2>5. Opening(n) = "d"
    BY <1>2 DEF Opening
  <2> QED
    BY <1>2, <2>1, <2>2, <2>3, <2>4, <2>5, <2>6 DEF it
<1> QED
  BY <1>1, <1>2 DEF Shut

\* The items of a list or a dictionary are nodes, their texts are texts.
LEMMA ItemTexts ==
  ASSUME NEW N, Closed(N), NEW n \in N, Shut(n)
  PROVE  /\ Len(n.items) \in Nat /\ \A k \in 1..Len(n.items) : n.items[k] \in N
         /\ Len(Texts(n.items)) = Len(n.items)
         /\ \A k \in 1..Len(n.items) :
              Texts(n.items)[k] = n.items[k].text /\ n.items[k].text \in Seq(Char)
<1>1. Legal(n, N)
  BY DEF Closed
<1>2. n.items \in Seq(N)
  BY <1>1, LegalCompound
<1> DEFINE it == n.items
           m == Len(it)
<1>3. m \in Nat
  BY <1>2, LenProperties
<1>4. \A k \in 1..m : it[k] \in N
  BY <1>2, ElementOfSeq
<1>5. Texts(it) = [k \in 1..m |-> it[k].text]
  BY DEF Texts
<1> HIDE DEF m
<1>6. Len(Texts(it)) = m /\ \A k \in 1..m : Texts(it)[k] = it[k].text
  BY <1>3, <1>5
<1>7. \A k \in 1..m : it[k].text \in Seq(Char)
  BY <1>4, LegalType DEF Closed
<1> QED
  BY <1>3, <1>4, <1>6, <1>7 DEF m

\* How the text of a list or a dictionary is made up.
LEMMA CompoundShape ==
  ASSUME NEW N, Closed(N), NEW n \in N, Shut(n)
  PROVE  /\ n.text \in Seq(Char) /\ Len(n.text) \in Nat /\ 2 <= Len(n.text)
         /\ n.text[1] = Opening(n) /\ n.text[Len(n.text)] = "e"
         /\ OffsetOf(n.items, 1) = 1 /\ OffsetOf(n.items, Len(n.items) + 1) = Len(n.text) - 1
         /\ \A k \in 1..(Len(n.items) + 1) :
              OffsetOf(n.items, k) \in 1..(Len(n.text) - 1)
         /\ \A k \in 1..Len(n.items) :
              /\ OffsetOf(n.items, k + 1) = OffsetOf(n.items, k) + Len(n.items[k].text)
              /\ Occurs(n.items[k].text, n.text, OffsetOf(n.items, k))
              /\ Len(n.items[k].text) <= Len(n.text) - 2
<1> DEFINE it == n.items
           m == Len(it)
           ss == Texts(it)
           f == Flat(ss, m)
           t == n.text
<1>1. m \in Nat /\ Len(ss) = m /\ \A k \in 1..m : ss[k] = it[k].text /\ it[k].text \in Seq(Char)
  BY ItemTexts
<1>2. t = <<Opening(n)>> \o f \o <<"e">>
  BY LegalCompound DEF Closed
<1>3. \A k \in 1..(m + 1) : OffsetOf(it, k) = 1 + Len(Flat(ss, k - 1))
  BY DEF OffsetOf
<1> HIDE DEF it, m, ss, t
<1>4. Len(ss) \in Nat /\ \A k \in 1..Len(ss) : ss[k] \in Seq(Char)
  BY <1>1
<1>5. \A k \in 0..m : Flat(ss, k) \in Seq(Char) /\ Len(Flat(ss, k)) \in Nat
  BY <1>1, <1>4, FlatType
<1>6. m \in 0..m /\ f \in Seq(Char) /\ Len(f) \in Nat
  BY <1>1, <1>5
<1> HIDE DEF f
<1>7. Opening(n) \in Char /\ "e" \in Char
  BY CharAssumption DEF Opening
<1>8. /\ t \in Seq(Char) /\ Len(t) = Len(f) + 2 /\ t[1] = Opening(n) /\ t[Len(f) + 2] = "e"
      /\ Occurs(f, t, 1)
  BY <1>2, <1>6, <1>7, Wrapped
<1>9. OffsetOf(it, 1) = 1
  <2>1. Flat(ss, 0) = <<>>
    BY <1>4, FlatStep
  <2>2. 1 \in 1..(m + 1) /\ 1 - 1 = 0
    BY <1>1
  <2>3. Len(<<>>) = 0
    OBVIOUS
  <2> QED
    BY <1>3, <2>1, <2>2, <2>3
<1>10. OffsetOf(it, m + 1) = Len(t) - 1
  <2>1. m + 1 \in 1..(m + 1) /\ (m + 1) - 1 = m
    BY <1>1
  <2>2. OffsetOf(it, m + 1) = 1 + Len(f)
    BY <1>3, <2>1 DEF f
  <2> QED
    BY <1>6, <1>8, <2>2
<1>11. ASSUME NEW k \in 1..m
       PROVE  /\ OffsetOf(it, k + 1) = OffsetOf(it, k) + Len(it[k].text)
              /\ Occurs(it[k].text, t, OffsetOf(it, k))
              /\ Len(it[k].text) <= Len(t) - 2
  <2>1. k \in 1..Len(ss) /\ m \in k..Len(ss) /\ k - 1 \in 0..m /\ k \in 0..m
        /\ k \in 1..(m + 1) /\ k + 1 \in 1..(m + 1) /\ (k + 1) - 1 = k
    BY <1>1
  <2>2. /\ Len(Flat(ss, k)) = Len(Flat(ss, k - 1)) + Len(ss[k])
        /\ Len(Flat(ss, k)) <= Len(Flat(ss, m))
        /\ Occurs(ss[k], Flat(ss, m), Len(Flat(ss, k - 1)))
    BY <1>4, <2>1, FlatPlaces
  <2> DEFINE a == Len(Flat(ss, k - 1))
             u == it[k].text
  <2>3. a \in Nat /\ Len(Flat(ss, k)) \in Nat
    BY <1>5, <2>1
  <2>4. ss[k] = u /\ u \in Seq(Char)
    BY <1>1
  <2>5. Len(u) \in Nat
    BY <2>4, LenProperties
  <2>6. OffsetOf(it, k) = 1 + a /\ OffsetOf(it, k + 1) = 1 + Len(Flat(ss, k))
    BY <1>3, <2>1
  <2>7. Len(Flat(ss, k)) = a + Len(u) /\ a + Len(u) <= Len(f)
    BY <2>2, <2>4 DEF f
  <2>8. Occurs(u, f, a)
    BY <2>2, <2>4 DEF f
  <2> HIDE DEF a, u
  <2>9. Occurs(u, t, 1 + a)
    BY <1>8, <2>8, OccursWithin
  <2>10. OffsetOf(it, k + 1) = OffsetOf(it, k) + Len(u)
    BY <2>3, <2>5, <2>6, <2>7
  <2>11. Len(u) <= Len(t) - 2
    BY <1>6, <1>8, <2>3, <2>5, <2>7
  <2> QED
    BY <2>6, <2>9, <2>10, <2>11 DEF u
<1>12. ASSUME NEW k \in 1..(m + 1) PROVE OffsetOf(it, k) \in 1..(Len(t) - 1)
  <2>1. CASE k = m + 1
    BY <2>1, <1>6, <1>8, <1>10
  <2>2. CASE k # m + 1
    <3>1. k \in 1..m
      BY <2>2, <1>1
    <3>2. Occurs(it[k].text, t, OffsetOf(it, k)) /\ Len(it[k].text) <= Len(t) - 2
      BY <1>11, <3>1
    <3>3. OffsetOf(it, k) = 1 + Len(Flat(ss, k - 1)) /\ k - 1 \in 0..m
      BY <1>1, <1>3, <3>1
    <3>4. Len(Flat(ss, k - 1)) \in Nat
      BY <3>3, <1>5
    <3>5. Len(it[k].text) \in Nat /\ OffsetOf(it, k) + Len(it[k].text) <= Len(t)
      BY <3>2 DEF Occurs
    <3>6. Len(Flat(ss, k)) = Len(Flat(ss, k - 1)) + Len(ss[k]) /\ Len(Flat(ss, k)) <= Len(f)
      <4>1. k \in 1..Len(ss) /\ m \in k..Len(ss)
        BY <3>1, <1>1
      <4>2. /\ Len(Flat(ss, k)) = Len(Flat(ss, k - 1)) + Len(ss[k])
            /\ Len(Flat(ss, k)) <= Len(Flat(ss, m))
        BY <1>4, <4>1, FlatPlaces
      <4> QED
        BY <4>1, <4>2 DEF f
    <3>7. ss[k] = it[k].text
      BY <1>1, <3>1
    <3> DEFINE a == Len(Flat(ss, k - 1))
               b == Len(Flat(ss, k))
               c == Len(it[k].text)
    <3>8. a \in Nat /\ c \in Nat /\ b = a + c /\ b <= Len(f) /\ OffsetOf(it, k) = 1 + a
      BY <3>3, <3>4, <3>5, <3>6, <3>7
    <3> HIDE DEF a, b, c
    <3> QED
      BY <3>8, <1>6, <1>8
  <2> QED
    BY <2>1, <2>2
<1>13. Len(t) \in Nat /\ 2 <= Len(t) /\ t[Len(t)] = "e"
  BY <1>6, <1>8
<1> QED
  BY <1>8, <1>9, <1>10, <1>11, <1>12, <1>13 DEF it, m, t

-----------------------------------------------------------------------------
(***************************************************************************)
(* Entities.                                                               *)
(***************************************************************************)

\* The recursion of Entities().
EntityLength(s, at, i) ==
  CASE benc_entity_type(s, i) \in {"T_DICT", "T_LIST"} -> CompoundLength(s, i, at[i + 1].stops)
    [] benc_entity_type(s, i) = "T_INT" -> IntLength(s, i)
    [] benc_entity_type(s, i) = "T_STRING" -> benc_string_data_offset(s, i) + Number(s, i)
    [] OTHER -> -1
EntityStops(s, at, i, len) ==
  IF At(s, i) \in {"e", ""} THEN <<i>>
  ELSE IF len = -1 THEN <<i, -1>>
  ELSE IF i + len \notin (i + 1)..Len(s) THEN <<i, i + len>>
  ELSE <<i>> \o at[i + len].stops
EntityAt(s, at, i) ==
  [len |-> EntityLength(s, at, i), stops |-> EntityStops(s, at, i, EntityLength(s, at, i))]
Filled(s, at) == at = [i \in 0..Len(s) |-> EntityAt(s, at, i)]

\* The type of an entity, by its first character.
LEMMA TypeIs ==
  ASSUME NEW s, NEW i
  PROVE  /\ benc_entity_type(s, i) = "T_DICT" <=> At(s, i) = "d"
         /\ benc_entity_type(s, i) = "T_LIST" <=> At(s, i) = "l"
         /\ benc_entity_type(s, i) = "T_INT" <=> At(s, i) = "i"
         /\ benc_entity_type(s, i) = "T_STRING" <=>
              /\ At(s, i) \notin {"d", "l", "i"} /\ DigitsAt(s, i) > 0
              /\ At(s, i + DigitsAt(s, i)) = ":"
BY DEF benc_entity_type

\* There is a character where an entity begins that is no string.
LEMMA InText ==
  ASSUME NEW s, Len(s) \in Nat, NEW i, At(s, i) # ""
  PROVE  i \in 0..(Len(s) - 1)
BY DEF At

\* What is at i depends on what is behind it.
LEMMA EntityLocal ==
  ASSUME NEW s, Len(s) \in Nat, NEW i \in 0..Len(s), NEW g, NEW h,
         \A j \in (i + 1)..Len(s) : g[j] = h[j]
  PROVE  EntityAt(s, g, i) = EntityAt(s, h, i)
<1>1. EntityLength(s, g, i) = EntityLength(s, h, i)
  <2>1. CASE benc_entity_type(s, i) \in {"T_DICT", "T_LIST"}
    <3>1. At(s, i) # ""
      BY <2>1, TypeIs
    <3>4. i \in 0..(Len(s) - 1)
      BY <3>1, InText
    <3>2. i + 1 \in (i + 1)..Len(s)
      BY <3>4
    <3>3. g[i + 1] = h[i + 1]
      BY <3>2
    <3> QED
      BY <3>3 DEF EntityLength
  <2>2. CASE benc_entity_type(s, i) \notin {"T_DICT", "T_LIST"}
    BY <2>2 DEF EntityLength
  <2> QED
    BY <2>1, <2>2
<1> DEFINE len == EntityLength(s, h, i)
<1>2. EntityStops(s, g, i, len) = EntityStops(s, h, i, len)
  <2> HIDE DEF len
  <2>1. CASE i + len \in (i + 1)..Len(s)
    <3>1. g[i + len] = h[i + len]
      BY <2>1
    <3> QED
      BY <3>1 DEF EntityStops
  <2>2. CASE i + len \notin (i + 1)..Len(s)
    BY <2>2 DEF EntityStops
  <2> QED
    BY <2>1, <2>2
<1> QED
  BY <1>1, <1>2 DEF EntityAt

\* There is such a function.
LEMMA FilledExists ==
  ASSUME NEW s, Len(s) \in Nat
  PROVE  \E at : Filled(s, at)
<1> DEFINE N == Len(s)
           Partial(k) == \E g : \A i \in k..N : g[i] = EntityAt(s, g, i)
           S == {k \in 0..N : Partial(k)}
<1>l. N \in Nat
  OBVIOUS
<1> HIDE DEF N
<1>1. ASSUME NEW k \in 0..N, \A j \in (k + 1)..N : j \in S PROVE k \in S
  <2>1. \E g : \A i \in (k + 1)..N : g[i] = EntityAt(s, g, i)
    <3>1. CASE k = N
      BY <3>1, <1>l
    <3>2. CASE k # N
      <4>1. k + 1 \in (k + 1)..N
        BY <3>2, <1>l
      <4>2. k + 1 \in S
        BY <4>1, <1>1
      <4> QED
        BY <4>2
    <3> QED
      BY <3>1, <3>2
  <2>2. PICK g : \A i \in (k + 1)..N : g[i] = EntityAt(s, g, i)
    BY <2>1
  <2> DEFINE h == [i \in k..N |-> IF i = k THEN EntityAt(s, g, k) ELSE g[i]]
  <2>3. \A i \in (k + 1)..N : i \in k..N /\ i # k
    BY <1>l
  <2>4. \A i \in (k + 1)..N : h[i] = g[i]
    BY <2>3
  <2>5. k \in k..N
    BY <1>l
  <2>6. h[k] = EntityAt(s, g, k)
    BY <2>5
  <2> HIDE DEF h
  <2>7. ASSUME NEW i \in k..N PROVE h[i] = EntityAt(s, h, i)
    <3>1. \A j \in (i + 1)..Len(s) : j \in (k + 1)..N
      BY <1>l DEF N
    <3>2. \A j \in (i + 1)..Len(s) : g[j] = h[j]
      BY <3>1, <2>4
    <3>3. i \in 0..Len(s) /\ Len(s) \in Nat
      BY <1>l DEF N
    <3>4. EntityAt(s, g, i) = EntityAt(s, h, i)
      BY <3>2, <3>3, EntityLocal
    <3>5. CASE i = k
      BY <3>4, <3>5, <2>6
    <3>6. CASE i # k
      <4>1. i \in (k + 1)..N
        BY <3>6, <1>l
      <4> QED
        BY <4>1, <3>4, <2>2, <2>4
    <3> QED
      BY <3>5, <3>6
  <2>8. Partial(k)
    BY <2>7
  <2> HIDE DEF Partial
  <2> QED
    BY <2>8
<1>2. Partial(0)
  <2>1. 0 \in 0..N /\ 0 \in Nat
    BY <1>l
  <2> HIDE DEF S
  <2>2. \A k \in 0..N : k \in S
    BY <1>1, <1>l, <2>1, Downwards
  <2>3. 0 \in S
    BY <2>1, <2>2
  <2> USE DEF S
  <2> HIDE DEF Partial
  <2> QED
    BY <2>3
<1>3. PICK g : \A i \in 0..N : g[i] = EntityAt(s, g, i)
  BY <1>2
<1> DEFINE u == [i \in 0..N |-> g[i]]
<1>4. ASSUME NEW i \in 0..N PROVE u[i] = EntityAt(s, u, i)
  <2>1. \A j \in (i + 1)..Len(s) : j \in 0..N
    BY <1>l DEF N
  <2>2. \A j \in (i + 1)..Len(s) : g[j] = u[j]
    BY <2>1
  <2>3. u[i] = g[i]
    OBVIOUS
  <2>4. i \in 0..Len(s) /\ Len(s) \in Nat
    BY <1>l DEF N
  <2> HIDE DEF u
  <2>5. EntityAt(s, g, i) = EntityAt(s, u, i)
    BY <2>2, <2>4, EntityLocal
  <2> QED
    BY <2>3, <2>5, <1>3
<1>5. u = [i \in 0..N |-> EntityAt(s, u, i)]
  BY <1>4
<1> QED
  BY <1>5 DEF Filled, N

\* What Entities() has at i.
LEMMA EntitiesAt ==
  ASSUME NEW s, Len(s) \in Nat, NEW i \in 0..Len(s)
  PROVE  /\ Entities(s)[i].len = EntityLength(s, Entities(s), i)
         /\ Entities(s)[i].stops = EntityStops(s, Entities(s), i, Entities(s)[i].len)
<1> DEFINE f == CHOOSE at : Filled(s, at)
<1>1. Filled(s, f)
  BY FilledExists
<1>2. Entities(s) = f
  BY DEF Entities, Filled, EntityAt, EntityLength, EntityStops
<1> HIDE DEF f
<1>3. f[i] = EntityAt(s, f, i)
  BY <1>1 DEF Filled
<1> QED
  BY <1>2, <1>3 DEF EntityAt

\* A sequence over a set is one over a larger set.
LEMMA SeqLarger ==
  ASSUME NEW S, NEW T, S \subseteq T, NEW s \in Seq(S)
  PROVE  s \in Seq(T)
<1>1. Len(s) \in Nat /\ s \in [1..Len(s) -> S]
  BY LenProperties
<1>2. s \in [1..Len(s) -> T]
  BY <1>1
<1> QED
  BY <1>1, <1>2, SeqDef

\* The text of a number is text, and begins with a digit.
LEMMA DecimalText ==
  ASSUME NEW n \in Nat
  PROVE  /\ Decimal(n) \in Seq(Char) /\ Len(Decimal(n)) \in Nat /\ 1 <= Len(Decimal(n))
         /\ Decimal(n)[1] \in Digit /\ (Len(Decimal(n)) = 1 <=> n < 10)
<1> DEFINE d == Decimal(n)
<1>1. d \in Seq(Digit) /\ Len(d) \in Nat /\ 1 <= Len(d) /\ (Len(d) = 1 <=> n < 10)
  BY DecimalWrites DEF Writes
<1> HIDE DEF d
<1>2. Digit \subseteq Char
  BY CharAssumption
<1>3. d \in Seq(Char)
  BY <1>1, <1>2, SeqLarger
<1>4. 1 \in 1..Len(d)
  BY <1>1
<1>5. d[1] \in Digit
  BY <1>1, <1>4, ElementOfSeq
<1> QED
  BY <1>1, <1>3, <1>5 DEF d

\* An integer of one digit is taken for an error.
LEMMA ReadIs ==
  ASSUME NEW v \in Int
  PROVE  Read(v) = IF v < 0 \/ ~(v < 10) THEN v ELSE -1
BY DEF Read

\* A text between two characters.
IsWrapped(t, a, f, z) == t = <<a>> \o f \o <<z>>

\* The same of a text that is one.
LEMMA WrappedParts ==
  ASSUME NEW S, NEW a \in S, NEW f \in Seq(S), NEW z \in S, NEW t, IsWrapped(t, a, f, z)
  PROVE  /\ t \in Seq(S) /\ Len(t) = Len(f) + 2 /\ t[1] = a /\ t[Len(f) + 2] = z
         /\ Occurs(f, t, 1)
BY Wrapped DEF IsWrapped

\* An integer is found, with its extent and its value.
LEMMA IntFound ==
  ASSUME NEW v \in Int, NEW t, IsWrapped(t, "i", Signed(v), "e"),
         NEW s, NEW i, Occurs(t, s, i)
  PROVE  /\ benc_entity_type(s, i) = "T_INT" /\ At(s, i) \notin {"e", ""}
         /\ IntLength(s, i) = Len(t) /\ Len(t) \in Nat /\ 1 <= Len(t)
         /\ benc_int_value(s, i, -1) = Read(v)
<1>c. "i" \in Char /\ "e" \in Char /\ "-" \in Char
  BY CharAssumption
<1>i. i \in Nat /\ Len(s) \in Nat
  BY DEF Occurs
<1>1. CASE v < 0
  <2> DEFINE d == Decimal(-v)
             m == <<"-">> \o d
             L == Len(d)
  <2>1. -v \in Nat
    BY <1>1
  <2>2. d \in Seq(Char) /\ L \in Nat /\ 1 <= L
    BY <2>1, DecimalText
  <2>3. IsWrapped(t, "i", m, "e")
    BY <1>1 DEF Signed
  <2> HIDE DEF d
  <2> DEFINE x == <<"-">>
  <2>4. x \in Seq(Char) /\ Len(x) = 1 /\ x[1] = "-"
    BY <1>c
  <2>5. m = x \o d
    OBVIOUS
  <2> HIDE DEF x, m
  <2>6. Occurs(x, m, 0) /\ Occurs(d, m, 1) /\ m \in Seq(Char) /\ Len(m) = L + 1
    <3>1. Occurs(x, x \o d, 0) /\ Occurs(d, x \o d, Len(x))
      BY <2>2, <2>4, OccursParts
    <3>2. m \in Seq(Char) /\ Len(m) = Len(x) + Len(d)
      BY <2>2, <2>4, <2>5, ConcatProperties
    <3> QED
      BY <2>2, <2>4, <2>5, <3>1, <3>2
  <2>7. /\ Len(t) = Len(m) + 2 /\ t[1] = "i" /\ t[Len(m) + 2] = "e" /\ Occurs(m, t, 1)
    BY <1>c, <2>3, <2>6, WrappedParts
  <2>8. \A k \in 1..Len(t) : At(s, i + k - 1) = t[k]
    BY OccursAt
  <2>9. Len(t) = L + 3 /\ 1 \in 1..Len(t) /\ Len(m) + 2 \in 1..Len(t) /\ i + 1 - 1 = i
        /\ i + (Len(m) + 2) - 1 = (i + 2) + L
    BY <1>i, <2>2, <2>6, <2>7
  <2>10. At(s, i) = "i"
    BY <2>7, <2>8, <2>9
  <2>11. At(s, (i + 2) + L) = "e"
    BY <2>7, <2>8, <2>9
  <2>12. Occurs(m, s, i + 1)
    BY <2>7, OccursWithin
  <2>13. Occurs(x, s, (i + 1) + 0) /\ Occurs(d, s, (i + 1) + 1)
    BY <2>6, <2>12, OccursWithin
  <2>14. Occurs(x, s, i + 1) /\ Occurs(d, s, i + 2)
    <3>1. (i + 1) + 0 = i + 1 /\ (i + 1) + 1 = i + 2
      BY <1>i
    <3> QED
      BY <2>13, <3>1
  <2>15. At(s, i + 1) = "-"
    <3>1. \A k \in 1..Len(x) : At(s, (i + 1) + k - 1) = x[k]
      BY <2>14, OccursAt
    <3>2. 1 \in 1..Len(x) /\ (i + 1) + 1 - 1 = i + 1
      BY <1>i, <2>4
    <3> QED
      BY <3>1, <3>2, <2>4
  <2>16. DigitsAt(s, i + 2) = L /\ Number(s, i + 2) = -v
    <3>1. At(s, (i + 2) + Len(Decimal(-v))) \notin Digit
      BY <2>11, DigitTable DEF d
    <3>2. Occurs(Decimal(-v), s, i + 2)
      BY <2>14 DEF d
    <3> QED
      BY <2>1, <3>1, <3>2, DecimalFound DEF d
  <2> HIDE DEF L
  <2>17. benc_entity_type(s, i) = "T_INT"
    BY <2>10, TypeIs
  <2>18. IntLength(s, i) = L + 3
    <3>1. i + 1 + 1 = i + 2 /\ i + (1 + 1 + L) = (i + 2) + L /\ (1 + 1 + L) + 1 = L + 3
      BY <1>i, <2>2
    <3> QED
      BY <2>11, <2>15, <2>16, <3>1 DEF IntLength
  <2>19. benc_int_value(s, i, -1) = v
    <3>1. i + 1 + 1 = i + 2 /\ i + (1 + L) + 1 = (i + 2) + L /\ ~(1 + L <= 1) /\ (-1) * (-v) = v
      BY <1>i, <2>2
    <3> QED
      BY <2>11, <2>15, <2>16, <2>17, <3>1 DEF benc_int_value
  <2>20. Read(v) = v
    BY <1>1, ReadIs
  <2> QED
    BY <2>2, <2>9, <2>10, <2>17, <2>18, <2>19, <2>20
<1>2. CASE ~(v < 0)
  <2> DEFINE d == Decimal(v)
             L == Len(d)
  <2>1. v \in Nat
    BY <1>2
  <2>2. d \in Seq(Char) /\ L \in Nat /\ 1 <= L /\ d[1] \in Digit /\ (L = 1 <=> v < 10)
    BY <2>1, DecimalText
  <2>3. IsWrapped(t, "i", d, "e")
    BY <1>2 DEF Signed
  <2> HIDE DEF d
  <2>7. /\ Len(t) = L + 2 /\ t[1] = "i" /\ t[L + 2] = "e" /\ Occurs(d, t, 1)
    BY <1>c, <2>2, <2>3, WrappedParts
  <2>8. \A k \in 1..Len(t) : At(s, i + k - 1) = t[k]
    BY OccursAt
  <2>9. 1 \in 1..Len(t) /\ L + 2 \in 1..Len(t) /\ i + 1 - 1 = i
        /\ i + (L + 2) - 1 = (i + 1) + L
    BY <1>i, <2>2, <2>7
  <2>10. At(s, i) = "i"
    BY <2>7, <2>8, <2>9
  <2>11. At(s, (i + 1) + L) = "e"
    BY <2>7, <2>8, <2>9
  <2>12. Occurs(d, s, i + 1)
    BY <2>7, OccursWithin
  <2>15. At(s, i + 1) # "-"
    <3>1. \A k \in 1..Len(d) : At(s, (i + 1) + k - 1) = d[k]
      BY <2>12, OccursAt
    <3>2. 1 \in 1..Len(d) /\ (i + 1) + 1 - 1 = i + 1
      BY <1>i, <2>2
    <3>3. At(s, i + 1) = d[1]
      BY <3>1, <3>2
    <3> QED
      BY <2>2, <3>3, DigitTable
  <2>16. DigitsAt(s, i + 1) = L /\ Number(s, i + 1) = v
    <3>1. At(s, (i + 1) + Len(Decimal(v))) \notin Digit
      BY <2>11, DigitTable DEF d
    <3>2. Occurs(Decimal(v), s, i + 1)
      BY <2>12 DEF d
    <3> QED
      BY <2>1, <3>1, <3>2, DecimalFound DEF d
  <2> HIDE DEF L
  <2>17. benc_entity_type(s, i) = "T_INT"
    BY <2>10, TypeIs
  <2>18. IntLength(s, i) = L + 2
    <3>1. i + 1 + 0 = i + 1 /\ i + (1 + 0 + L) = (i + 1) + L /\ (1 + 0 + L) + 1 = L + 2
      BY <1>i, <2>2
    <3> QED
      BY <2>11, <2>15, <2>16, <3>1 DEF IntLength
  <2>19. benc_int_value(s, i, -1) = IF L <= 1 THEN -1 ELSE v
    <3>1. i + 1 + 0 = i + 1 /\ i + (0 + L) + 1 = (i + 1) + L /\ 0 + L = L /\ 1 * v = v
      BY <1>i, <2>1, <2>2
    <3> QED
      BY <2>11, <2>15, <2>16, <2>17, <3>1 DEF benc_int_value
  <2>20. Read(v) = IF v < 10 THEN -1 ELSE v
    BY <1>2, ReadIs
  <2>21. (L <= 1) <=> v < 10
    BY <2>2
  <2>22. Len(t) = L + 2 /\ Len(t) \in Nat /\ 1 <= Len(t)
    BY <2>2, <2>7
  <2> QED
    BY <2>10, <2>17, <2>18, <2>19, <2>20, <2>21, <2>22
<1> QED
  BY <1>1, <1>2

\* A string is found, with its extent and its characters.
LEMMA StringFound ==
  ASSUME NEW v \in Seq(Char), NEW s \in Seq(Char), NEW i, Occurs(Counts(v), s, i)
  PROVE  /\ benc_entity_type(s, i) = "T_STRING" /\ At(s, i) \notin {"e", ""}
         /\ benc_string_data_offset(s, i) + Number(s, i) = Len(Counts(v))
         /\ Len(Counts(v)) \in Nat /\ 1 <= Len(Counts(v))
         /\ Number(s, i) = Len(v) /\ StringData(s, i) = v
<1> DEFINE n == Len(v)
           d == Decimal(n)
           L == Len(d)
           y == d \o <<":">>
           t == Counts(v)
<1>0. n \in Nat /\ v \in Seq(Char)
  BY LenProperties
<1>1. d \in Seq(Char) /\ L \in Nat /\ 1 <= L /\ d[1] \in Digit
  BY <1>0, DecimalText
<1>c. ":" \in Char
  BY CharAssumption
<1>i. i \in Nat /\ Len(s) \in Nat /\ s \in Seq(Char) /\ Occurs(t, s, i)
  BY DEF Occurs
<1>2. t = y \o v
  BY DEF Counts
<1> HIDE DEF d, t
<1>3. /\ y \in Seq(Char) /\ Len(y) = L + 1
      /\ \A j \in 1..L : y[j] = d[j]
      /\ y[L + 1] = ":"
  BY <1>1, <1>c, OneMore
<1> HIDE DEF y
<1>4. Occurs(d, y, 0)
  BY <1>1, <1>3 DEF Occurs
<1> HIDE DEF L
<1>5. Occurs(y, t, 0) /\ Occurs(v, t, L + 1)
  BY <1>0, <1>2, <1>3, OccursParts
<1>6. Len(t) = Len(y) + n
  BY <1>0, <1>2, <1>3, ConcatProperties
<1>7. Occurs(y, s, i) /\ Occurs(v, s, i + L + 1)
  <2>1. Occurs(y, s, i + 0) /\ Occurs(v, s, i + (L + 1))
    BY <1>i, <1>5, OccursWithin
  <2>2. i + 0 = i /\ i + (L + 1) = i + L + 1
    BY <1>i, <1>1
  <2> QED
    BY <2>1, <2>2
<1>8. Occurs(d, s, i)
  <2>1. Occurs(d, s, i + 0)
    BY <1>4, <1>7, OccursWithin
  <2>2. i + 0 = i
    BY <1>i
  <2> QED
    BY <2>1, <2>2
<1>9. At(s, i) = d[1] /\ At(s, i + L) = ":"
  <2>1. \A k \in 1..Len(y) : At(s, i + k - 1) = y[k]
    BY <1>7, OccursAt
  <2>2. 1 \in 1..Len(y) /\ L + 1 \in 1..Len(y) /\ i + 1 - 1 = i /\ i + (L + 1) - 1 = i + L
        /\ 1 \in 1..L
    BY <1>i, <1>1, <1>3
  <2>3. At(s, i) = y[1] /\ At(s, i + L) = y[L + 1]
    BY <2>1, <2>2
  <2> QED
    BY <2>2, <2>3, <1>3
<1>10. DigitsAt(s, i) = L /\ Number(s, i) = n
  <2>1. At(s, i + Len(Decimal(n))) \notin Digit
    BY <1>9, DigitTable DEF L, d
  <2>2. Occurs(Decimal(n), s, i)
    BY <1>8 DEF d
  <2>3. DigitsAt(s, i) = Len(Decimal(n)) /\ Number(s, i) = n
    BY <1>0, <2>1, <2>2, DecimalFound
  <2> QED
    BY <2>3 DEF L, d
<1>11. At(s, i) \notin {"d", "l", "i", "e", ""}
  BY <1>1, <1>9, DigitTable
<1>12. benc_entity_type(s, i) = "T_STRING"
  <2>1. DigitsAt(s, i) > 0
    BY <1>1, <1>10
  <2>2. At(s, i + DigitsAt(s, i)) = ":"
    BY <1>9, <1>10
  <2>3. At(s, i) \notin {"d", "l", "i"}
    BY <1>11
  <2> QED
    BY <2>1, <2>2, <2>3, TypeIs
<1>13. benc_string_data_offset(s, i) = L + 1 /\ benc_string_length(s, i) = n
  BY <1>10, <1>12 DEF benc_string_data_offset, benc_string_length, IsKey
<1>14. StringData(s, i) = v
  <2> DEFINE a == i + (L + 1)
  <2>1. StringData(s, i) = SubSeq(s, a + 1, a + n)
    BY <1>13 DEF StringData
  <2>2. Occurs(v, s, a)
    <3>1. a = i + L + 1
      BY <1>1, <1>i
    <3> QED
      BY <1>7, <3>1
  <2>3. a \in Nat
    BY <1>1, <1>i
  <2> HIDE DEF a
  <2>4. a + n <= Len(s) /\ \A k \in 1..n : s[a + k] = v[k]
    BY <2>2 DEF Occurs
  <2>5. a + 1 \in 1..(Len(s) + 1) /\ a + n \in 0..Len(s) /\ n = (a + n) - (a + 1) + 1
    BY <1>0, <1>i, <2>3, <2>4
  <2>6. \A k \in 1..n : s[(a + 1) + k - 1] = v[k]
    <3>1. \A k \in 1..n : (a + 1) + k - 1 = a + k
      BY <2>3
    <3> QED
      BY <2>4, <3>1
  <2> DEFINE b == a + 1
             z == a + n
  <2>7. /\ b \in 1..(Len(s) + 1) /\ z \in 0..Len(s) /\ Len(v) = z - b + 1
        /\ \A k \in 1..Len(v) : v[k] = s[b + k - 1]
    BY <2>5, <2>6
  <2> HIDE DEF b, z
  <2>8. SubSeq(s, b, z) = v
    BY <2>7, SliceIs
  <2> QED
    BY <2>1, <2>8 DEF b, z
<1>15. (L + 1) + n = Len(t) /\ Len(t) \in Nat /\ 1 <= Len(t)
  BY <1>0, <1>1, <1>3, <1>6
<1> QED
  BY <1>10, <1>11, <1>12, <1>13, <1>14, <1>15 DEF t

\* An element in front of a sequence.
LEMMA OneBefore ==
  ASSUME NEW S, NEW a \in S, NEW f \in Seq(S)
  PROVE  /\ <<a>> \o f \in Seq(S) /\ Len(<<a>> \o f) = Len(f) + 1 /\ (<<a>> \o f)[1] = a
         /\ \A c \in 1..Len(f) : (<<a>> \o f)[c + 1] = f[c]
<1> DEFINE x == <<a>>
           y == x \o f
<1>1. x \in Seq(S) /\ Len(x) = 1 /\ x[1] = a
  OBVIOUS
<1>2. y = x \o f /\ f \in Seq(S) /\ Len(f) \in Nat
  BY LenProperties
<1> HIDE DEF x, y
<1>3. /\ y \in Seq(S) /\ Len(y) = Len(x) + Len(f)
      /\ \A i \in 1..(Len(x) + Len(f)) : y[i] = IF i <= Len(x) THEN x[i] ELSE f[i - Len(x)]
  BY <1>1, <1>2, ConcatProperties
<1>4. /\ y \in Seq(S) /\ Len(y) = Len(f) + 1
      /\ \A i \in 1..(Len(f) + 1) : y[i] = IF i <= 1 THEN x[i] ELSE f[i - 1]
  BY <1>1, <1>2, <1>3
<1>5. y[1] = a
  BY <1>1, <1>2, <1>4
<1>6. ASSUME NEW c \in 1..Len(f) PROVE y[c + 1] = f[c]
  <2>1. c + 1 \in 1..(Len(f) + 1) /\ ~(c + 1 <= 1) /\ (c + 1) - 1 = c
    BY <1>2
  <2>2. y[c + 1] = f[(c + 1) - 1]
    BY <2>1, <1>4
  <2> QED
    BY <2>1, <2>2
<1> QED
  BY <1>4, <1>5, <1>6 DEF y, x

\* The node n is found at i.
Found(n, s, i) ==
  /\ benc_entity_type(s, i) = n.type /\ At(s, i) \notin {"e", ""}
  /\ benc_entity_length(s, i) = Len(n.text) /\ Len(n.text) \in Nat /\ 1 <= Len(n.text)

\* The walk over the items of a list or a dictionary stops at each of them and at
\* its end.
LEMMA ItemStops ==
  ASSUME NEW N, Closed(N), NEW n \in N, Shut(n), NEW s, NEW i, Occurs(n.text, s, i),
         \A k \in 1..Len(n.items) : Found(n.items[k], s, i + OffsetOf(n.items, k))
  PROVE  /\ Items(s, i) \in Seq(Int) /\ Len(Items(s, i)) = Len(n.items) + 1
         /\ \A c \in 1..(Len(n.items) + 1) : Items(s, i)[c] = i + OffsetOf(n.items, c)
         /\ At(s, i + OffsetOf(n.items, Len(n.items) + 1)) = "e"
<1> DEFINE it == n.items
           m == Len(it)
           t == n.text
           E == Entities(s)
           p == [k \in 1..(m + 1) |-> i + OffsetOf(it, k)]
           w == [k \in 1..m |-> Len(it[k].text)]
<1>1. m \in Nat
  BY ItemTexts
<1>2. /\ Len(t) \in Nat /\ 2 <= Len(t) /\ t[Len(t)] = "e"
      /\ OffsetOf(it, 1) = 1 /\ OffsetOf(it, m + 1) = Len(t) - 1
  BY CompoundShape
<1>3. \A k \in 1..(m + 1) : OffsetOf(it, k) \in 1..(Len(t) - 1)
  BY CompoundShape
<1>4. \A k \in 1..m : OffsetOf(it, k + 1) = OffsetOf(it, k) + Len(it[k].text)
  BY CompoundShape
<1>5. i \in Nat /\ Len(s) \in Nat /\ i + Len(t) <= Len(s)
  BY DEF Occurs
<1>6. \A k \in 1..m : Found(it[k], s, i + OffsetOf(it, k))
  OBVIOUS
<1>7. At(s, i + Len(t) - 1) = "e"
  <2>1. \A k \in 1..Len(t) : At(s, i + k - 1) = t[k]
    BY OccursAt
  <2>2. Len(t) \in 1..Len(t)
    BY <1>2
  <2> QED
    BY <2>1, <2>2, <1>2
<1> HIDE DEF it, m, t
<1>8. \A k \in 1..(m + 1) : p[k] \in 1..Len(s)
  <2> SUFFICES ASSUME NEW k \in 1..(m + 1) PROVE p[k] \in 1..Len(s)
    OBVIOUS
  <2>1. p[k] = i + OffsetOf(it, k) /\ OffsetOf(it, k) \in 1..(Len(t) - 1)
    BY <1>3
  <2> QED
    BY <2>1, <1>2, <1>5
<1>9. ASSUME NEW k \in 1..m
      PROVE  /\ w[k] \in Nat /\ 1 <= w[k] /\ p[k + 1] = p[k] + w[k]
             /\ At(s, p[k]) \notin {"e", ""} /\ E[p[k]].len = w[k]
  <2>1. k \in 1..(m + 1) /\ k + 1 \in 1..(m + 1)
    BY <1>1
  <2>2. p[k] = i + OffsetOf(it, k) /\ p[k + 1] = i + OffsetOf(it, k + 1) /\ w[k] = Len(it[k].text)
    BY <2>1
  <2>3. Found(it[k], s, p[k])
    BY <1>6, <2>2
  <2>4. /\ At(s, p[k]) \notin {"e", ""} /\ E[p[k]].len = w[k] /\ w[k] \in Nat /\ 1 <= w[k]
    BY <2>2, <2>3 DEF Found, benc_entity_length
  <2>5. OffsetOf(it, k + 1) = OffsetOf(it, k) + w[k]
    BY <1>4, <2>2
  <2>6. OffsetOf(it, k) \in Nat
    BY <1>3, <2>1, <1>2
  <2>7. p[k + 1] = p[k] + w[k]
    <3> DEFINE x == OffsetOf(it, k)
               y == OffsetOf(it, k + 1)
               d == w[k]
    <3>1. p[k] = i + x /\ p[k + 1] = i + y /\ y = x + d /\ x \in Nat /\ d \in Nat /\ i \in Nat
      BY <2>2, <2>4, <2>5, <2>6, <1>5
    <3> HIDE DEF x, y, d, p
    <3>2. p[k + 1] = p[k] + d
      BY <3>1
    <3> QED
      BY <3>2 DEF d
  <2> QED
    BY <2>4, <2>7
<1>10. p[1] = i + 1 /\ p[m + 1] = i + Len(t) - 1
  <2>1. 1 \in 1..(m + 1) /\ m + 1 \in 1..(m + 1)
    BY <1>1
  <2>2. p[1] = i + OffsetOf(it, 1) /\ p[m + 1] = i + OffsetOf(it, m + 1)
    BY <2>1
  <2> QED
    BY <2>2, <1>2, <1>5
<1> HIDE DEF p, w
<1> DEFINE Walk(k) == /\ E[p[k]].stops \in Seq(Int) /\ Len(E[p[k]].stops) = m + 2 - k
                      /\ \A c \in 1..(m + 2 - k) : E[p[k]].stops[c] = p[k - 1 + c]
           T == {k \in 1..(m + 1) : Walk(k)}
<1>11. \A k \in 1..(m + 1) : E[p[k]].stops = EntityStops(s, E, p[k], E[p[k]].len)
  <2> SUFFICES ASSUME NEW k \in 1..(m + 1)
               PROVE  E[p[k]].stops = EntityStops(s, E, p[k], E[p[k]].len)
    OBVIOUS
  <2>1. p[k] \in 0..Len(s)
    BY <1>5, <1>8
  <2> QED
    BY <2>1, <1>5, EntitiesAt
<1> HIDE DEF E
<1>12. Walk(m + 1)
  <2>1. m + 1 \in 1..(m + 1)
    BY <1>1
  <2> DEFINE a == p[m + 1]
             st == E[a].stops
  <2>2. At(s, a) = "e"
    BY <1>7, <1>10
  <2>3. st = <<a>>
    BY <1>11, <2>1, <2>2 DEF EntityStops
  <2>4. a \in Int
    BY <1>8, <2>1
  <2> HIDE DEF a
  <2>5. st \in Seq(Int) /\ Len(st) = 1 /\ st[1] = a
    BY <2>3, <2>4
  <2> HIDE DEF st
  <2>6. m + 2 - (m + 1) = 1 /\ (m + 1) - 1 + 1 = m + 1
    BY <1>1
  <2>7. \A c \in 1..(m + 2 - (m + 1)) : c = 1
    BY <2>6
  <2>8. \A c \in 1..(m + 2 - (m + 1)) : st[c] = p[(m + 1) - 1 + c]
    BY <2>5, <2>6, <2>7 DEF a
  <2> QED
    BY <2>5, <2>6, <2>8 DEF st, a
<1>13. ASSUME NEW k \in 1..m, Walk(k + 1) PROVE Walk(k)
  <2> DEFINE a == p[k]
             b == p[k + 1]
             st == E[b].stops
             new == E[a].stops
  <2>1. k \in 1..(m + 1) /\ k + 1 \in 1..(m + 1) /\ m + 2 - (k + 1) = m + 1 - k
    BY <1>1
  <2>2. /\ w[k] \in Nat /\ 1 <= w[k] /\ b = a + w[k]
        /\ At(s, a) \notin {"e", ""} /\ E[a].len = w[k]
    BY <1>9
  <2>3. a \in 1..Len(s) /\ b \in 1..Len(s) /\ a \in Int
    BY <1>5, <1>8, <2>1
  <2>4. new = EntityStops(s, E, a, w[k])
    BY <1>11, <2>1, <2>2
  <2>5. a + w[k] \in (a + 1)..Len(s) /\ w[k] # -1
    <3> DEFINE d == w[k]
    <3>1. d \in Nat /\ 1 <= d /\ b = a + d /\ a \in 1..Len(s) /\ b \in 1..Len(s) /\ Len(s) \in Nat
      BY <1>5, <2>2, <2>3
    <3> HIDE DEF a, b, d
    <3>2. a + d \in (a + 1)..Len(s) /\ d # -1
      BY <3>1
    <3> QED
      BY <3>2 DEF d
  <2>6. new = <<a>> \o st
    BY <2>2, <2>4, <2>5 DEF EntityStops
  <2>7. /\ st \in Seq(Int) /\ Len(st) = m + 1 - k
        /\ \A c \in 1..(m + 1 - k) : st[c] = p[k + c]
    <3>1. /\ st \in Seq(Int) /\ Len(st) = m + 2 - (k + 1)
          /\ \A c \in 1..(m + 2 - (k + 1)) : st[c] = p[(k + 1) - 1 + c]
      BY <1>13
    <3>2. \A c \in 1..(m + 1 - k) : (k + 1) - 1 + c = k + c
      OBVIOUS
    <3> QED
      BY <2>1, <3>1, <3>2
  <2> HIDE DEF b, st
  <2>8. /\ new \in Seq(Int) /\ Len(new) = Len(st) + 1 /\ new[1] = a
        /\ \A c \in 1..Len(st) : new[c + 1] = st[c]
    <3> HIDE DEF a, new
    <3> QED
      BY <2>3, <2>6, <2>7, OneBefore
  <2> HIDE DEF new
  <2>9. Len(new) = m + 2 - k
    BY <1>1, <2>7, <2>8
  <2>10. ASSUME NEW c \in 1..(m + 2 - k) PROVE new[c] = p[k - 1 + c]
    <3>1. CASE c = 1
      <4>1. k - 1 + c = k
        BY <3>1
      <4> QED
        BY <3>1, <4>1, <2>8
    <3>2. CASE c # 1
      <4>1. c - 1 \in 1..Len(st) /\ c - 1 \in 1..(m + 1 - k) /\ (c - 1) + 1 = c
            /\ k + (c - 1) = k - 1 + c
        BY <1>1, <3>2, <2>7
      <4>2. new[(c - 1) + 1] = st[c - 1]
        BY <2>8, <4>1
      <4>3. st[c - 1] = p[k + (c - 1)]
        BY <2>7, <4>1
      <4> QED
        BY <4>1, <4>2, <4>3
    <3> QED
      BY <3>1, <3>2
  <2> QED
    BY <2>8, <2>9, <2>10 DEF new
<1>14. Walk(1)
  <2>1. ASSUME NEW k \in 1..(m + 1), \A j \in (k + 1)..(m + 1) : j \in T PROVE k \in T
    <3>1. CASE k = m + 1
      <4> HIDE DEF Walk
      <4> QED
        BY <1>12, <3>1
    <3>2. CASE k # m + 1
      <4>1. k \in 1..m /\ k + 1 \in (k + 1)..(m + 1)
        BY <1>1, <3>2
      <4>2. k + 1 \in T
        BY <2>1, <4>1
      <4>3. Walk(k + 1)
        <5> HIDE DEF Walk
        <5> QED
          BY <4>2
      <4>4. Walk(k)
        BY <1>13, <4>1, <4>3
      <4> HIDE DEF Walk
      <4> QED
        BY <4>4
    <3> QED
      BY <3>1, <3>2
  <2>2. 1 \in Nat /\ m + 1 \in Nat /\ 1 \in 1..(m + 1)
    BY <1>1
  <2> HIDE DEF T
  <2>3. \A k \in 1..(m + 1) : k \in T
    BY <2>1, <2>2, Downwards
  <2>4. 1 \in T
    BY <2>2, <2>3
  <2> USE DEF T
  <2> HIDE DEF Walk
  <2> QED
    BY <2>4
<1>15. Items(s, i) = E[p[1]].stops
  BY <1>10 DEF Items, E
<1> DEFINE st == Items(s, i)
<1>16. /\ st \in Seq(Int) /\ Len(st) = m + 2 - 1
       /\ \A c \in 1..(m + 2 - 1) : st[c] = p[1 - 1 + c]
  BY <1>14, <1>15
<1> HIDE DEF st, T, Walk
<1>17. m + 2 - 1 = m + 1 /\ \A c \in 1..(m + 1) : 1 - 1 + c = c
  BY <1>1
<1>18. /\ st \in Seq(Int) /\ Len(st) = m + 1 /\ \A c \in 1..(m + 1) : st[c] = p[c]
  BY <1>16, <1>17
<1>19. \A c \in 1..(m + 1) : st[c] = i + OffsetOf(it, c)
  BY <1>18 DEF p
<1>20. At(s, i + OffsetOf(it, m + 1)) = "e"
  <2>1. i + OffsetOf(it, m + 1) = i + Len(t) - 1
    BY <1>2, <1>5
  <2> QED
    BY <1>7, <2>1
<1> QED
  BY <1>18, <1>19, <1>20 DEF st, it, m

\* A list or a dictionary is found, if its items are.
LEMMA CompoundFound ==
  ASSUME NEW N, Closed(N), NEW n \in N, Shut(n), NEW s, NEW i, Occurs(n.text, s, i),
         \A k \in 1..Len(n.items) : Found(n.items[k], s, i + OffsetOf(n.items, k))
  PROVE  Found(n, s, i)
<1> DEFINE it == n.items
           m == Len(it)
           t == n.text
           st == Items(s, i)
           z == OffsetOf(it, m + 1)
<1>1. /\ st \in Seq(Int) /\ Len(st) = m + 1
      /\ \A c \in 1..(m + 1) : st[c] = i + OffsetOf(it, c)
      /\ At(s, i + z) = "e"
  BY ItemStops
<1>2. m \in Nat
  BY ItemTexts
<1>3. Len(t) \in Nat /\ 2 <= Len(t) /\ t[1] = Opening(n) /\ z = Len(t) - 1
  BY CompoundShape
<1>4. i \in Nat /\ Len(s) \in Nat /\ i + Len(t) <= Len(s)
  BY DEF Occurs
<1>5. At(s, i) = Opening(n)
  <2>1. \A k \in 1..Len(t) : At(s, i + k - 1) = t[k]
    BY OccursAt
  <2>2. 1 \in 1..Len(t) /\ i + 1 - 1 = i
    BY <1>3, <1>4
  <2>3. At(s, i) = t[1]
    BY <2>1, <2>2
  <2> QED
    BY <2>3, <1>3
<1>6. \A k \in 1..m : Found(it[k], s, i + OffsetOf(it, k))
  OBVIOUS
<1>7. n.type = "T_DICT" =>
        m % 2 = 0 /\ \A k \in 1..m : k % 2 = 1 => it[k].type = "T_STRING"
  BY LegalCompound DEF Closed
<1>8. Shut(n)
  OBVIOUS
<1> HIDE DEF it, m, t, st, z
<1>9. benc_entity_type(s, i) = n.type /\ At(s, i) \notin {"e", ""}
  <2>1. CASE n.type = "T_LIST"
    BY <2>1, <1>5, TypeIs DEF Opening
  <2>2. CASE n.type = "T_DICT"
    BY <2>2, <1>5, TypeIs DEF Opening
  <2> QED
    BY <2>1, <2>2, <1>8 DEF Shut
<1>10. benc_entity_length(s, i) = CompoundLength(s, i, st)
  <2>1. i \in 0..Len(s)
    BY <1>3, <1>4
  <2>2. Entities(s)[i].len = EntityLength(s, Entities(s), i)
    BY <1>4, <2>1, EntitiesAt
  <2>3. benc_entity_type(s, i) \in {"T_DICT", "T_LIST"}
    BY <1>8, <1>9 DEF Shut
  <2>4. EntityLength(s, Entities(s), i) = CompoundLength(s, i, Entities(s)[i + 1].stops)
    BY <2>3 DEF EntityLength
  <2> QED
    BY <2>2, <2>4 DEF benc_entity_length, st, Items
<1>11. CompoundLength(s, i, st) = Len(t)
  <2>0. Len(st) = m + 1
    BY <1>1
  <2>1. Len(st) - 1 = m /\ m + 1 \in 1..(m + 1)
    BY <1>2, <2>0
  <2>2. st[m + 1] = i + z
    BY <1>1, <2>1 DEF z
  <2>3. At(s, st[m + 1]) = "e" /\ st[m + 1] + 1 - i = Len(t)
    BY <1>1, <1>3, <1>4, <2>2
  <2>4. ASSUME n.type = "T_DICT", NEW k \in 1..m, k % 2 = 1 PROVE IsKey(s, st[k])
    <3>1. k \in 1..(m + 1)
      BY <1>2
    <3>2. st[k] = i + OffsetOf(it, k)
      BY <1>1, <3>1
    <3>3. Found(it[k], s, st[k])
      BY <1>6, <3>2
    <3>4. it[k].type = "T_STRING"
      BY <1>7, <2>4
    <3> QED
      BY <3>3, <3>4 DEF Found, IsKey
  <2>5. benc_entity_type(s, i) = "T_DICT" =>
          m % 2 = 0 /\ \A k \in 1..m : k % 2 = 1 => IsKey(s, st[k])
    BY <1>7, <1>9, <2>4
  <2> QED
    BY <2>1, <2>3, <2>5 DEF CompoundLength
<1>12. benc_entity_length(s, i) = Len(t) /\ Len(t) \in Nat /\ 1 <= Len(t)
  BY <1>3, <1>10, <1>11
<1> QED
  BY <1>9, <1>12 DEF Found, t

\* Every legal node is found wherever its text stands, whatever is around it.
THEOREM NodeFound ==
  ASSUME NEW N, Closed(N), NEW node \in N, NEW s \in Seq(Char), NEW at, Occurs(node.text, s, at)
  PROVE  Found(node, s, at)
<1> DEFINE M == Len(s)
           T == {L \in 0..M : \A n \in N : \A i \in 0..M :
                                Occurs(n.text, s, i) /\ Len(n.text) <= L => Found(n, s, i)}
<1>1. M \in Nat /\ s \in Seq(Char)
  BY LenProperties
<1> HIDE DEF M
<1>2. ASSUME NEW n \in N, NEW i, Occurs(n.text, s, i)
      PROVE  Len(n.text) \in Nat /\ Len(n.text) <= M /\ i \in 0..M /\ Legal(n, N)
             /\ n.type \in {"T_INT", "T_STRING", "T_LIST", "T_DICT"} /\ n.text \in Seq(Char)
  <2>1. i \in Nat /\ Len(n.text) \in Nat /\ i + Len(n.text) <= M
    BY <1>2 DEF Occurs, M
  <2>2. Legal(n, N)
    BY DEF Closed
  <2> QED
    BY <1>1, <2>1, <2>2, LegalType
<1>3. ASSUME NEW n \in N, NEW i, Occurs(n.text, s, i),
             \A k \in 1..Len(n.items) : \A j \in 0..M :
               Shut(n) /\ Occurs(n.items[k].text, s, j) => Found(n.items[k], s, j)
      PROVE  Found(n, s, i)
  <2>1. /\ Legal(n, N) /\ Len(n.text) \in Nat /\ i \in 0..M
        /\ n.type \in {"T_INT", "T_STRING", "T_LIST", "T_DICT"}
    BY <1>2, <1>3
  <2>2. CASE n.type = "T_INT"
    <3> DEFINE v == n.number
               t == n.text
    <3>1. v \in Int /\ t = <<"i">> \o Signed(v) \o <<"e">>
      BY <2>1, <2>2, LegalInt
    <3>2. IsWrapped(t, "i", Signed(v), "e") /\ Occurs(t, s, i)
      BY <1>3, <3>1 DEF IsWrapped
    <3> HIDE DEF v, t
    <3>3. /\ benc_entity_type(s, i) = "T_INT" /\ At(s, i) \notin {"e", ""}
          /\ IntLength(s, i) = Len(t) /\ Len(t) \in Nat /\ 1 <= Len(t)
      BY <3>1, <3>2, IntFound
    <3>4. i \in 0..Len(s) /\ Len(s) \in Nat
      BY <1>1, <2>1 DEF M
    <3>5. benc_entity_length(s, i) = EntityLength(s, Entities(s), i)
      BY <3>4, EntitiesAt DEF benc_entity_length
    <3>6. EntityLength(s, Entities(s), i) = IntLength(s, i)
      BY <3>3 DEF EntityLength
    <3> QED
      BY <2>2, <3>3, <3>5, <3>6 DEF Found, t
  <2>3. CASE n.type = "T_STRING"
    <3> DEFINE v == n.value
    <3>1. v \in Seq(Char) /\ n.text = Counts(v)
      BY <2>1, <2>3, LegalString
    <3>2. Occurs(Counts(v), s, i)
      BY <1>3, <3>1
    <3> HIDE DEF v
    <3>3. /\ benc_entity_type(s, i) = "T_STRING" /\ At(s, i) \notin {"e", ""}
          /\ benc_string_data_offset(s, i) + Number(s, i) = Len(Counts(v))
          /\ Len(Counts(v)) \in Nat /\ 1 <= Len(Counts(v))
      BY <1>1, <3>1, <3>2, StringFound
    <3>4. i \in 0..Len(s) /\ Len(s) \in Nat
      BY <1>1, <2>1 DEF M
    <3>5. benc_entity_length(s, i) = EntityLength(s, Entities(s), i)
      BY <3>4, EntitiesAt DEF benc_entity_length
    <3>6. EntityLength(s, Entities(s), i) = benc_string_data_offset(s, i) + Number(s, i)
      BY <3>3 DEF EntityLength
    <3> QED
      BY <2>3, <3>1, <3>3, <3>5, <3>6 DEF Found
  <2>4. CASE Shut(n)
    <3>1. ASSUME NEW k \in 1..Len(n.items)
          PROVE  Found(n.items[k], s, i + OffsetOf(n.items, k))
      <4>1. Occurs(n.items[k].text, n.text, OffsetOf(n.items, k))
        BY <2>4, CompoundShape
      <4>2. Occurs(n.items[k].text, s, i + OffsetOf(n.items, k))
        BY <1>3, <4>1, OccursWithin
      <4>3. n.items[k] \in N
        BY <2>4, ItemTexts
      <4>4. i + OffsetOf(n.items, k) \in 0..M
        BY <1>2, <4>2, <4>3
      <4> QED
        BY <1>3, <2>4, <4>2, <4>4
    <3>2. Occurs(n.text, s, i)
      BY <1>3
    <3> QED
      BY <2>4, <3>1, <3>2, CompoundFound
  <2> QED
    BY <2>1, <2>2, <2>3, <2>4 DEF Shut
<1>4. 0 \in T
  <2> SUFFICES ASSUME NEW n \in N, NEW i \in 0..M, Occurs(n.text, s, i), Len(n.text) <= 0
               PROVE  Found(n, s, i)
    BY <1>1
  <2>1. Len(n.text) \in Nat
    BY <1>2
  <2>2. ~Shut(n)
    <3>1. Shut(n) => 2 <= Len(n.text)
      BY CompoundShape
    <3> QED
      BY <2>1, <3>1
  <2> QED
    BY <1>3, <2>2
<1>5. ASSUME NEW L \in 1..M, L - 1 \in T PROVE L \in T
  <2> SUFFICES ASSUME NEW n \in N, NEW i \in 0..M, Occurs(n.text, s, i), Len(n.text) <= L
               PROVE  Found(n, s, i)
    BY <1>1
  <2>1. ASSUME NEW k \in 1..Len(n.items), NEW j \in 0..M, Shut(n), Occurs(n.items[k].text, s, j)
        PROVE  Found(n.items[k], s, j)
    <3>1. n.items[k] \in N
      BY <2>1, ItemTexts
    <3>2. Len(n.items[k].text) <= Len(n.text) - 2
      BY <2>1, CompoundShape
    <3>3. Len(n.items[k].text) \in Nat /\ Len(n.text) \in Nat
      BY <1>2, <2>1, <3>1
    <3> DEFINE x == Len(n.items[k].text)
               y == Len(n.text)
    <3>4. x <= L - 1
      <4>1. x \in Nat /\ y \in Nat /\ x <= y - 2 /\ y <= L
        BY <3>2, <3>3
      <4> HIDE DEF x, y
      <4> QED
        BY <4>1
    <3> QED
      BY <1>5, <2>1, <3>1, <3>4
  <2> QED
    BY <1>3, <2>1
<1>6. M \in T
  <2>1. M \in 0..M
    BY <1>1
  <2> HIDE DEF T
  <2>2. \A L \in 0..M : L \in T
    BY <1>1, <1>4, <1>5, Upwards
  <2> QED
    BY <2>1, <2>2
<1>7. Len(node.text) <= M /\ at \in 0..M
  BY <1>2
<1> QED
  BY <1>6, <1>7

\* A set of numbers that is not empty has a least one.
LEMMA Least ==
  ASSUME NEW S, S \subseteq Nat, NEW x \in S
  PROVE  \E m \in S : \A j \in S : m <= j
<1> SUFFICES ASSUME \A m \in S : \E j \in S : ~(m <= j) PROVE FALSE
  OBVIOUS
<1> DEFINE T == {k \in Nat : \A j \in S : k <= j}
<1>1. 0 \in T
  OBVIOUS
<1>2. ASSUME NEW k \in Nat, k \in T PROVE k + 1 \in T
  <2>1. \A j \in S : k <= j
    BY <1>2
  <2>2. k \notin S
    BY <2>1
  <2>3. \A j \in S : k + 1 <= j
    <3> SUFFICES ASSUME NEW j \in S PROVE k + 1 <= j
      OBVIOUS
    <3>1. k <= j /\ j # k /\ j \in Nat
      BY <2>1, <2>2
    <3> QED
      BY <3>1
  <2> QED
    BY <2>3
<1>3. x + 1 \in T
  <2>1. T \in SUBSET Nat /\ \A k \in T : k \in Nat
    OBVIOUS
  <2> HIDE DEF T
  <2>2. T = Nat
    BY <1>1, <1>2, <2>1, NatSet
  <2> QED
    BY <2>2
<1>4. x + 1 <= x
  BY <1>3
<1> QED
  BY <1>4

-----------------------------------------------------------------------------
(***************************************************************************)
(* The accessors at a node.                                                *)
(***************************************************************************)

\* The node n of a closed set stands in s at i.
Stands(N, n, s, i) == Closed(N) /\ n \in N /\ s \in Seq(Char) /\ Occurs(n.text, s, i)

\* What a node is found as.
LEMMA NodeAt ==
  ASSUME NEW N, NEW n, NEW s, NEW i, Stands(N, n, s, i)
  PROVE  /\ benc_entity_type(s, i) = n.type /\ benc_entity_length(s, i) = Len(n.text)
         /\ n.type \in {"T_INT", "T_STRING", "T_LIST", "T_DICT"} /\ Legal(n, N)
         /\ IsKey(s, i) <=> n.type = "T_STRING"
<1>1. Found(n, s, i)
  BY NodeFound DEF Stands
<1>2. Legal(n, N)
  BY DEF Stands, Closed
<1> QED
  BY <1>1, <1>2, LegalType DEF Found, IsKey

\* A string.
LEMMA StringAt ==
  ASSUME NEW N, NEW n, NEW s, NEW i, Stands(N, n, s, i), n.type = "T_STRING"
  PROVE  StringData(s, i) = n.value /\ benc_string_length(s, i) = n.number
<1>1. n.value \in Seq(Char) /\ n.text = Counts(n.value) /\ n.number = Len(n.value)
  BY NodeAt, LegalString
<1>4. IsKey(s, i)
  BY NodeAt
<1> DEFINE v == n.value
<1>2. Occurs(Counts(v), s, i) /\ s \in Seq(Char) /\ v \in Seq(Char)
  BY <1>1 DEF Stands
<1> HIDE DEF v
<1>3. Number(s, i) = Len(v) /\ StringData(s, i) = v
  BY <1>2, StringFound
<1> QED
  BY <1>1, <1>3, <1>4 DEF benc_string_length, v

\* An integer.
LEMMA IntAt ==
  ASSUME NEW N, NEW n, NEW s, NEW i, Stands(N, n, s, i), n.type = "T_INT"
  PROVE  benc_int_value(s, i, -1) = Read(n.number)
<1> DEFINE v == n.number
           t == n.text
<1>1. v \in Int /\ t = <<"i">> \o Signed(v) \o <<"e">>
  BY NodeAt, LegalInt
<1>2. IsWrapped(t, "i", Signed(v), "e") /\ Occurs(t, s, i)
  BY <1>1 DEF IsWrapped, Stands
<1> HIDE DEF v, t
<1>3. benc_int_value(s, i, -1) = Read(v)
  BY <1>1, <1>2, IntFound
<1> QED
  BY <1>3 DEF v

\* An item stands in the text that its list or dictionary stands in.
LEMMA ItemStands ==
  ASSUME NEW N, NEW n, NEW s, NEW i, Stands(N, n, s, i), Shut(n), NEW k \in 1..Len(n.items)
  PROVE  /\ Stands(N, n.items[k], s, i + OffsetOf(n.items, k))
         /\ OffsetOf(n.items, k) \in Nat /\ 1 <= OffsetOf(n.items, k)
         /\ OffsetOf(n.items, k + 1) = OffsetOf(n.items, k) + Len(n.items[k].text)
<1>1. Closed(N) /\ n \in N /\ s \in Seq(Char) /\ Occurs(n.text, s, i)
  BY DEF Stands
<1>2. /\ OffsetOf(n.items, k + 1) = OffsetOf(n.items, k) + Len(n.items[k].text)
      /\ Occurs(n.items[k].text, n.text, OffsetOf(n.items, k))
  BY <1>1, CompoundShape
<1>3. Len(n.items) \in Nat /\ n.items[k] \in N
  BY <1>1, ItemTexts
<1>4. OffsetOf(n.items, k) \in 1..(Len(n.text) - 1)
  <2>1. k \in 1..(Len(n.items) + 1)
    BY <1>3
  <2>2. \A c \in 1..(Len(n.items) + 1) : OffsetOf(n.items, c) \in 1..(Len(n.text) - 1)
    BY <1>1, CompoundShape
  <2> QED
    BY <2>1, <2>2
<1>5. Occurs(n.items[k].text, s, i + OffsetOf(n.items, k))
  BY <1>1, <1>2, OccursWithin
<1> QED
  BY <1>1, <1>2, <1>3, <1>4, <1>5 DEF Stands

\* The items of a list or a dictionary.
LEMMA ItemsAt ==
  ASSUME NEW N, NEW n, NEW s, NEW i, Stands(N, n, s, i), Shut(n)
  PROVE  /\ Len(n.items) \in Nat /\ Counted(s, i) = Len(n.items)
         /\ Len(Items(s, i)) = Len(n.items) + 1
         /\ \A c \in 1..(Len(n.items) + 1) : Items(s, i)[c] = i + OffsetOf(n.items, c)
         /\ i \in Nat
<1>1. Closed(N) /\ n \in N /\ s \in Seq(Char) /\ Occurs(n.text, s, i)
  BY DEF Stands
<1>2. \A k \in 1..Len(n.items) : Found(n.items[k], s, i + OffsetOf(n.items, k))
  <2> SUFFICES ASSUME NEW k \in 1..Len(n.items)
               PROVE  Found(n.items[k], s, i + OffsetOf(n.items, k))
    OBVIOUS
  <2>1. Stands(N, n.items[k], s, i + OffsetOf(n.items, k))
    BY ItemStands
  <2> QED
    BY <2>1, NodeFound DEF Stands
<1>3. /\ Len(Items(s, i)) = Len(n.items) + 1
      /\ \A c \in 1..(Len(n.items) + 1) : Items(s, i)[c] = i + OffsetOf(n.items, c)
  BY <1>1, <1>2, ItemStops
<1>4. Len(n.items) \in Nat
  BY <1>1, ItemTexts
<1>5. Counted(s, i) = Len(n.items)
  <2>1. Len(Items(s, i)) = Len(n.items) + 1
    BY <1>3
  <2>2. Len(Items(s, i)) - 1 = Len(n.items)
    BY <1>4, <2>1
  <2> QED
    BY <2>2 DEF Counted
<1>6. i \in Nat
  BY <1>1 DEF Occurs
<1> QED
  BY <1>3, <1>4, <1>5, <1>6

\* An item of a list.
LEMMA ListItemAt ==
  ASSUME NEW N, NEW n, NEW s, NEW i, Stands(N, n, s, i), n.type = "T_LIST", NEW k \in Int
  PROVE  benc_list_item_offset(s, i, k) =
           IF k \in 0..(Len(n.items) - 1) THEN OffsetOf(n.items, k + 1) ELSE -1
<1>1. Shut(n)
  BY DEF Shut
<1>2. benc_entity_type(s, i) = "T_LIST"
  BY NodeAt
<1>3. Len(n.items) \in Nat /\ Counted(s, i) = Len(n.items) /\ i \in Nat
  BY <1>1, ItemsAt
<1>4. CASE k \in 0..(Len(n.items) - 1)
  <2>1. k + 1 \in 1..(Len(n.items) + 1) /\ k + 1 \in 1..Len(n.items)
    BY <1>3, <1>4
  <2>2. Items(s, i)[k + 1] = i + OffsetOf(n.items, k + 1)
    <3>1. \A c \in 1..(Len(n.items) + 1) : Items(s, i)[c] = i + OffsetOf(n.items, c)
      BY <1>1, ItemsAt
    <3> QED
      BY <2>1, <3>1
  <2>3. OffsetOf(n.items, k + 1) \in Nat
    BY <1>1, <2>1, ItemStands
  <2>4. Items(s, i)[k + 1] - i = OffsetOf(n.items, k + 1)
    BY <1>3, <2>2, <2>3
  <2> QED
    BY <1>2, <1>3, <1>4, <2>4 DEF benc_list_item_offset
<1>5. CASE k \notin 0..(Len(n.items) - 1)
  BY <1>2, <1>3, <1>5 DEF benc_list_item_offset
<1> QED
  BY <1>4, <1>5

\* Half of an even number of items.
LEMMA Halves ==
  ASSUME NEW m \in Nat, m % 2 = 0
  PROVE  /\ m \div 2 \in Nat /\ m = 2 * (m \div 2) /\ (m + 1) \div 2 = m \div 2
         /\ \A c \in 1..(m \div 2) :
              /\ 2 * c - 1 \in 1..m /\ 2 * c \in 1..m /\ (2 * c - 1) % 2 = 1 /\ (2 * c) % 2 = 0
         /\ \A k \in 1..m : k % 2 = 0 =>
              k \div 2 \in 1..(m \div 2) /\ k = 2 * (k \div 2)
<1> DEFINE h == m \div 2
<1>1. h \in Nat /\ m = 2 * h /\ (m + 1) \div 2 = h
  OBVIOUS
<1> HIDE DEF h
<1>2. ASSUME NEW c \in 1..h
      PROVE  2 * c - 1 \in 1..m /\ 2 * c \in 1..m /\ (2 * c - 1) % 2 = 1 /\ (2 * c) % 2 = 0
  BY <1>1
<1>3. ASSUME NEW k \in 1..m, k % 2 = 0 PROVE k \div 2 \in 1..h /\ k = 2 * (k \div 2)
  BY <1>1, <1>3
<1> QED
  BY <1>1, <1>2, <1>3 DEF h

\* How many pairs a dictionary has.
PairCount(n) == Len(n.items) \div 2

\* The keys of a dictionary.
LEMMA KeysAt ==
  ASSUME NEW N, NEW n, NEW s, NEW i, Stands(N, n, s, i), n.type = "T_DICT"
  PROVE  /\ Len(Keys(s, i)) = PairCount(n)
         /\ \A c \in 1..PairCount(n) :
              Keys(s, i)[c] = i + OffsetOf(n.items, 2 * c - 1)
<1> DEFINE it == n.items
           m == Len(it)
           all == Items(s, i)
           sound == {q \in 0..m : \A k \in 1..q : k % 2 = 1 => IsKey(s, all[k])}
           last == CHOOSE q \in sound : \A j \in sound : j <= q
<1>1. Shut(n)
  BY DEF Shut
<1>2. /\ m \in Nat /\ Len(all) = m + 1
      /\ \A c \in 1..(m + 1) : all[c] = i + OffsetOf(it, c)
  BY <1>1, ItemsAt
<1>3. m % 2 = 0 /\ \A k \in 1..m : k % 2 = 1 => it[k].type = "T_STRING"
  BY <1>1, NodeAt, LegalCompound
<1>4. ASSUME NEW k \in 1..m, k % 2 = 1 PROVE IsKey(s, all[k])
  <2>1. Stands(N, it[k], s, i + OffsetOf(it, k))
    BY <1>1, ItemStands
  <2>2. k \in 1..(m + 1)
    BY <1>2
  <2>3. all[k] = i + OffsetOf(it, k) /\ it[k].type = "T_STRING"
    BY <1>2, <1>3, <1>4, <2>2
  <2> HIDE DEF all, it
  <2> QED
    BY <2>1, <2>3, NodeAt
<1>5. Keys(s, i) = [c \in 1..((last + 1) \div 2) |-> all[2 * c - 1]]
  <2>1. Len(all) - 1 = m
    BY <1>2
  <2> HIDE DEF m
  <2> QED
    BY <2>1 DEF Keys, KeysAmong
<1> HIDE DEF it, m, all
<1>6. last = m
  <2>1. m \in sound
    BY <1>2, <1>4
  <2>2. \A q \in sound : q <= m /\ q \in Int
    BY <1>2
  <2> HIDE DEF sound
  <2>3. m \in Int /\ \A j \in sound : j <= m
    BY <1>2, <2>2
  <2>4. \A q \in sound : (\A j \in sound : j <= q) => q = m
    BY <2>1, <2>2, <2>3
  <2> QED
    BY <2>1, <2>3, <2>4
<1> HIDE DEF last, sound
<1> DEFINE h == m \div 2
<1>7. h \in Nat /\ (m + 1) \div 2 = h /\ \A c \in 1..h : 2 * c - 1 \in 1..m
  BY <1>2, <1>3, Halves
<1> HIDE DEF h
<1>8. Keys(s, i) = [c \in 1..h |-> all[2 * c - 1]]
  BY <1>5, <1>6, <1>7
<1>9. Len(Keys(s, i)) = h
  BY <1>7, <1>8
<1>10. ASSUME NEW c \in 1..h PROVE Keys(s, i)[c] = i + OffsetOf(it, 2 * c - 1)
  <2>1. 2 * c - 1 \in 1..(m + 1)
    BY <1>2, <1>7
  <2>2. all[2 * c - 1] = i + OffsetOf(it, 2 * c - 1)
    BY <1>2, <2>1
  <2> QED
    BY <1>8, <2>2
<1> QED
  BY <1>9, <1>10 DEF h, m, it, PairCount

\* Where a key is.
LEMMA KeyOffsetAt ==
  ASSUME NEW N, NEW n, NEW s, NEW i, Stands(N, n, s, i), n.type = "T_DICT",
         NEW c \in 1..PairCount(n)
  PROVE  /\ benc_dict_key_offset(s, i, c - 1) = OffsetOf(n.items, 2 * c - 1)
         /\ OffsetOf(n.items, 2 * c - 1) \in Nat
         /\ 2 * c - 1 \in 1..Len(n.items) /\ 2 * c \in 1..Len(n.items)
<1> DEFINE h == PairCount(n)
           x == OffsetOf(n.items, 2 * c - 1)
<1>1. Shut(n)
  BY DEF Shut
<1>2. benc_entity_type(s, i) = "T_DICT"
  BY NodeAt
<1>3. Len(n.items) \in Nat /\ i \in Nat
  BY <1>1, ItemsAt
<1>4. Len(n.items) % 2 = 0
  BY <1>1, NodeAt, LegalCompound
<1>5. h \in Nat /\ 2 * c - 1 \in 1..Len(n.items) /\ 2 * c \in 1..Len(n.items)
  BY <1>3, <1>4, Halves DEF PairCount
<1>6. x \in Nat
  BY <1>1, <1>5, ItemStands
<1>7. Len(Keys(s, i)) = h /\ Keys(s, i)[c] = i + x
  BY KeysAt
<1>10. c \in 1..h
  OBVIOUS
<1> HIDE DEF h, x
<1>8. c - 1 \in 0..(h - 1) /\ (c - 1) + 1 = c /\ (i + x) - i = x
  BY <1>3, <1>5, <1>6, <1>10
<1>9. benc_dict_key_offset(s, i, c - 1) = x
  BY <1>2, <1>7, <1>8 DEF benc_dict_key_offset
<1> QED
  BY <1>5, <1>6, <1>9 DEF x

\* Where the value of a key is.
LEMMA ValueAt ==
  ASSUME NEW N, NEW n, NEW s, NEW i, Stands(N, n, s, i), n.type = "T_DICT", NEW key
  PROVE  /\ ValueOf(n, key) \in 0..Len(n.items)
         /\ ValueOf(n, key) = 0 => benc_dict_value_offset(s, i, key) = -1
         /\ ValueOf(n, key) # 0 =>
              benc_dict_value_offset(s, i, key) = OffsetOf(n.items, ValueOf(n, key))
<1> DEFINE it == n.items
           m == Len(it)
           h == PairCount(n)
           keys == Keys(s, i)
           hits == {c \in 1..Len(keys) : StringData(s, keys[c]) = key}
           there == {k \in 1..m : k % 2 = 0 /\ it[k - 1].value = key}
           low == CHOOSE c \in hits : \A d \in hits : c <= d
<1>1. Shut(n)
  BY DEF Shut
<1>2. benc_entity_type(s, i) = "T_DICT"
  BY NodeAt
<1>3. m \in Nat /\ i \in Nat
  BY <1>1, ItemsAt
<1>4. m % 2 = 0 /\ \A k \in 1..m : k % 2 = 1 => it[k].type = "T_STRING"
  BY <1>1, NodeAt, LegalCompound
<1>5. Len(keys) = h /\ \A c \in 1..h : keys[c] = i + OffsetOf(it, 2 * c - 1)
  BY KeysAt
<1>6. /\ h \in Nat
      /\ \A c \in 1..h : 2 * c - 1 \in 1..m /\ 2 * c \in 1..m /\ (2 * c - 1) % 2 = 1 /\ (2 * c) % 2 = 0
      /\ \A k \in 1..m : k % 2 = 0 => k \div 2 \in 1..h /\ k = 2 * (k \div 2)
  BY <1>3, <1>4, Halves DEF PairCount
<1>7. ASSUME NEW c \in 1..h
      PROVE  /\ Stands(N, it[2 * c - 1], s, keys[c]) /\ it[2 * c - 1].type = "T_STRING"
             /\ StringData(s, keys[c]) = it[2 * c - 1].value
             /\ OffsetOf(it, 2 * c) = OffsetOf(it, 2 * c - 1) + Len(it[2 * c - 1].text)
             /\ benc_entity_length(s, keys[c]) = Len(it[2 * c - 1].text)
             /\ OffsetOf(it, 2 * c - 1) \in Nat /\ OffsetOf(it, 2 * c) \in Nat
  <2> DEFINE k == 2 * c - 1
  <2>2. keys[c] = i + OffsetOf(it, k)
    BY <1>5
  <2>1. k \in 1..m /\ k % 2 = 1 /\ k + 1 = 2 * c /\ k + 1 \in 1..m
    <3> HIDE DEF h, m
    <3> QED
      BY <1>6
  <2> HIDE DEF k, h, keys
  <2>3. /\ Stands(N, it[k], s, i + OffsetOf(it, k)) /\ OffsetOf(it, k) \in Nat
        /\ OffsetOf(it, k + 1) = OffsetOf(it, k) + Len(it[k].text)
    BY <1>1, <2>1, ItemStands
  <2>4. OffsetOf(it, k + 1) \in Nat
    BY <1>1, <2>1, ItemStands
  <2> HIDE DEF it, m
  <2>5. it[k].type = "T_STRING"
    BY <1>4, <2>1
  <2>6. Stands(N, it[k], s, keys[c])
    BY <2>2, <2>3
  <2>7. StringData(s, keys[c]) = it[k].value
    BY <2>5, <2>6, StringAt
  <2>8. benc_entity_length(s, keys[c]) = Len(it[k].text)
    BY <2>6, NodeAt
  <2> QED
    BY <2>1, <2>3, <2>4, <2>5, <2>6, <2>7, <2>8 DEF k
<1> HIDE DEF it, m, h, keys
<1>8. ValueOf(n, key) = IF there = {} THEN 0 ELSE CHOOSE k \in there : \A j \in there : k <= j
  BY DEF ValueOf, it, m
<1>9. \A c \in hits : c \in 1..h /\ 2 * c \in there
  <2> SUFFICES ASSUME NEW c \in hits PROVE c \in 1..h /\ 2 * c \in there
    OBVIOUS
  <2>1. c \in 1..h /\ StringData(s, keys[c]) = key
    BY <1>5
  <2>2. it[2 * c - 1].value = key
    BY <1>7, <2>1
  <2>3. 2 * c \in 1..m /\ (2 * c) % 2 = 0
    BY <1>6, <2>1
  <2> QED
    BY <2>1, <2>2, <2>3
<1>10. \A k \in there : k \in 1..m /\ k \div 2 \in hits /\ k = 2 * (k \div 2)
  <2> SUFFICES ASSUME NEW k \in there PROVE k \in 1..m /\ k \div 2 \in hits /\ k = 2 * (k \div 2)
    OBVIOUS
  <2> DEFINE c == k \div 2
  <2>1. k \in 1..m /\ k % 2 = 0 /\ it[k - 1].value = key
    OBVIOUS
  <2>2. c \in 1..h /\ k = 2 * c
    BY <1>6, <2>1
  <2> HIDE DEF c
  <2>3. StringData(s, keys[c]) = key
    BY <1>7, <2>1, <2>2
  <2>4. c \in hits
    BY <1>5, <2>2, <2>3
  <2> QED
    BY <2>1, <2>2, <2>4 DEF c
<1>11. benc_dict_value_offset(s, i, key) =
         IF hits = {} THEN -1 ELSE keys[low] + benc_entity_length(s, keys[low]) - i
  BY <1>2 DEF benc_dict_value_offset, EndOfMatch, keys
<1> HIDE DEF hits, there
<1>12. CASE hits = {}
  <2>1. there = {}
    BY <1>10, <1>12
  <2> QED
    BY <1>3, <1>8, <1>11, <1>12, <2>1 DEF m, it
<1>13. CASE hits # {}
  <2>1. \E c \in hits : \A d \in hits : c <= d
    <3>1. PICK x \in hits : TRUE
      BY <1>13
    <3>2. hits \subseteq Nat
      BY <1>9
    <3> QED
      BY <3>1, <3>2, Least
  <2>2. low \in hits /\ \A d \in hits : low <= d
    BY <2>1
  <2> HIDE DEF low
  <2>3. low \in 1..h /\ 2 * low \in there
    BY <1>9, <2>2
  <2>4. \A k \in there : 2 * low <= k /\ k \in Int
    <3> SUFFICES ASSUME NEW k \in there PROVE 2 * low <= k /\ k \in Int
      OBVIOUS
    <3>1. k \in 1..m /\ k \div 2 \in hits /\ k = 2 * (k \div 2)
      BY <1>10
    <3>2. low <= k \div 2
      BY <2>2, <3>1
    <3> QED
      BY <2>3, <3>1, <3>2
  <2>5. ValueOf(n, key) = 2 * low
    <3>1. \A k \in there : (\A j \in there : k <= j) => k = 2 * low
      <4> SUFFICES ASSUME NEW k \in there, \A j \in there : k <= j PROVE k = 2 * low
        OBVIOUS
      <4>1. k <= 2 * low /\ 2 * low <= k /\ k \in Int
        BY <2>3, <2>4
      <4> QED
        BY <2>3, <4>1
    <3>2. there # {}
      BY <2>3
    <3> QED
      BY <1>8, <2>3, <2>4, <3>1, <3>2
  <2>6. benc_dict_value_offset(s, i, key) = OffsetOf(it, 2 * low)
    <3> DEFINE a == OffsetOf(it, 2 * low - 1)
               b == Len(it[2 * low - 1].text)
    <3>1. /\ keys[low] = i + a /\ benc_entity_length(s, keys[low]) = b
          /\ OffsetOf(it, 2 * low) = a + b /\ a \in Nat /\ a + b \in Nat
      BY <1>5, <1>7, <2>3
    <3>2. b \in Int
      <4>1. Stands(N, it[2 * low - 1], s, keys[low])
        BY <1>7, <2>3
      <4> QED
        BY <4>1 DEF Stands, Occurs
    <3> HIDE DEF a, b
    <3>3. (i + a) + b - i = a + b
      BY <1>3, <3>1, <3>2
    <3> QED
      BY <1>11, <1>13, <3>1, <3>3
  <2>7. 2 * low \in 1..m
    BY <1>6, <2>3
  <2> QED
    BY <2>5, <2>6, <2>7, <1>3 DEF m, it
<1> QED
  BY <1>12, <1>13

-----------------------------------------------------------------------------
(***************************************************************************)
(* Lines.                                                                  *)
(***************************************************************************)

\* What is printed for a node.
NodeType == {"T_INT", "T_STRING", "T_LIST", "T_DICT"}
LineSet ==
  [off : Nat, depth : Nat, type : NodeType, len : Nat, value : Seq(Char), number : Int]

\* A line that is moved.
LEMMA MovedIs ==
  ASSUME NEW x \in LineSet, NEW a \in Nat, NEW b \in Nat
  PROVE  /\ Moved(x, a, b) \in LineSet
         /\ Moved(x, a, b) = [off |-> x.off + a, depth |-> x.depth + b, type |-> x.type,
                              len |-> x.len, value |-> x.value, number |-> x.number]
<1>1. /\ x.off \in Nat /\ x.depth \in Nat /\ x.type \in NodeType /\ x.len \in Nat
      /\ x.value \in Seq(Char) /\ x.number \in Int
  BY DEF LineSet
<1>3. Moved(x, a, b) = [off |-> x.off + a, depth |-> x.depth + b, type |-> x.type,
                        len |-> x.len, value |-> x.value, number |-> x.number]
  BY DEF Moved, Line
<1>4. x.off + a \in Nat /\ x.depth + b \in Nat
  BY <1>1
<1>5. Moved(x, a, b) \in LineSet
  BY <1>1, <1>3, <1>4 DEF LineSet
<1> QED
  BY <1>3, <1>5

\* Moved twice.
LEMMA MovedTwice ==
  ASSUME NEW x \in LineSet, NEW a \in Nat, NEW b \in Nat, NEW c \in Nat, NEW d \in Nat
  PROVE  Moved(Moved(x, a, b), c, d) = Moved(x, c + a, d + b)
<1> DEFINE y == Moved(x, a, b)
<1>1. /\ y \in LineSet
      /\ y = [off |-> x.off + a, depth |-> x.depth + b, type |-> x.type,
              len |-> x.len, value |-> x.value, number |-> x.number]
  BY MovedIs
<1> HIDE DEF y
<1>2. Moved(y, c, d) = [off |-> y.off + c, depth |-> y.depth + d, type |-> y.type,
                        len |-> y.len, value |-> y.value, number |-> y.number]
  BY DEF Moved, Line
<1>3. Moved(x, c + a, d + b) = [off |-> x.off + (c + a), depth |-> x.depth + (d + b), type |-> x.type,
                                len |-> x.len, value |-> x.value, number |-> x.number]
  <2>1. c + a \in Nat /\ d + b \in Nat
    OBVIOUS
  <2> QED
    BY <2>1, MovedIs
<1>4. x.off \in Nat /\ x.depth \in Nat
  BY DEF LineSet
<1>5. (x.off + a) + c = x.off + (c + a) /\ (x.depth + b) + d = x.depth + (d + b)
  BY <1>4
<1>6. Moved(y, c, d) = Moved(x, c + a, d + b)
  BY <1>1, <1>2, <1>3, <1>5
<1> QED
  BY <1>6 DEF y

\* The line of the node itself.
Own(n) == Line(0, 0, n.type, Len(n.text), n.value, n.number)

\* The line of a node itself.
LEMMA OwnLine ==
  ASSUME NEW N, Closed(N), NEW n \in N
  PROVE  /\ Own(n) \in LineSet /\ Len(n.text) \in Nat
         /\ n.value \in Seq(Char) /\ n.number \in Int
         /\ ~(n.type = "T_STRING") => n.value = <<>>
<1>1. Legal(n, N)
  BY DEF Closed
<1>2. n.text \in Seq(Char) /\ n.type \in NodeType
  BY <1>1, LegalType DEF NodeType
<1>3. Len(n.text) \in Nat
  BY <1>2, LenProperties
<1>4. <<>> \in Seq(Char)
  OBVIOUS
<1>5. n.value \in Seq(Char) /\ n.number \in Int /\ (~(n.type = "T_STRING") => n.value = <<>>)
  <2>1. CASE n.type = "T_INT"
    BY <1>1, <1>4, <2>1, LegalInt
  <2>2. CASE n.type = "T_STRING"
    <3>1. n.value \in Seq(Char) /\ n.number = Len(n.value)
      BY <1>1, <2>2, LegalString
    <3>2. Len(n.value) \in Nat
      BY <3>1, LenProperties
    <3> QED
      BY <2>2, <3>1, <3>2
  <2>3. CASE n.type \in {"T_LIST", "T_DICT"}
    <3>1. Shut(n)
      BY <2>3 DEF Shut
    <3>2. n.value = <<>> /\ n.number = IF n.type = "T_LIST" THEN Len(n.items) ELSE Len(n.items) \div 2
      BY <1>1, <3>1, LegalCompound
    <3>3. Len(n.items) \in Nat
      BY <3>1, ItemTexts
    <3>4. Len(n.items) \div 2 \in Int
      BY <3>3
    <3>5. n.number \in Int
      BY <3>2, <3>3, <3>4
    <3>6. n.type # "T_STRING"
      BY <2>3
    <3> QED
      BY <1>4, <3>2, <3>5, <3>6
  <2> QED
    BY <1>2, <2>1, <2>2, <2>3 DEF NodeType
<1>6. Own(n) \in LineSet
  BY <1>2, <1>3, <1>5 DEF Own, Line, LineSet
<1> QED
  BY <1>3, <1>5, <1>6

\* What is printed for a node is its line.
LEMMA LineAtNode ==
  ASSUME NEW N, NEW n, NEW s, NEW i, Stands(N, n, s, i), NEW d \in Nat
  PROVE  LineAt(s, i, d) = Seen(Moved(Own(n), i, d))
<1>1. Closed(N) /\ n \in N /\ i \in Nat
  BY DEF Stands, Occurs
<1>2. /\ Own(n) \in LineSet /\ Len(n.text) \in Nat
      /\ n.value \in Seq(Char) /\ n.number \in Int
      /\ ~(n.type = "T_STRING") => n.value = <<>>
  BY <1>1, OwnLine
<1>3. /\ benc_entity_type(s, i) = n.type /\ benc_entity_length(s, i) = Len(n.text)
      /\ n.type \in {"T_INT", "T_STRING", "T_LIST", "T_DICT"} /\ Legal(n, N)
      /\ IsKey(s, i) <=> n.type = "T_STRING"
  BY NodeAt
<1>4. NumberShown(s, i) = IF n.type = "T_INT" THEN Read(n.number) ELSE n.number
  <2>1. CASE n.type = "T_INT"
    <3>1. benc_int_value(s, i, -1) = Read(n.number)
      BY <2>1, IntAt
    <3> QED
      BY <1>3, <2>1, <3>1 DEF NumberShown
  <2>2. CASE n.type = "T_STRING"
    <3>1. benc_string_length(s, i) = n.number
      BY <2>2, StringAt
    <3> QED
      BY <1>3, <2>2, <3>1 DEF NumberShown
  <2>3. CASE n.type = "T_LIST"
    <3>1. Shut(n)
      BY <2>3 DEF Shut
    <3>2. n.number = Len(n.items)
      BY <1>3, <2>3, <3>1, LegalCompound
    <3>3. Counted(s, i) = Len(n.items)
      BY <3>1, ItemsAt
    <3> QED
      BY <1>3, <2>3, <3>2, <3>3 DEF NumberShown
  <2>4. CASE n.type = "T_DICT"
    <3>1. Shut(n)
      BY <2>4 DEF Shut
    <3>2. n.number = Len(n.items) \div 2
      BY <1>3, <2>4, <3>1, LegalCompound
    <3>3. Len(Keys(s, i)) = PairCount(n)
      BY <2>4, KeysAt
    <3>4. Len(Keys(s, i)) = n.number
      BY <3>2, <3>3 DEF PairCount
    <3> QED
      BY <1>3, <2>4, <3>4 DEF NumberShown
  <2> QED
    BY <1>3, <2>1, <2>2, <2>3, <2>4
<1>5. (IF IsKey(s, i) THEN StringData(s, i) ELSE <<>>) = n.value
  <2>1. CASE n.type = "T_STRING"
    <3>1. StringData(s, i) = n.value
      BY <2>1, StringAt
    <3> QED
      BY <1>3, <2>1, <3>1
  <2>2. CASE n.type # "T_STRING"
    BY <1>2, <1>3, <2>2
  <2> QED
    BY <2>1, <2>2
<1> DEFINE y == Moved(Own(n), i, d)
<1>6. y = [off |-> 0 + i, depth |-> 0 + d, type |-> n.type, len |-> Len(n.text),
           value |-> n.value, number |-> n.number]
  <2>1. y = [off |-> Own(n).off + i, depth |-> Own(n).depth + d, type |-> Own(n).type,
             len |-> Own(n).len, value |-> Own(n).value, number |-> Own(n).number]
    BY <1>1, <1>2, MovedIs
  <2> QED
    BY <2>1 DEF Own, Line
<1> HIDE DEF y
<1>7. 0 + i = i /\ 0 + d = d
  BY <1>1
<1>8. Seen(y) = [off |-> i, depth |-> d, type |-> n.type, len |-> Len(n.text), value |-> n.value,
                 number |-> IF n.type = "T_INT" THEN Read(n.number) ELSE n.number]
  <2>1. CASE n.type = "T_INT"
    BY <1>6, <1>7, <2>1 DEF Seen
  <2>2. CASE n.type # "T_INT"
    BY <1>6, <1>7, <2>2 DEF Seen
  <2> QED
    BY <2>1, <2>2
<1>9. LineAt(s, i, d) =
        [off |-> i, depth |-> d, type |-> n.type, len |-> Len(n.text), value |-> n.value,
         number |-> IF n.type = "T_INT" THEN Read(n.number) ELSE n.number]
  BY <1>3, <1>4, <1>5 DEF LineAt, Line
<1> QED
  BY <1>8, <1>9 DEF y

\* A walk that is moved.
LEMMA MovedWalk ==
  ASSUME NEW w \in Seq(LineSet), NEW a \in Nat, NEW b \in Nat
  PROVE  /\ [j \in 1..Len(w) |-> Moved(w[j], a, b)] \in Seq(LineSet)
         /\ Len([j \in 1..Len(w) |-> Moved(w[j], a, b)]) = Len(w)
<1> DEFINE L == Len(w)
           u == [j \in 1..L |-> Moved(w[j], a, b)]
<1>1. L \in Nat /\ \A j \in 1..L : w[j] \in LineSet
  BY LenProperties, ElementOfSeq
<1> HIDE DEF L
<1>2. \A j \in 1..L : Moved(w[j], a, b) \in LineSet
  BY <1>1, MovedIs
<1>3. u \in [1..L -> LineSet]
  BY <1>2
<1>4. u \in Seq(LineSet)
  BY <1>1, <1>3, SeqDef
<1>5. Len(u) = L
  BY <1>1
<1> QED
  BY <1>4, <1>5 DEF L

\* What is below a list or a dictionary: the walks of its items, one behind the other.
LEMMA BelowIs ==
  ASSUME NEW N, Closed(N), NEW n \in N, Shut(n),
         \A k \in 1..Len(n.items) : n.items[k].walk \in Seq(LineSet)
  PROVE  /\ Below(n.type, n.items) \in Seq(LineSet)
         /\ \E q : /\ q[1] = 0 /\ q[Len(n.items) + 1] = Len(Below(n.type, n.items))
                   /\ \A k \in 1..Len(n.items) :
                        /\ q[k] \in Nat /\ q[k + 1] = q[k] + Len(n.items[k].walk)
                        /\ q[k + 1] <= Len(Below(n.type, n.items))
                        /\ \A j \in 1..Len(n.items[k].walk) :
                             Below(n.type, n.items)[q[k] + j] =
                               Moved(n.items[k].walk[j], OffsetOf(n.items, k), DepthOf(n.type, k))
<1> DEFINE it == n.items
           m == Len(it)
           part(k) == [j \in 1..Len(it[k].walk) |->
                         Moved(it[k].walk[j], OffsetOf(it, k), DepthOf(n.type, k))]
           ss == [k \in 1..m |-> part(k)]
           b == Below(n.type, it)
<1>1. m \in Nat
  BY ItemTexts
<1>2. \A k \in 1..(m + 1) : OffsetOf(it, k) \in 1..(Len(n.text) - 1)
  BY CompoundShape
<1>3. b = Flat(ss, m)
  BY DEF Below
<1>4. \A k \in 1..m : it[k].walk \in Seq(LineSet)
  OBVIOUS
<1> HIDE DEF it, m, b
<1>5. ASSUME NEW k \in 1..m
      PROVE  ss[k] = part(k) /\ ss[k] \in Seq(LineSet) /\ Len(ss[k]) = Len(it[k].walk)
             /\ \A j \in 1..Len(it[k].walk) :
                  ss[k][j] = Moved(it[k].walk[j], OffsetOf(it, k), DepthOf(n.type, k))
  <2>1. k \in 1..(m + 1)
    BY <1>1
  <2>2. OffsetOf(it, k) \in 1..(Len(n.text) - 1)
    BY <1>2, <2>1
  <2>3. OffsetOf(it, k) \in Nat /\ DepthOf(n.type, k) \in Nat /\ it[k].walk \in Seq(LineSet)
    BY <1>4, <2>2 DEF DepthOf
  <2>4. part(k) \in Seq(LineSet) /\ Len(part(k)) = Len(it[k].walk)
    BY <2>3, MovedWalk
  <2>5. ss[k] = part(k)
    OBVIOUS
  <2>6. \A j \in 1..Len(it[k].walk) :
          part(k)[j] = Moved(it[k].walk[j], OffsetOf(it, k), DepthOf(n.type, k))
    OBVIOUS
  <2> HIDE DEF part, ss
  <2> QED
    BY <2>4, <2>5, <2>6
<1>6. Len(ss) = m
  BY <1>1
<1> HIDE DEF ss, part
<1>7. Len(ss) \in Nat /\ \A k \in 1..Len(ss) : ss[k] \in Seq(LineSet)
  BY <1>1, <1>5, <1>6
<1>8. \A k \in 0..m : Flat(ss, k) \in Seq(LineSet) /\ Len(Flat(ss, k)) \in Nat
  BY <1>6, <1>7, FlatType
<1>9. b \in Seq(LineSet)
  <2>1. m \in 0..m
    BY <1>1
  <2> QED
    BY <1>3, <1>8, <2>1
<1> DEFINE q == [k \in 1..(m + 1) |-> Len(Flat(ss, k - 1))]
<1>10. q[1] = 0
  <2>1. Flat(ss, 0) = <<>>
    BY <1>7, FlatStep
  <2>2. 1 \in 1..(m + 1) /\ 1 - 1 = 0
    BY <1>1
  <2>3. Len(<<>>) = 0
    OBVIOUS
  <2> QED
    BY <2>1, <2>2, <2>3
<1>11. q[m + 1] = Len(b)
  <2>1. m + 1 \in 1..(m + 1) /\ (m + 1) - 1 = m
    BY <1>1
  <2> QED
    BY <1>3, <2>1
<1>12. ASSUME NEW k \in 1..m
       PROVE  /\ q[k] \in Nat /\ q[k + 1] = q[k] + Len(it[k].walk)
              /\ q[k + 1] <= Len(b)
              /\ \A j \in 1..Len(it[k].walk) :
                   b[q[k] + j] = Moved(it[k].walk[j], OffsetOf(it, k), DepthOf(n.type, k))
  <2>1. k \in 1..(m + 1) /\ k + 1 \in 1..(m + 1) /\ (k + 1) - 1 = k /\ k - 1 \in 0..m
        /\ k \in 1..Len(ss) /\ m \in k..Len(ss)
    BY <1>1, <1>6
  <2>2. q[k] = Len(Flat(ss, k - 1)) /\ q[k + 1] = Len(Flat(ss, k))
    BY <2>1
  <2> HIDE DEF q
  <2>3. /\ Len(Flat(ss, k)) = Len(Flat(ss, k - 1)) + Len(ss[k])
        /\ Occurs(ss[k], Flat(ss, m), Len(Flat(ss, k - 1)))
    BY <1>7, <2>1, FlatPlaces
  <2>4. Occurs(ss[k], b, q[k])
    BY <1>3, <2>2, <2>3
  <2>5. q[k] \in Nat /\ q[k + 1] = q[k] + Len(it[k].walk)
    BY <1>5, <1>8, <2>1, <2>2, <2>3
  <2>6. \A j \in 1..Len(ss[k]) : b[q[k] + j] = ss[k][j]
    BY <2>4 DEF Occurs
  <2>8. q[k + 1] <= Len(b)
    BY <1>5, <2>4, <2>5 DEF Occurs
  <2>7. ASSUME NEW j \in 1..Len(it[k].walk)
        PROVE  b[q[k] + j] = Moved(it[k].walk[j], OffsetOf(it, k), DepthOf(n.type, k))
    <3>1. j \in 1..Len(ss[k])
      BY <1>5
    <3> QED
      BY <1>5, <2>6, <3>1
  <2> QED
    BY <2>5, <2>7, <2>8
<1> HIDE DEF q
<1>13. \E x : /\ x[1] = 0 /\ x[m + 1] = Len(b)
              /\ \A k \in 1..m :
                   /\ x[k] \in Nat /\ x[k + 1] = x[k] + Len(it[k].walk)
                   /\ x[k + 1] <= Len(b)
                   /\ \A j \in 1..Len(it[k].walk) :
                        b[x[k] + j] = Moved(it[k].walk[j], OffsetOf(it, k), DepthOf(n.type, k))
  BY <1>10, <1>11, <1>12
<1> QED
  BY <1>9, <1>13 DEF b, m, it

\* The walk of a node begins with its own line.
LEMMA WalkIs ==
  ASSUME NEW N, Closed(N), NEW n \in N
  PROVE  n.walk = <<Own(n)>> \o (IF Shut(n) THEN Below(n.type, n.items) ELSE <<>>)
<1>1. Legal(n, N) /\ n.type \in {"T_INT", "T_STRING", "T_LIST", "T_DICT"}
  BY LegalType DEF Closed
<1>2. CASE n.type = "T_INT"
  BY <1>1, <1>2, LegalInt DEF Own, Shut
<1>3. CASE n.type = "T_STRING"
  BY <1>1, <1>3, LegalString DEF Own, Shut
<1>4. CASE Shut(n)
  BY <1>1, <1>4, LegalCompound DEF Own
<1> QED
  BY <1>1, <1>2, <1>3, <1>4 DEF Shut

\* A walk is made of lines.
LEMMA WalkLines ==
  ASSUME NEW N, Closed(N), NEW node \in N
  PROVE  node.walk \in Seq(LineSet)
<1> DEFINE M == Len(node.text)
           T == {L \in 0..M : \A n \in N : Len(n.text) <= L => n.walk \in Seq(LineSet)}
<1>1. \A n \in N : Len(n.text) \in Nat /\ Own(n) \in LineSet
  BY OwnLine
<1>2. M \in Nat
  BY <1>1
<1>3. \A b \in Seq(LineSet), x \in LineSet : <<x>> \o b \in Seq(LineSet)
  BY OneBefore
<1> HIDE DEF M
<1>4. ASSUME NEW n \in N, ~Shut(n) PROVE n.walk \in Seq(LineSet)
  <2>1. n.walk = <<Own(n)>> \o <<>>
    BY <1>4, WalkIs
  <2>2. <<>> \in Seq(LineSet)
    OBVIOUS
  <2> QED
    BY <1>1, <1>3, <2>1, <2>2
<1>5. 0 \in T
  <2>1. ASSUME NEW n \in N, Len(n.text) <= 0 PROVE n.walk \in Seq(LineSet)
    <3>1. Shut(n) => 2 <= Len(n.text)
      BY CompoundShape
    <3>2. ~Shut(n)
      BY <1>1, <2>1, <3>1
    <3> QED
      BY <1>4, <3>2
  <2> QED
    BY <1>2, <2>1
<1>6. ASSUME NEW L \in 1..M, L - 1 \in T PROVE L \in T
  <2>1. ASSUME NEW n \in N, Len(n.text) <= L PROVE n.walk \in Seq(LineSet)
    <3>1. CASE ~Shut(n)
      BY <1>4, <3>1
    <3>2. CASE Shut(n)
      <4>1. ASSUME NEW k \in 1..Len(n.items) PROVE n.items[k].walk \in Seq(LineSet)
        <5>1. n.items[k] \in N
          BY <3>2, ItemTexts
        <5>2. Len(n.items[k].text) <= Len(n.text) - 2
          BY <3>2, CompoundShape
        <5>3. Len(n.items[k].text) \in Nat /\ Len(n.text) \in Nat
          BY <1>1, <5>1
        <5>4. Len(n.items[k].text) <= L - 1
          BY <2>1, <5>2, <5>3
        <5> QED
          BY <1>6, <5>1, <5>4
      <4>2. Below(n.type, n.items) \in Seq(LineSet)
        BY <3>2, <4>1, BelowIs
      <4>3. n.walk = <<Own(n)>> \o Below(n.type, n.items)
        BY <3>2, WalkIs
      <4> QED
        BY <1>1, <1>3, <4>2, <4>3
    <3> QED
      BY <3>1, <3>2
  <2> QED
    BY <2>1
<1>7. M \in T
  <2>1. M \in 0..M
    BY <1>2
  <2> HIDE DEF T
  <2>2. \A L \in 0..M : L \in T
    BY <1>2, <1>5, <1>6, Upwards
  <2> QED
    BY <2>1, <2>2
<1>8. Len(node.text) <= M
  BY <1>2 DEF M
<1> QED
  BY <1>7, <1>8

\* The line that a walk begins with, and the walk of a node without items.
LEMMA WalkBegins ==
  ASSUME NEW N, Closed(N), NEW n \in N
  PROVE  /\ n.walk \in Seq(LineSet) /\ Len(n.walk) \in Nat /\ 1 <= Len(n.walk)
         /\ n.walk[1] = Own(n) /\ Own(n) \in LineSet
         /\ ~Shut(n) => Len(n.walk) = 1
<1> DEFINE w == n.walk
           below == IF Shut(n) THEN Below(n.type, n.items) ELSE <<>>
           own == Own(n)
<1>1. w = <<own>> \o below /\ own \in LineSet
  BY WalkIs, OwnLine
<1>2. below \in Seq(LineSet)
  <2>1. CASE Shut(n)
    <3>1. \A k \in 1..Len(n.items) : n.items[k].walk \in Seq(LineSet)
      <4> SUFFICES ASSUME NEW k \in 1..Len(n.items) PROVE n.items[k].walk \in Seq(LineSet)
        OBVIOUS
      <4>1. n.items[k] \in N
        BY <2>1, ItemTexts
      <4> QED
        BY <4>1, WalkLines
    <3>2. Below(n.type, n.items) \in Seq(LineSet)
      BY <2>1, <3>1, BelowIs
    <3> QED
      BY <2>1, <3>2
  <2>2. CASE ~Shut(n)
    BY <2>2
  <2> QED
    BY <2>1, <2>2
<1>3. ~Shut(n) => Len(below) = 0
  OBVIOUS
<1>4. Len(below) \in Nat
  BY <1>2, LenProperties
<1> HIDE DEF w, below, own
<1>5. w \in Seq(LineSet) /\ Len(w) = Len(below) + 1 /\ w[1] = own
  BY <1>1, <1>2, OneBefore
<1> QED
  BY <1>1, <1>3, <1>4, <1>5 DEF w, own

-----------------------------------------------------------------------------
(***************************************************************************)
(* How the lines of a node are made up of those of its items.              *)
(***************************************************************************)

\* From place a on, up to before b, the lines below the node n are those of its
\* k-th item, d deeper.
Section(n, deep, k, d, a, b) ==
  /\ k \in 1..Len(n.items) /\ d \in Nat /\ a \in Nat \ {0}
  /\ b = a + Len(Lines(n.items[k], deep)) /\ b <= Len(Lines(n, deep))
  /\ \A j \in 1..Len(Lines(n.items[k], deep)) :
       Lines(n, deep)[a + j] = Moved(Lines(n.items[k], deep)[j], OffsetOf(n.items, k), d)

\* The lines of n are its own and those of K of its items: of item m[c] from q[c] on.
Divided(n, deep, m, d, q, K) ==
  /\ K \in Nat /\ q[1] = 1 /\ q[K + 1] = Len(Lines(n, deep))
  /\ \A c \in 1..K : Section(n, deep, m[c], d[c], q[c], q[c + 1])

\* What a dictionary is shown as without -r: itself and its keys.
LEMMA KeyLines ==
  ASSUME NEW N, Closed(N), NEW n \in N, n.type = "T_DICT"
  PROVE  /\ PairCount(n) \in Nat /\ \A c \in 1..PairCount(n) : 2 * c - 1 \in 1..Len(n.items)
         /\ Lines(n, FALSE) \in Seq(LineSet) /\ Len(Lines(n, FALSE)) = PairCount(n) + 1
         /\ Lines(n, FALSE)[1] = Own(n)
         /\ \A c \in 1..PairCount(n) :
              Lines(n, FALSE)[c + 1] =
                Moved(n.items[2 * c - 1].walk[1], OffsetOf(n.items, 2 * c - 1), 1)
<1> DEFINE h == PairCount(n)
           keys == [c \in 1..h |-> Moved(n.items[2 * c - 1].walk[1], OffsetOf(n.items, 2 * c - 1), 1)]
<1>1. Shut(n)
  BY DEF Shut
<1>2. Len(n.items) \in Nat /\ \A k \in 1..Len(n.items) : n.items[k] \in N
  BY <1>1, ItemTexts
<1>3. Len(n.items) % 2 = 0
  <2>1. Legal(n, N)
    BY DEF Closed
  <2> QED
    BY <1>1, <2>1, LegalCompound
<1>4. h \in Nat /\ \A c \in 1..h : 2 * c - 1 \in 1..Len(n.items)
  BY <1>2, <1>3, Halves DEF PairCount
<1>5. n.walk[1] = Own(n) /\ Own(n) \in LineSet
  BY WalkBegins
<1>6. Lines(n, FALSE) = <<Own(n)>> \o keys
  BY <1>5 DEF Lines, PairCount
<1>7. \A k \in 1..(Len(n.items) + 1) : OffsetOf(n.items, k) \in 1..(Len(n.text) - 1)
  BY <1>1, CompoundShape
<1> HIDE DEF h
<1>8. ASSUME NEW c \in 1..h
      PROVE  Moved(n.items[2 * c - 1].walk[1], OffsetOf(n.items, 2 * c - 1), 1) \in LineSet
  <2> DEFINE k == 2 * c - 1
  <2>1. k \in 1..Len(n.items) /\ k \in 1..(Len(n.items) + 1)
    BY <1>2, <1>4
  <2> HIDE DEF k
  <2>2. OffsetOf(n.items, k) \in Nat
    <3>1. OffsetOf(n.items, k) \in 1..(Len(n.text) - 1)
      BY <1>7, <2>1
    <3> QED
      BY <3>1
  <2>3. n.items[k] \in N
    BY <1>2, <2>1
  <2>4. n.items[k].walk[1] \in LineSet
    BY <2>3, WalkBegins
  <2>5. Moved(n.items[k].walk[1], OffsetOf(n.items, k), 1) \in LineSet
    BY <2>2, <2>4, MovedIs
  <2> QED
    BY <2>5 DEF k
<1>9. keys \in [1..h -> LineSet] /\ Len(keys) = h
  BY <1>4, <1>8
<1>10. keys \in Seq(LineSet)
  BY <1>4, <1>9, SeqDef
<1>11. \A c \in 1..h :
         keys[c] = Moved(n.items[2 * c - 1].walk[1], OffsetOf(n.items, 2 * c - 1), 1)
  OBVIOUS
<1> HIDE DEF keys
<1>12. /\ Lines(n, FALSE) \in Seq(LineSet) /\ Len(Lines(n, FALSE)) = h + 1
       /\ Lines(n, FALSE)[1] = Own(n)
       /\ \A c \in 1..h : Lines(n, FALSE)[c + 1] = keys[c]
  <2>1. /\ <<Own(n)>> \o keys \in Seq(LineSet) /\ Len(<<Own(n)>> \o keys) = Len(keys) + 1
        /\ (<<Own(n)>> \o keys)[1] = Own(n)
        /\ \A c \in 1..Len(keys) : (<<Own(n)>> \o keys)[c + 1] = keys[c]
    BY <1>5, <1>10, OneBefore
  <2>2. Len(keys) = h
    BY <1>9
  <2> QED
    BY <1>6, <2>1, <2>2
<1>13. \A c \in 1..h :
         Lines(n, FALSE)[c + 1] =
           Moved(n.items[2 * c - 1].walk[1], OffsetOf(n.items, 2 * c - 1), 1)
  BY <1>11, <1>12
<1> QED
  BY <1>4, <1>12, <1>13 DEF h

\* The lines of a node begin with its own, and there are no others unless it makes
\* calls.
LEMMA LinesBegin ==
  ASSUME NEW N, Closed(N), NEW n \in N, NEW deep \in BOOLEAN
  PROVE  /\ Lines(n, deep) \in Seq(LineSet) /\ Len(Lines(n, deep)) \in Nat
         /\ 1 <= Len(Lines(n, deep)) /\ Lines(n, deep)[1] = Own(n)
         /\ (~Shut(n) \/ (~deep /\ n.type # "T_DICT")) => Len(Lines(n, deep)) = 1
<1>1. CASE deep
  <2>1. Lines(n, deep) = n.walk
    BY <1>1 DEF Lines
  <2> QED
    BY <1>1, <2>1, WalkBegins
<1>2. CASE ~deep /\ n.type = "T_DICT"
  <2>1. deep = FALSE /\ Shut(n)
    BY <1>2 DEF Shut
  <2>2. PairCount(n) \in Nat
    BY <1>2, KeyLines
  <2>3. 1 <= PairCount(n) + 1 /\ PairCount(n) + 1 \in Nat
    BY <2>2
  <2>4. /\ Lines(n, FALSE) \in Seq(LineSet) /\ Len(Lines(n, FALSE)) = PairCount(n) + 1
        /\ Lines(n, FALSE)[1] = Own(n)
    BY <1>2, KeyLines
  <2> QED
    BY <1>2, <2>1, <2>3, <2>4
<1>3. CASE ~deep /\ n.type # "T_DICT"
  <2>1. n.walk[1] = Own(n) /\ Own(n) \in LineSet
    BY WalkBegins
  <2>2. Lines(n, deep) = <<Own(n)>> \o <<>>
    BY <1>3, <2>1 DEF Lines
  <2>3. <<>> \in Seq(LineSet) /\ Len(<<>>) = 0
    OBVIOUS
  <2>4. /\ Lines(n, deep) \in Seq(LineSet) /\ Len(Lines(n, deep)) = 0 + 1
        /\ Lines(n, deep)[1] = Own(n)
    BY <2>1, <2>2, <2>3, OneBefore
  <2> QED
    BY <2>4
<1> QED
  BY <1>1, <1>2, <1>3

\* With -r: all items, in turn.
LEMMA DeepDivided ==
  ASSUME NEW N, Closed(N), NEW n \in N, Shut(n)
  PROVE  \E q : Divided(n, TRUE, [k \in 1..Len(n.items) |-> k],
                        [k \in 1..Len(n.items) |-> DepthOf(n.type, k)], q, Len(n.items))
<1> DEFINE it == n.items
           M == Len(it)
           b == Below(n.type, it)
           w == n.walk
<1>1. M \in Nat /\ \A k \in 1..M : it[k] \in N
  BY ItemTexts
<1>2. \A k \in 1..M : it[k].walk \in Seq(LineSet) /\ Len(it[k].walk) \in Nat
  BY <1>1, WalkBegins
<1>3. /\ b \in Seq(LineSet)
      /\ \E q : /\ q[1] = 0 /\ q[M + 1] = Len(b)
                /\ \A k \in 1..M :
                     /\ q[k] \in Nat /\ q[k + 1] = q[k] + Len(it[k].walk)
                     /\ q[k + 1] <= Len(b)
                     /\ \A j \in 1..Len(it[k].walk) :
                          b[q[k] + j] = Moved(it[k].walk[j], OffsetOf(it, k), DepthOf(n.type, k))
  BY <1>2, BelowIs
<1>4. w = <<Own(n)>> \o b /\ Own(n) \in LineSet
  BY WalkIs, OwnLine
<1>5. \A k \in 1..M : Lines(it[k], TRUE) = it[k].walk
  BY DEF Lines
<1>6. Lines(n, TRUE) = w
  BY DEF Lines
<1> HIDE DEF it, M, b, w
<1>7. Len(b) \in Nat /\ Len(w) = Len(b) + 1 /\ \A c \in 1..Len(b) : w[c + 1] = b[c]
  <2>1. Len(b) \in Nat
    BY <1>3, LenProperties
  <2> QED
    BY <1>3, <1>4, <2>1, OneBefore
<1>8. PICK q : /\ q[1] = 0 /\ q[M + 1] = Len(b)
               /\ \A k \in 1..M :
                    /\ q[k] \in Nat /\ q[k + 1] = q[k] + Len(it[k].walk)
                    /\ q[k + 1] <= Len(b)
                    /\ \A j \in 1..Len(it[k].walk) :
                         b[q[k] + j] = Moved(it[k].walk[j], OffsetOf(it, k), DepthOf(n.type, k))
  BY <1>3
<1> DEFINE r == [k \in 1..(M + 1) |-> q[k] + 1]
           m == [k \in 1..M |-> k]
           d == [k \in 1..M |-> DepthOf(n.type, k)]
<1>9. r[1] = 1 /\ r[M + 1] = Len(w)
  <2>1. 1 \in 1..(M + 1) /\ M + 1 \in 1..(M + 1)
    BY <1>1
  <2>2. r[1] = q[1] + 1 /\ r[M + 1] = q[M + 1] + 1
    BY <2>1
  <2> HIDE DEF r
  <2> QED
    BY <1>7, <1>8, <2>2
<1>10. ASSUME NEW k \in 1..M PROVE Section(n, TRUE, m[k], d[k], r[k], r[k + 1])
  <2> DEFINE u == it[k].walk
  <2>1. k \in 1..(M + 1) /\ k + 1 \in 1..(M + 1)
    BY <1>1
  <2>2. r[k] = q[k] + 1 /\ r[k + 1] = q[k + 1] + 1 /\ m[k] = k /\ d[k] = DepthOf(n.type, k)
    BY <2>1
  <2> HIDE DEF r, m, d
  <2>3. /\ q[k] \in Nat /\ q[k + 1] = q[k] + Len(u) /\ q[k + 1] <= Len(b) /\ Len(u) \in Nat
        /\ \A j \in 1..Len(u) : b[q[k] + j] = Moved(u[j], OffsetOf(it, k), DepthOf(n.type, k))
    BY <1>2, <1>8
  <2>4. Lines(it[k], TRUE) = u
    BY <1>5
  <2> HIDE DEF u
  <2> DEFINE g == q[k]
             z == Len(u)
             y == Len(b)
  <2>8. r[k] = g + 1 /\ r[k + 1] = (g + z) + 1 /\ g \in Nat /\ z \in Nat /\ g + z <= y /\ y \in Nat
        /\ Len(w) = y + 1
    BY <1>7, <2>2, <2>3
  <2> HIDE DEF g, y
  <2>5. r[k] \in Nat \ {0} /\ r[k + 1] = r[k] + Len(u) /\ r[k + 1] <= Len(w)
    <3> HIDE DEF z
    <3>1. r[k] \in Nat \ {0} /\ r[k + 1] = r[k] + z /\ r[k + 1] <= Len(w)
      BY <2>8
    <3> QED
      BY <3>1 DEF z
  <2>6. \A j \in 1..Len(u) : w[r[k] + j] = Moved(u[j], OffsetOf(it, k), DepthOf(n.type, k))
    <3> SUFFICES ASSUME NEW j \in 1..Len(u)
                 PROVE  w[r[k] + j] = Moved(u[j], OffsetOf(it, k), DepthOf(n.type, k))
      OBVIOUS
    <3>4. j \in 1..z
      OBVIOUS
    <3> HIDE DEF z
    <3>5. g + j \in 1..y /\ (g + j) + 1 = r[k] + j
      BY <2>8, <3>4
    <3>1. q[k] + j \in 1..Len(b) /\ (q[k] + j) + 1 = r[k] + j
      BY <3>5 DEF g, y
    <3>2. w[(q[k] + j) + 1] = b[q[k] + j]
      BY <1>7, <3>1
    <3>3. b[q[k] + j] = Moved(u[j], OffsetOf(it, k), DepthOf(n.type, k))
      BY <2>3
    <3> QED
      BY <3>1, <3>2, <3>3
  <2>7. DepthOf(n.type, k) \in Nat
    BY DEF DepthOf
  <2> QED
    BY <1>6, <2>2, <2>4, <2>5, <2>6, <2>7 DEF Section, it, M
<1> HIDE DEF r, m, d
<1>11. Divided(n, TRUE, m, d, r, M)
  BY <1>1, <1>6, <1>9, <1>10 DEF Divided
<1>12. \E x : Divided(n, TRUE, m, d, x, M)
  BY <1>11
<1> QED
  BY <1>12 DEF m, d, M, it

\* Without: the keys of a dictionary.
LEMMA KeysDivided ==
  ASSUME NEW N, Closed(N), NEW n \in N, n.type = "T_DICT"
  PROVE  Divided(n, FALSE, [c \in 1..PairCount(n) |-> 2 * c - 1], [c \in 1..PairCount(n) |-> 1],
                 [c \in 1..(PairCount(n) + 1) |-> c], PairCount(n))
<1> DEFINE h == PairCount(n)
           m == [c \in 1..h |-> 2 * c - 1]
           d == [c \in 1..h |-> 1]
           q == [c \in 1..(h + 1) |-> c]
           L == Lines(n, FALSE)
<1>1. /\ h \in Nat /\ \A c \in 1..h : 2 * c - 1 \in 1..Len(n.items)
      /\ Len(L) = h + 1
      /\ \A c \in 1..h :
           L[c + 1] = Moved(n.items[2 * c - 1].walk[1], OffsetOf(n.items, 2 * c - 1), 1)
  BY KeyLines
<1>2. Shut(n)
  BY DEF Shut
<1>3. \A k \in 1..Len(n.items) : n.items[k] \in N
  BY <1>2, ItemTexts
<1>4. Legal(n, N)
  BY DEF Closed
<1>5. /\ Len(n.items) % 2 = 0 /\ Len(n.items) \in Nat
      /\ \A k \in 1..Len(n.items) : k % 2 = 1 => n.items[k].type = "T_STRING"
  <2>1. Len(n.items) \in Nat
    BY <1>2, ItemTexts
  <2>2. /\ Len(n.items) % 2 = 0
        /\ \A k \in 1..Len(n.items) : k % 2 = 1 => n.items[k].type = "T_STRING"
    BY <1>2, <1>4, LegalCompound
  <2> QED
    BY <2>1, <2>2
<1>6. \A c \in 1..h : (2 * c - 1) % 2 = 1
  BY <1>5, Halves DEF PairCount
<1>10. m = [c \in 1..h |-> 2 * c - 1] /\ d = [c \in 1..h |-> 1] /\ q = [c \in 1..(h + 1) |-> c]
  OBVIOUS
<1> HIDE DEF h, L
<1>7. q[1] = 1 /\ q[h + 1] = Len(L)
  <2>1. 1 \in 1..(h + 1) /\ h + 1 \in 1..(h + 1)
    BY <1>1
  <2> QED
    BY <1>1, <2>1
<1>8. ASSUME NEW c \in 1..h PROVE Section(n, FALSE, m[c], d[c], q[c], q[c + 1])
  <2> DEFINE k == 2 * c - 1
             x == n.items[k]
  <2>1. c \in 1..(h + 1) /\ c + 1 \in 1..(h + 1)
    BY <1>1
  <2>2. q[c] = c /\ q[c + 1] = c + 1 /\ m[c] = k /\ d[c] = 1
    BY <2>1
  <2>3. k \in 1..Len(n.items) /\ k % 2 = 1 /\ L[c + 1] = Moved(n.items[k].walk[1], OffsetOf(n.items, k), 1)
    BY <1>1, <1>6
  <2> HIDE DEF q, m, d, k
  <2>4. x \in N /\ x.type = "T_STRING"
    BY <1>3, <1>5, <2>3
  <2>5. ~Shut(x)
    BY <2>4 DEF Shut
  <2>7. L[c + 1] = Moved(x.walk[1], OffsetOf(n.items, k), 1)
    BY <2>3
  <2> HIDE DEF x
  <2>6. Len(Lines(x, FALSE)) = 1 /\ Lines(x, FALSE)[1] = x.walk[1]
    BY <2>4, <2>5, LinesBegin, WalkBegins
  <2>8. \A j \in 1..Len(Lines(x, FALSE)) :
          L[q[c] + j] = Moved(Lines(x, FALSE)[j], OffsetOf(n.items, k), 1)
    <3> SUFFICES ASSUME NEW j \in 1..1
                 PROVE  L[q[c] + j] = Moved(Lines(x, FALSE)[j], OffsetOf(n.items, k), 1)
      BY <2>6
    <3>1. j = 1
      OBVIOUS
    <3> QED
      BY <2>2, <2>6, <2>7, <3>1
  <2>9. q[c] \in Nat \ {0} /\ q[c + 1] = q[c] + 1 /\ q[c + 1] <= Len(L)
    BY <1>1, <2>2
  <2> DEFINE a == q[c]
  <2>10. Section(n, FALSE, k, 1, a, a + 1)
    <3>1. a \in Nat \ {0} /\ a + 1 <= Len(L)
      BY <2>9
    <3>2. \A j \in 1..Len(Lines(x, FALSE)) :
            L[a + j] = Moved(Lines(x, FALSE)[j], OffsetOf(n.items, k), 1)
      BY <2>8
    <3> HIDE DEF a
    <3>3. a + 1 = a + Len(Lines(x, FALSE))
      BY <2>6
    <3> QED
      BY <2>3, <3>1, <3>2, <3>3 DEF Section, x, L
  <2> QED
    BY <2>2, <2>9, <2>10
<1> HIDE DEF m, d, q
<1>9. Divided(n, FALSE, m, d, q, h)
  BY <1>1, <1>7, <1>8 DEF Divided, L
<1> QED
  BY <1>9, <1>10 DEF h

-----------------------------------------------------------------------------
(***************************************************************************)
(* The calls of handle_bencoded_node().                                    *)
(***************************************************************************)

\* A call: where, and how deep.
Call == [off : Nat, depth : Nat]

\* The calls that a call at the node n makes, for K of its items.
CallsFor(n, call, m, d, K) ==
  [c \in 1..K |-> [off |-> call.off + OffsetOf(n.items, m[c]), depth |-> call.depth + d[c]]]

\* A key and its value, in the text.
LEMMA PairAt ==
  ASSUME NEW N, NEW n, NEW s, NEW i, Stands(N, n, s, i), n.type = "T_DICT",
         NEW c \in 1..PairCount(n)
  PROVE  /\ i + benc_dict_key_offset(s, i, c - 1) = i + OffsetOf(n.items, 2 * c - 1)
         /\ (i + benc_dict_key_offset(s, i, c - 1))
              + benc_entity_length(s, i + benc_dict_key_offset(s, i, c - 1))
            = i + OffsetOf(n.items, 2 * c)
<1> DEFINE k == 2 * c - 1
<1>1. /\ benc_dict_key_offset(s, i, c - 1) = OffsetOf(n.items, k)
      /\ OffsetOf(n.items, k) \in Nat
      /\ k \in 1..Len(n.items) /\ 2 * c \in 1..Len(n.items)
  BY KeyOffsetAt
<1>2. Shut(n)
  BY DEF Shut
<1>3. k + 1 = 2 * c /\ i \in Nat
  <2>2. c \in Int
    OBVIOUS
  <2> QED
    BY <2>2 DEF Stands, Occurs
<1> HIDE DEF k
<1>4. /\ Stands(N, n.items[k], s, i + OffsetOf(n.items, k))
      /\ OffsetOf(n.items, k + 1) = OffsetOf(n.items, k) + Len(n.items[k].text)
  BY <1>1, <1>2, ItemStands
<1>5. benc_entity_length(s, i + OffsetOf(n.items, k)) = Len(n.items[k].text)
  BY <1>4, NodeAt
<1>6. Len(n.items[k].text) \in Nat
  BY <1>4 DEF Stands, Occurs
<1>7. (i + OffsetOf(n.items, k)) + Len(n.items[k].text) = i + OffsetOf(n.items, 2 * c)
  <2> DEFINE a == OffsetOf(n.items, k)
             b == Len(n.items[k].text)
             z == OffsetOf(n.items, 2 * c)
  <2>1. a \in Nat /\ b \in Nat /\ i \in Nat /\ z = a + b
    BY <1>1, <1>3, <1>4, <1>6
  <2> HIDE DEF a, b, z
  <2>2. (i + a) + b = i + z
    BY <2>1
  <2> QED
    BY <2>2 DEF a, b, z
<1> QED
  BY <1>1, <1>5, <1>7 DEF k

\* With -r a dictionary has its keys and its values handled, in turn.
LEMMA DictCallsDeep ==
  ASSUME NEW N, NEW n, NEW s, NEW call \in Call, Stands(N, n, s, call.off), n.type = "T_DICT",
         recurse = TRUE
  PROVE  DictCalls(s, call) =
           CallsFor(n, call, [k \in 1..Len(n.items) |-> k],
                    [k \in 1..Len(n.items) |-> DepthOf(n.type, k)], Len(n.items))
<1> DEFINE i == call.off
           M == Len(n.items)
           h == PairCount(n)
           key(c) == i + benc_dict_key_offset(s, i, c - 1)
           value(c) == key(c) + benc_entity_length(s, key(c))
           K == Len(Keys(s, i))
           f == [j \in 1..(2 * K) |->
                   [off |-> IF j % 2 = 1 THEN key((j + 1) \div 2) ELSE value((j + 1) \div 2),
                    depth |-> call.depth + 2 - (j % 2)]]
           g == CallsFor(n, call, [k \in 1..M |-> k], [k \in 1..M |-> DepthOf(n.type, k)], M)
<1>1. Shut(n)
  BY DEF Shut
<1>2. DictCalls(s, call) = f
  BY DEF DictCalls
<1>3. K = h
  BY KeysAt
<1>4. M \in Nat
  BY <1>1, ItemsAt
<1>5. M % 2 = 0
  BY <1>1, NodeAt, LegalCompound
<1>6. h \in Nat /\ M = 2 * h
  BY <1>4, <1>5, Halves DEF PairCount
<1>7. \A c \in 1..h : key(c) = i + OffsetOf(n.items, 2 * c - 1) /\ value(c) = i + OffsetOf(n.items, 2 * c)
  BY PairAt
<1>8. call.depth \in Nat
  BY DEF Call
<1>9. g = [k \in 1..M |-> [off |-> i + OffsetOf(n.items, k), depth |-> call.depth + DepthOf(n.type, k)]]
  BY DEF CallsFor
<1> HIDE DEF key, value, g, K, M, h
<1>10. ASSUME NEW j \in 1..M
       PROVE  /\ (IF j % 2 = 1 THEN key((j + 1) \div 2) ELSE value((j + 1) \div 2))
                   = i + OffsetOf(n.items, j)
              /\ call.depth + 2 - (j % 2) = call.depth + DepthOf(n.type, j)
  <2>1. CASE j % 2 = 1
    <3>1. (j + 1) \div 2 \in 1..h /\ 2 * ((j + 1) \div 2) - 1 = j
      BY <1>6, <2>1
    <3>2. key((j + 1) \div 2) = i + OffsetOf(n.items, j)
      BY <1>7, <3>1
    <3>3. DepthOf(n.type, j) = 1
      BY <2>1 DEF DepthOf
    <3> QED
      BY <1>8, <2>1, <3>2, <3>3
  <2>2. CASE j % 2 = 0
    <3>1. (j + 1) \div 2 \in 1..h /\ 2 * ((j + 1) \div 2) = j
      BY <1>6, <2>2
    <3>2. value((j + 1) \div 2) = i + OffsetOf(n.items, j)
      BY <1>7, <3>1
    <3>3. DepthOf(n.type, j) = 2
      BY <2>2 DEF DepthOf
    <3> QED
      BY <1>8, <2>2, <3>2, <3>3
  <2>3. j % 2 = 1 \/ j % 2 = 0
    OBVIOUS
  <2> QED
    BY <2>1, <2>2, <2>3
<1>11. f = g
  BY <1>3, <1>6, <1>9, <1>10
<1> QED
  BY <1>2, <1>11 DEF g, M

\* Without -r, its keys.
LEMMA DictCallsKeys ==
  ASSUME NEW N, NEW n, NEW s, NEW call \in Call, Stands(N, n, s, call.off), n.type = "T_DICT",
         recurse = FALSE
  PROVE  DictCalls(s, call) =
           CallsFor(n, call, [c \in 1..PairCount(n) |-> 2 * c - 1], [c \in 1..PairCount(n) |-> 1],
                    PairCount(n))
<1> DEFINE i == call.off
           h == PairCount(n)
           K == Len(Keys(s, i))
           key(c) == i + benc_dict_key_offset(s, i, c - 1)
           f == [c \in 1..K |-> [off |-> key(c), depth |-> call.depth + 1]]
           g == CallsFor(n, call, [c \in 1..h |-> 2 * c - 1], [c \in 1..h |-> 1], h)
<1>1. DictCalls(s, call) = f
  BY DEF DictCalls
<1>2. K = h
  BY KeysAt
<1>3. \A c \in 1..h : key(c) = i + OffsetOf(n.items, 2 * c - 1)
  BY PairAt
<1>4. g = [c \in 1..h |-> [off |-> i + OffsetOf(n.items, 2 * c - 1), depth |-> call.depth + 1]]
  BY DEF CallsFor
<1> HIDE DEF key, g, K, h
<1>5. f = g
  BY <1>2, <1>3, <1>4
<1> QED
  BY <1>1, <1>5 DEF g, h

\* A list has its items handled, with -r.
LEMMA ListCallsMade ==
  ASSUME NEW N, NEW n, NEW s, NEW call \in Call, Stands(N, n, s, call.off), n.type = "T_LIST"
  PROVE  ListCalls(s, call) =
           IF recurse
             THEN CallsFor(n, call, [k \in 1..Len(n.items) |-> k],
                           [k \in 1..Len(n.items) |-> DepthOf(n.type, k)], Len(n.items))
             ELSE <<>>
<1> DEFINE i == call.off
           M == Len(n.items)
           K == Counted(s, i)
           item(c) == benc_list_item_offset(s, i, c - 1)
           f == [c \in 1..K |-> [off |-> i + item(c), depth |-> call.depth + 1]]
           g == CallsFor(n, call, [k \in 1..M |-> k], [k \in 1..M |-> DepthOf(n.type, k)], M)
<1>1. Shut(n)
  BY DEF Shut
<1>2. ListCalls(s, call) = IF recurse THEN f ELSE <<>>
  BY DEF ListCalls
<1>3. M \in Nat /\ K = M
  BY <1>1, ItemsAt
<1>4. ASSUME NEW c \in 1..M PROVE item(c) = OffsetOf(n.items, c)
  <2>1. c - 1 \in Int /\ c - 1 \in 0..(M - 1) /\ (c - 1) + 1 = c
    BY <1>3
  <2>2. benc_list_item_offset(s, i, c - 1) =
          IF c - 1 \in 0..(Len(n.items) - 1) THEN OffsetOf(n.items, (c - 1) + 1) ELSE -1
    BY <2>1, ListItemAt
  <2> QED
    BY <2>1, <2>2
<1>5. g = [k \in 1..M |-> [off |-> i + OffsetOf(n.items, k), depth |-> call.depth + DepthOf(n.type, k)]]
  BY DEF CallsFor
<1> HIDE DEF item, g, K, M
<1>6. \A c \in 1..M : DepthOf(n.type, c) = 1
  BY DEF DepthOf
<1>7. f = g
  BY <1>3, <1>4, <1>5, <1>6
<1> QED
  BY <1>2, <1>7 DEF g, M

-----------------------------------------------------------------------------
(***************************************************************************)
(* Lines that are still to be printed.                                     *)
(***************************************************************************)

\* The call is for the node n, whose lines are those of ex from a to before b.
Laid(ex, s, deep, n, call, a, b) ==
  /\ Stands(Nodes, n, s, call.off) /\ call \in Call /\ deep \in BOOLEAN
  /\ a \in Nat \ {0} /\ b = a + Len(Lines(n, deep))
  /\ \A j \in 1..Len(Lines(n, deep)) :
       ex[a + j - 1] = Moved(Lines(n, deep)[j], call.off, call.depth)

\* The calls are for the nodes ns, whose lines begin at the places p.
Linked(ex, s, deep, ns, p, calls, a, b) ==
  /\ p[1] = a /\ p[Len(calls) + 1] = b
  /\ \A k \in 1..Len(calls) : Laid(ex, s, deep, ns[k], calls[k], p[k], p[k + 1])

\* One behind the other, the calls print the lines of ex from a to before b.
Chained(ex, s, deep, calls, a, b) ==
  /\ calls \in Seq(Call) /\ a \in Nat \ {0}
  /\ \E ns, p : Linked(ex, s, deep, ns, p, calls, a, b)

\* From nodes and places to the chain.
LEMMA Link ==
  ASSUME NEW ex, NEW s, NEW deep, NEW calls \in Seq(Call), NEW a \in Nat \ {0}, NEW b,
         NEW ns, NEW p, Linked(ex, s, deep, ns, p, calls, a, b)
  PROVE  Chained(ex, s, deep, calls, a, b)
<1>1. \E x, y : Linked(ex, s, deep, x, y, calls, a, b)
  OBVIOUS
<1> QED
  BY <1>1 DEF Chained

\* The first of a node's lines is its own, and the places are numbers.
LEMMA LaidPlaces ==
  ASSUME NEW ex, NEW s, NEW deep, NEW n, NEW call, NEW a, NEW b,
         Laid(ex, s, deep, n, call, a, b)
  PROVE  /\ a \in Nat \ {0} /\ b \in Nat \ {0} /\ a + 1 <= b
         /\ ex[a] = Moved(Own(n), call.off, call.depth)
<1> DEFINE L == Lines(n, deep)
<1>1. /\ Closed(Nodes) /\ n \in Nodes /\ deep \in BOOLEAN /\ a \in Nat \ {0} /\ b = a + Len(L)
      /\ \A j \in 1..Len(L) : ex[a + j - 1] = Moved(L[j], call.off, call.depth)
  BY DEF Laid, Stands
<1>2. Len(L) \in Nat /\ 1 <= Len(L) /\ L[1] = Own(n)
  BY <1>1, LinesBegin
<1> HIDE DEF L
<1>3. 1 \in 1..Len(L) /\ a + 1 - 1 = a
  BY <1>1, <1>2
<1>4. ex[a + 1 - 1] = Moved(L[1], call.off, call.depth)
  BY <1>1, <1>3
<1>5. b \in Nat \ {0} /\ a + 1 <= b
  BY <1>1, <1>2
<1> QED
  BY <1>1, <1>2, <1>3, <1>4, <1>5

\* No calls, no lines.
LEMMA ChainEmpty ==
  ASSUME NEW ex, NEW s, NEW deep, NEW a, NEW b
  PROVE  /\ Chained(ex, s, deep, <<>>, a, b) => a = b
         /\ a \in Nat \ {0} => Chained(ex, s, deep, <<>>, a, a)
<1>1. Len(<<>>) = 0 /\ 0 + 1 = 1 /\ <<>> \in Seq(Call)
  OBVIOUS
<1>2. ASSUME Chained(ex, s, deep, <<>>, a, b) PROVE a = b
  <2>1. PICK ns, p : Linked(ex, s, deep, ns, p, <<>>, a, b)
    BY <1>2 DEF Chained
  <2>2. p[1] = a /\ p[Len(<<>>) + 1] = b
    BY <2>1 DEF Linked
  <2> QED
    BY <1>1, <2>2
<1>3. ASSUME a \in Nat \ {0} PROVE Chained(ex, s, deep, <<>>, a, a)
  <2> DEFINE p == [k \in {1} |-> a]
  <2>1. p[1] = a
    OBVIOUS
  <2> HIDE DEF p
  <2>2. Linked(ex, s, deep, <<>>, p, <<>>, a, a)
    BY <1>1, <2>1 DEF Linked
  <2> QED
    BY <1>1, <1>3, <2>2, Link
<1> QED
  BY <1>2, <1>3

\* One call.
LEMMA ChainOne ==
  ASSUME NEW ex, NEW s, NEW deep, NEW n, NEW call, NEW a, NEW b,
         Laid(ex, s, deep, n, call, a, b)
  PROVE  Chained(ex, s, deep, <<call>>, a, b)
<1> DEFINE calls == <<call>>
           ns == <<n>>
           p == <<a, b>>
<1>1. call \in Call /\ a \in Nat \ {0}
  BY DEF Laid
<1>2. calls \in Seq(Call) /\ Len(calls) = 1 /\ calls[1] = call
  BY <1>1
<1>3. ns[1] = n /\ p[1] = a /\ p[2] = b
  OBVIOUS
<1> HIDE DEF calls, ns, p
<1>4. 1 + 1 = 2 /\ \A k \in 1..1 : k = 1
  OBVIOUS
<1>5. \A k \in 1..1 : Laid(ex, s, deep, ns[k], calls[k], p[k], p[k + 1])
  <2> SUFFICES ASSUME NEW k \in 1..1 PROVE Laid(ex, s, deep, ns[k], calls[k], p[k], p[k + 1])
    OBVIOUS
  <2>1. k = 1 /\ k + 1 = 2
    OBVIOUS
  <2> QED
    BY <1>2, <1>3, <2>1
<1>6. Linked(ex, s, deep, ns, p, calls, a, b)
  BY <1>2, <1>3, <1>4, <1>5 DEF Linked
<1>7. Chained(ex, s, deep, calls, a, b)
  BY <1>1, <1>2, <1>6, Link
<1> QED
  BY <1>7 DEF calls

\* The first call, and the others.
LEMMA ChainFirst ==
  ASSUME NEW ex, NEW s, NEW deep, NEW calls, NEW a, NEW b,
         Chained(ex, s, deep, calls, a, b), calls # <<>>
  PROVE  \E n, c : /\ Laid(ex, s, deep, n, Head(calls), a, c)
                   /\ Chained(ex, s, deep, Tail(calls), c, b)
<1>1. calls \in Seq(Call) /\ a \in Nat \ {0}
  BY DEF Chained
<1>2. PICK ns, p : Linked(ex, s, deep, ns, p, calls, a, b)
  BY DEF Chained
<1> DEFINE K == Len(calls)
           rest == Tail(calls)
           first == Head(calls)
<1>3. /\ p[1] = a /\ p[K + 1] = b
      /\ \A k \in 1..K : Laid(ex, s, deep, ns[k], calls[k], p[k], p[k + 1])
  BY <1>2 DEF Linked
<1>4. /\ K \in Nat /\ 1 <= K /\ first = calls[1]
      /\ rest \in Seq(Call) /\ Len(rest) = K - 1
      /\ \A k \in 1..(K - 1) : rest[k] = calls[k + 1]
  BY <1>1, HeadTailProperties
<1> HIDE DEF K, rest, first
<1>5. Laid(ex, s, deep, ns[1], first, a, p[2])
  <2>1. 1 \in 1..K /\ 1 + 1 = 2
    BY <1>4
  <2>2. Laid(ex, s, deep, ns[1], calls[1], p[1], p[1 + 1])
    BY <1>3, <2>1
  <2> QED
    BY <1>3, <1>4, <2>1, <2>2
<1> DEFINE ms == [k \in 1..K |-> ns[k + 1]]
           q == [k \in 1..K |-> p[k + 1]]
<1>6. p[2] \in Nat \ {0}
  BY <1>5, LaidPlaces
<1>7. q[1] = p[2] /\ q[(K - 1) + 1] = b
  <2>1. 1 \in 1..K /\ K \in 1..K /\ (K - 1) + 1 = K /\ 1 + 1 = 2
    BY <1>4
  <2> QED
    BY <1>3, <2>1
<1>8. \A k \in 1..(K - 1) : Laid(ex, s, deep, ms[k], rest[k], q[k], q[k + 1])
  <2> SUFFICES ASSUME NEW k \in 1..(K - 1)
               PROVE  Laid(ex, s, deep, ms[k], rest[k], q[k], q[k + 1])
    OBVIOUS
  <2>1. k \in 1..K /\ k + 1 \in 1..K
    BY <1>4
  <2>2. ms[k] = ns[k + 1] /\ q[k] = p[k + 1] /\ q[k + 1] = p[(k + 1) + 1] /\ rest[k] = calls[k + 1]
    BY <1>4, <2>1
  <2> HIDE DEF ms, q
  <2>3. Laid(ex, s, deep, ns[k + 1], calls[k + 1], p[k + 1], p[(k + 1) + 1])
    BY <1>3, <2>1
  <2> QED
    BY <2>2, <2>3
<1> HIDE DEF ms, q
<1>9. Linked(ex, s, deep, ms, q, rest, p[2], b)
  <2>1. Len(rest) = K - 1
    BY <1>4
  <2> QED
    BY <1>7, <1>8, <2>1 DEF Linked
<1>10. Chained(ex, s, deep, rest, p[2], b)
  BY <1>4, <1>6, <1>9, Link
<1> QED
  BY <1>5, <1>10 DEF rest, first

\* Two chains, one behind the other.
LEMMA ChainJoin ==
  ASSUME NEW ex, NEW s, NEW deep, NEW calls, NEW more, NEW a, NEW b, NEW c,
         Chained(ex, s, deep, calls, a, b), Chained(ex, s, deep, more, b, c)
  PROVE  Chained(ex, s, deep, calls \o more, a, c)
<1>1. calls \in Seq(Call) /\ more \in Seq(Call) /\ a \in Nat \ {0}
  BY DEF Chained
<1>2. PICK ns, p : Linked(ex, s, deep, ns, p, calls, a, b)
  BY DEF Chained
<1>3. PICK ms, q : Linked(ex, s, deep, ms, q, more, b, c)
  BY DEF Chained
<1> DEFINE K == Len(calls)
           M == Len(more)
           all == calls \o more
<1>4. /\ p[1] = a /\ p[K + 1] = b
      /\ \A k \in 1..K : Laid(ex, s, deep, ns[k], calls[k], p[k], p[k + 1])
  BY <1>2 DEF Linked
<1>5. /\ q[1] = b /\ q[M + 1] = c
      /\ \A k \in 1..M : Laid(ex, s, deep, ms[k], more[k], q[k], q[k + 1])
  BY <1>3 DEF Linked
<1>6. /\ K \in Nat /\ M \in Nat /\ Len(all) = K + M /\ all \in Seq(Call)
      /\ \A j \in 1..K : all[j] = calls[j]
      /\ \A j \in 1..M : all[K + j] = more[j]
  BY <1>1, ConcatParts
<1> HIDE DEF K, M, all
<1> DEFINE ws == [k \in 1..(K + M) |-> IF k <= K THEN ns[k] ELSE ms[k - K]]
           r == [k \in 1..(K + M + 1) |-> IF k <= K THEN p[k] ELSE q[k - K]]
<1>7. r[1] = a /\ r[(K + M) + 1] = c
  <2>1. 1 \in 1..(K + M + 1) /\ (K + M) + 1 \in 1..(K + M + 1)
        /\ ~((K + M) + 1 <= K) /\ ((K + M) + 1) - K = M + 1
    BY <1>6
  <2>2. r[(K + M) + 1] = c
    BY <1>5, <2>1
  <2>3. CASE K = 0
    <3>1. ~(1 <= K) /\ 1 - K = 1 /\ a = b
      BY <1>4, <2>3
    <3>2. r[1] = q[1]
      BY <2>1, <3>1
    <3> QED
      BY <1>5, <2>2, <3>1, <3>2
  <2>4. CASE K # 0
    <3>1. 1 <= K
      BY <1>6, <2>4
    <3>2. r[1] = p[1]
      BY <2>1, <3>1
    <3> QED
      BY <1>4, <2>2, <3>2
  <2> QED
    BY <2>3, <2>4
<1>8. ASSUME NEW k \in 1..(K + M) PROVE Laid(ex, s, deep, ws[k], all[k], r[k], r[k + 1])
  <2>1. k \in 1..(K + M + 1) /\ k + 1 \in 1..(K + M + 1)
    BY <1>6
  <2>2. CASE k <= K
    <3>1. k \in 1..K
      BY <1>6, <2>2
    <3>2. ws[k] = ns[k] /\ r[k] = p[k] /\ all[k] = calls[k]
      BY <1>6, <2>1, <2>2, <3>1
    <3>3. r[k + 1] = p[k + 1]
      <4>1. CASE k = K
        <5>1. ~(k + 1 <= K) /\ (k + 1) - K = 1
          BY <1>6, <4>1
        <5>2. r[k + 1] = q[1]
          BY <2>1, <5>1
        <5> QED
          BY <1>4, <1>5, <4>1, <5>2
      <4>2. CASE k # K
        <5>1. k + 1 <= K
          BY <1>6, <2>2, <4>2
        <5> QED
          BY <2>1, <5>1
      <4> QED
        BY <4>1, <4>2
    <3> HIDE DEF ws, r
    <3>4. Laid(ex, s, deep, ns[k], calls[k], p[k], p[k + 1])
      BY <1>4, <3>1
    <3> QED
      BY <3>2, <3>3, <3>4
  <2>3. CASE ~(k <= K)
    <3> DEFINE j == k - K
    <3>1. j \in 1..M /\ K + j = k /\ ~(k + 1 <= K) /\ (k + 1) - K = j + 1
      BY <1>6, <2>3
    <3>2. ws[k] = ms[j] /\ r[k] = q[j] /\ r[k + 1] = q[(k + 1) - K]
      BY <2>1, <2>3, <3>1
    <3> HIDE DEF ws, r, j
    <3>3. all[k] = more[j] /\ r[k + 1] = q[j + 1]
      <4>1. all[K + j] = more[j]
        BY <1>6, <3>1
      <4> QED
        BY <3>1, <3>2, <4>1
    <3>4. Laid(ex, s, deep, ms[j], more[j], q[j], q[j + 1])
      BY <1>5, <3>1
    <3> QED
      BY <3>2, <3>3, <3>4
  <2> QED
    BY <2>2, <2>3
<1> HIDE DEF ws, r
<1>9. Linked(ex, s, deep, ws, r, all, a, c)
  BY <1>6, <1>7, <1>8 DEF Linked
<1>10. Chained(ex, s, deep, all, a, c)
  BY <1>1, <1>6, <1>9, Link
<1> QED
  BY <1>10 DEF all

\* A call of Call, made for an item.
LEMMA CallFor ==
  ASSUME NEW n, NEW s, NEW call \in Call, Stands(Nodes, n, s, call.off), Shut(n),
         NEW k \in 1..Len(n.items), NEW d \in Nat
  PROVE  /\ [off |-> call.off + OffsetOf(n.items, k), depth |-> call.depth + d] \in Call
         /\ Stands(Nodes, n.items[k], s, call.off + OffsetOf(n.items, k))
         /\ OffsetOf(n.items, k) \in Nat /\ call.off \in Nat /\ call.depth \in Nat
<1>1. Stands(Nodes, n.items[k], s, call.off + OffsetOf(n.items, k)) /\ OffsetOf(n.items, k) \in Nat
  BY ItemStands
<1>2. call.off \in Nat /\ call.depth \in Nat
  BY DEF Call
<1>3. call.off + OffsetOf(n.items, k) \in Nat /\ call.depth + d \in Nat
  BY <1>1, <1>2
<1> QED
  BY <1>1, <1>2, <1>3 DEF Call

\* A section of the lines of n is laid out where n is.
LEMMA SectionLaid ==
  ASSUME NEW ex, NEW s, NEW deep, NEW n, NEW call, NEW a, NEW b, Laid(ex, s, deep, n, call, a, b),
         Shut(n), NEW k, NEW d, NEW x, NEW y, Section(n, deep, k, d, x, y)
  PROVE  Laid(ex, s, deep, n.items[k],
              [off |-> call.off + OffsetOf(n.items, k), depth |-> call.depth + d], a + x, a + y)
<1> DEFINE item == n.items[k]
           o == OffsetOf(n.items, k)
           sub == [off |-> call.off + o, depth |-> call.depth + d]
           L == Lines(n, deep)
           M == Lines(item, deep)
<1>1. /\ Stands(Nodes, n, s, call.off) /\ call \in Call /\ deep \in BOOLEAN
      /\ a \in Nat \ {0} /\ b = a + Len(L)
      /\ \A j \in 1..Len(L) : ex[a + j - 1] = Moved(L[j], call.off, call.depth)
  BY DEF Laid
<1>2. /\ k \in 1..Len(n.items) /\ d \in Nat /\ x \in Nat \ {0} /\ y = x + Len(M) /\ y <= Len(L)
      /\ \A j \in 1..Len(M) : L[x + j] = Moved(M[j], o, d)
  BY DEF Section
<1>3. /\ sub \in Call /\ Stands(Nodes, item, s, sub.off) /\ o \in Nat
      /\ call.off \in Nat /\ call.depth \in Nat
  BY <1>1, <1>2, CallFor
<1>4. sub.off = call.off + o /\ sub.depth = call.depth + d
  OBVIOUS
<1>5. M \in Seq(LineSet) /\ Len(M) \in Nat
  <2>1. Closed(Nodes) /\ item \in Nodes
    BY <1>3 DEF Stands
  <2> HIDE DEF item
  <2> QED
    BY <1>1, <2>1, LinesBegin
<1>6. Len(L) \in Nat
  <2>1. Closed(Nodes) /\ n \in Nodes
    BY <1>1 DEF Stands
  <2> QED
    BY <1>1, <2>1, LinesBegin
<1> HIDE DEF item, o, sub, L, M
<1>7. ASSUME NEW j \in 1..Len(M) PROVE ex[(a + x) + j - 1] = Moved(M[j], sub.off, sub.depth)
  <2> DEFINE m == Len(M)
             l == Len(L)
  <2>0. j \in 1..m /\ m \in Nat /\ l \in Nat /\ x + m <= l
    BY <1>2, <1>5, <1>6
  <2> HIDE DEF m, l
  <2>1. x + j \in 1..l /\ (a + x) + j - 1 = a + (x + j) - 1
    BY <1>1, <1>2, <2>0
  <2>2. ex[a + (x + j) - 1] = Moved(L[x + j], call.off, call.depth)
    BY <1>1, <2>1 DEF l
  <2>3. L[x + j] = Moved(M[j], o, d)
    BY <1>2
  <2>4. M[j] \in LineSet
    BY <1>5, ElementOfSeq
  <2>5. Moved(Moved(M[j], o, d), call.off, call.depth) = Moved(M[j], call.off + o, call.depth + d)
    <3> DEFINE z == M[j]
               u == call.off
               v == call.depth
    <3>1. z \in LineSet /\ o \in Nat /\ d \in Nat /\ u \in Nat /\ v \in Nat
      BY <1>2, <1>3, <2>4
    <3> HIDE DEF z, u, v
    <3>2. Moved(Moved(z, o, d), u, v) = Moved(z, u + o, v + d)
      BY <3>1, MovedTwice
    <3> QED
      BY <3>2 DEF z, u, v
  <2> QED
    BY <1>4, <2>1, <2>2, <2>3, <2>5
<1>8. a + x \in Nat \ {0} /\ a + y = (a + x) + Len(M)
  BY <1>1, <1>2, <1>5
<1>9. Laid(ex, s, deep, item, sub, a + x, a + y)
  BY <1>1, <1>3, <1>7, <1>8 DEF Laid, M
<1> QED
  BY <1>9 DEF item, sub, o

\* The calls that a call makes go on where its own line ends.
LEMMA ChainSplit ==
  ASSUME NEW ex, NEW s, NEW deep, NEW n, NEW call, NEW a, NEW b, Laid(ex, s, deep, n, call, a, b),
         Shut(n), NEW m, NEW d, NEW q, NEW K, Divided(n, deep, m, d, q, K)
  PROVE  Chained(ex, s, deep, CallsFor(n, call, m, d, K), a + 1, b)
<1>1. /\ Stands(Nodes, n, s, call.off) /\ call \in Call /\ deep \in BOOLEAN
      /\ a \in Nat \ {0} /\ b = a + Len(Lines(n, deep))
  BY DEF Laid
<1>2. /\ K \in Nat /\ q[1] = 1 /\ q[K + 1] = Len(Lines(n, deep))
      /\ \A c \in 1..K : Section(n, deep, m[c], d[c], q[c], q[c + 1])
  BY DEF Divided
<1> DEFINE calls == CallsFor(n, call, m, d, K)
           sub(c) == [off |-> call.off + OffsetOf(n.items, m[c]), depth |-> call.depth + d[c]]
           ns == [c \in 1..K |-> n.items[m[c]]]
           p == [c \in 1..(K + 1) |-> a + q[c]]
<1>3. calls = [c \in 1..K |-> sub(c)]
  BY DEF CallsFor
<1>4. ASSUME NEW c \in 1..K PROVE sub(c) \in Call
  <2>1. m[c] \in 1..Len(n.items) /\ d[c] \in Nat
    BY <1>2 DEF Section
  <2> QED
    BY <1>1, <2>1, CallFor
<1>5. ASSUME NEW c \in 1..K
      PROVE  Laid(ex, s, deep, n.items[m[c]], sub(c), a + q[c], a + q[c + 1])
  <2>1. Section(n, deep, m[c], d[c], q[c], q[c + 1])
    BY <1>2
  <2> QED
    BY <2>1, SectionLaid
<1> HIDE DEF sub
<1>6. calls \in [1..K -> Call] /\ Len(calls) = K /\ \A c \in 1..K : calls[c] = sub(c)
  <2> HIDE DEF calls
  <2> QED
    BY <1>2, <1>3, <1>4
<1> HIDE DEF calls
<1>7. calls \in Seq(Call)
  BY <1>2, <1>6, SeqDef
<1>8. p[1] = a + 1 /\ p[K + 1] = b
  <2>1. 1 \in 1..(K + 1) /\ K + 1 \in 1..(K + 1)
    BY <1>2
  <2> QED
    BY <1>1, <1>2, <2>1
<1>9. ASSUME NEW c \in 1..K PROVE Laid(ex, s, deep, ns[c], calls[c], p[c], p[c + 1])
  <2>1. c \in 1..(K + 1) /\ c + 1 \in 1..(K + 1)
    BY <1>2
  <2>2. ns[c] = n.items[m[c]] /\ p[c] = a + q[c] /\ p[c + 1] = a + q[c + 1] /\ calls[c] = sub(c)
    BY <1>6, <2>1
  <2> HIDE DEF ns, p
  <2> QED
    BY <1>5, <2>2
<1> HIDE DEF ns, p
<1>10. Linked(ex, s, deep, ns, p, calls, a + 1, b)
  BY <1>6, <1>8, <1>9 DEF Linked
<1>11. a + 1 \in Nat \ {0}
  BY <1>1
<1>12. Chained(ex, s, deep, calls, a + 1, b)
  BY <1>7, <1>10, <1>11, Link
<1> QED
  BY <1>12 DEF calls

\* The calls that handle_bencoded_node() makes.
CallsMade(s, call) ==
  CASE benc_entity_type(s, call.off) = "T_DICT" -> DictCalls(s, call)
    [] benc_entity_type(s, call.off) = "T_LIST" -> ListCalls(s, call)
    [] OTHER -> <<>>

\* They print what is left of its node's lines.
LEMMA CallsChained ==
  ASSUME NEW ex, NEW s, NEW n, NEW call, NEW a, NEW b, recurse \in BOOLEAN,
         Laid(ex, s, recurse, n, call, a, b)
  PROVE  Chained(ex, s, recurse, CallsMade(s, call), a + 1, b)
<1> DEFINE deep == recurse
           i == call.off
<1>1. /\ Stands(Nodes, n, s, i) /\ call \in Call /\ Closed(Nodes) /\ n \in Nodes
      /\ a \in Nat \ {0} /\ b = a + Len(Lines(n, deep))
  BY DEF Laid, Stands
<1>2. benc_entity_type(s, i) = n.type
  BY <1>1, NodeAt
<1>3. ASSUME Len(Lines(n, deep)) = 1 PROVE Chained(ex, s, deep, <<>>, a + 1, b)
  <2>1. b = a + 1 /\ b \in Nat \ {0}
    BY <1>1, <1>3
  <2> QED
    BY <2>1, ChainEmpty
<1>4. CASE n.type = "T_DICT"
  <2>1. CallsMade(s, call) = DictCalls(s, call)
    BY <1>2, <1>4 DEF CallsMade
  <2>2. Shut(n)
    BY <1>4 DEF Shut
  <2>3. CASE deep = TRUE
    <3>1. DictCalls(s, call) =
            CallsFor(n, call, [k \in 1..Len(n.items) |-> k],
                     [k \in 1..Len(n.items) |-> DepthOf(n.type, k)], Len(n.items))
      BY <1>1, <1>4, <2>3, DictCallsDeep
    <3>2. PICK q : Divided(n, TRUE, [k \in 1..Len(n.items) |-> k],
                           [k \in 1..Len(n.items) |-> DepthOf(n.type, k)], q, Len(n.items))
      BY <1>1, <2>2, DeepDivided
    <3>3. Laid(ex, s, TRUE, n, call, a, b)
      BY <2>3
    <3>4. Chained(ex, s, TRUE, DictCalls(s, call), a + 1, b)
      BY <2>2, <3>1, <3>2, <3>3, ChainSplit
    <3> QED
      BY <2>1, <2>3, <3>4
  <2>4. CASE deep = FALSE
    <3>1. DictCalls(s, call) =
            CallsFor(n, call, [c \in 1..PairCount(n) |-> 2 * c - 1],
                     [c \in 1..PairCount(n) |-> 1], PairCount(n))
      BY <1>1, <1>4, <2>4, DictCallsKeys
    <3>2. Divided(n, FALSE, [c \in 1..PairCount(n) |-> 2 * c - 1],
                  [c \in 1..PairCount(n) |-> 1], [c \in 1..(PairCount(n) + 1) |-> c], PairCount(n))
      BY <1>1, <1>4, KeysDivided
    <3>3. Laid(ex, s, FALSE, n, call, a, b)
      BY <2>4
    <3>4. Chained(ex, s, FALSE, DictCalls(s, call), a + 1, b)
      BY <2>2, <3>1, <3>2, <3>3, ChainSplit
    <3> QED
      BY <2>1, <2>4, <3>4
  <2> QED
    BY <2>3, <2>4
<1>5. CASE n.type = "T_LIST"
  <2>1. CallsMade(s, call) = ListCalls(s, call)
    BY <1>2, <1>5 DEF CallsMade
  <2>2. Shut(n)
    BY <1>5 DEF Shut
  <2>3. CASE deep = TRUE
    <3>1. ListCalls(s, call) =
            CallsFor(n, call, [k \in 1..Len(n.items) |-> k],
                     [k \in 1..Len(n.items) |-> DepthOf(n.type, k)], Len(n.items))
      BY <1>1, <1>5, <2>3, ListCallsMade
    <3>2. PICK q : Divided(n, TRUE, [k \in 1..Len(n.items) |-> k],
                           [k \in 1..Len(n.items) |-> DepthOf(n.type, k)], q, Len(n.items))
      BY <1>1, <2>2, DeepDivided
    <3>3. Laid(ex, s, TRUE, n, call, a, b)
      BY <2>3
    <3>4. Chained(ex, s, TRUE, ListCalls(s, call), a + 1, b)
      BY <2>2, <3>1, <3>2, <3>3, ChainSplit
    <3> QED
      BY <2>1, <2>3, <3>4
  <2>4. CASE deep = FALSE
    <3>1. ListCalls(s, call) = <<>>
      BY <1>1, <1>5, <2>4, ListCallsMade
    <3>2. Len(Lines(n, deep)) = 1
      <4>1. Len(Lines(n, FALSE)) = 1
        BY <1>1, <1>5, LinesBegin
      <4> QED
        BY <2>4, <4>1
    <3> QED
      BY <1>3, <2>1, <3>1, <3>2
  <2> QED
    BY <2>3, <2>4
<1>6. CASE n.type \notin {"T_DICT", "T_LIST"}
  <2>1. CallsMade(s, call) = <<>>
    BY <1>2, <1>6 DEF CallsMade
  <2>2. Len(Lines(n, deep)) = 1
    BY <1>1, <1>6, LinesBegin DEF Shut
  <2> QED
    BY <1>3, <2>1, <2>2
<1> QED
  BY <1>4, <1>5, <1>6

-----------------------------------------------------------------------------
(***************************************************************************)
(* The invariant of torrentinfo.                                           *)
(***************************************************************************)

\* A token leads to the same item in the text and in the tree.
LEMMA StepFound ==
  ASSUME NEW n, Stands(Nodes, n, doc.text, root), NEW token \in Seq(Char)
  PROVE  /\ StepItem(n, token) = 0 => StepOffset(token) = -1
         /\ StepItem(n, token) # 0 =>
              /\ Shut(n) /\ StepItem(n, token) \in 1..Len(n.items)
              /\ StepOffset(token) = OffsetOf(n.items, StepItem(n, token))
<1> DEFINE s == doc.text
           k == StepItem(n, token)
<1>1. benc_entity_type(s, root) = n.type /\ n.type \in {"T_INT", "T_STRING", "T_LIST", "T_DICT"}
  BY NodeAt
<1>2. CASE n.type = "T_DICT"
  <2>1. Shut(n)
    BY <1>2 DEF Shut
  <2>2. k = ValueOf(n, token) /\ StepOffset(token) = benc_dict_value_offset(s, root, token)
    BY <1>1, <1>2 DEF StepItem, StepOffset
  <2>3. Len(n.items) \in Nat
    BY <2>1, ItemsAt
  <2>4. /\ ValueOf(n, token) \in 0..Len(n.items)
        /\ ValueOf(n, token) = 0 => benc_dict_value_offset(s, root, token) = -1
        /\ ValueOf(n, token) # 0 =>
             benc_dict_value_offset(s, root, token) = OffsetOf(n.items, ValueOf(n, token))
    BY <1>2, ValueAt
  <2> HIDE DEF k
  <2> QED
    BY <2>1, <2>2, <2>3, <2>4 DEF k
<1>3. CASE n.type = "T_LIST"
  <2> DEFINE v == Number(token, 0)
             M == Len(n.items)
  <2>1. Shut(n)
    BY <1>3 DEF Shut
  <2>2. M \in Nat
    BY <2>1, ItemsAt
  <2>3. v \in Nat
    BY NumberNat
  <2>4. v \in Int
    BY <2>3
  <2>5. benc_list_item_offset(s, root, v) =
          IF v \in 0..(M - 1) THEN OffsetOf(n.items, v + 1) ELSE -1
    <3> HIDE DEF v
    <3> QED
      BY <1>3, <2>4, ListItemAt
  <2>6. k = IF IsIndex(token) /\ v < M THEN v + 1 ELSE 0
    BY <1>3 DEF StepItem
  <2>7. StepOffset(token) = IF IsIndex(token) THEN benc_list_item_offset(s, root, v) ELSE -1
    BY <1>1, <1>3 DEF StepOffset
  <2> HIDE DEF v, k, M
  <2>8. CASE IsIndex(token) /\ v < M
    <3>1. v \in 0..(M - 1) /\ v + 1 \in 1..M /\ k = v + 1 /\ k # 0
      BY <2>2, <2>3, <2>6, <2>8
    <3>2. StepOffset(token) = OffsetOf(n.items, k)
      BY <2>5, <2>7, <2>8, <3>1
    <3> QED
      BY <2>1, <3>1, <3>2 DEF k, M
  <2>9. CASE ~(IsIndex(token) /\ v < M)
    <3>1. k = 0
      BY <2>6, <2>9
    <3>2. v \in 0..(M - 1) => v < M
      BY <2>2
    <3>3. StepOffset(token) = -1
      BY <2>5, <2>7, <2>9, <3>2
    <3> QED
      BY <3>1, <3>3 DEF k
  <2> QED
    BY <2>8, <2>9
<1>4. CASE n.type \notin {"T_DICT", "T_LIST"}
  BY <1>1, <1>4 DEF StepItem, StepOffset
<1> QED
  BY <1>1, <1>2, <1>3, <1>4

\* What is printed for a line is a line.
LEMMA SeenLine ==
  ASSUME NEW x \in LineSet
  PROVE  Seen(x) \in LineSet
<1>1. Read(x.number) \in Int
  BY DEF Read, LineSet
<1> QED
  BY <1>1 DEF Seen, LineSet

\* Types, and that nothing is printed before the walk.
ToolType ==
  /\ pc \in {"args", "path", "walk", "done", "torrent", "reply"}
  /\ doc \in Documents /\ tokens \in Seq(Seq(Char)) /\ recurse \in BOOLEAN
  /\ shown \in Seq(LineSet) /\ (pc \in {"args", "path"} => shown = <<>>)
  /\ pc = "done" => agenda = <<>>

\* The tokens have led to the same node in the text and in the tree.
Led == Stands(Nodes, target.node, doc.text, root) /\ target.off = root

\* The calls still to be made print what is left to be printed.
Planned ==
  pc \in {"walk", "done"} =>
    Chained(Expected, doc.text, recurse, agenda, Len(shown) + 1, Len(Expected) + 1)

\* What has been printed is the beginning of what should be.
Printed == \A k \in 1..Len(shown) : shown[k] = Seen(Expected[k])

\* What getpeers has read.
ReadFrom ==
  /\ pc = "torrent" => outcome = ReadTorrent(doc.text, given)
  /\ pc = "reply" =>
       sent \in Announces /\ outcome = Outcome("read", <<>>, <<>>, ReadPeers(AnnounceText(sent)))

\* The inductive invariant.
ToolInv == ToolType /\ Led /\ Planned /\ Printed /\ ReadFrom

\* The legal nodes are closed, and a document stands in its own text.
LEMMA DocumentStands ==
  ASSUME NEW n \in Documents
  PROVE  Stands(Nodes, n, n.text, 0)
<1>1. Closed(Nodes) /\ n \in Nodes
  BY NodesAssumption DEF Closed
<1>2. n.text \in Seq(Char)
  BY <1>1, LegalType DEF Closed
<1>3. Occurs(n.text, n.text, 0)
  BY <1>2, OccursItself
<1> QED
  BY <1>1, <1>2, <1>3 DEF Stands

\* What should be printed is laid out where the root node is.
LEMMA ExpectedLaid ==
  ASSUME Led, recurse \in BOOLEAN
  PROVE  /\ Laid(Expected, doc.text, recurse, target.node, [off |-> root, depth |-> 0],
                 1, Len(Expected) + 1)
         /\ Len(Expected) \in Nat
         /\ \A k \in 1..Len(Expected) : Expected[k] \in LineSet
<1> DEFINE n == target.node
           L == Lines(n, recurse)
           call == [off |-> root, depth |-> 0]
<1>1. Stands(Nodes, n, doc.text, root) /\ target.off = root /\ root \in Nat
      /\ Closed(Nodes) /\ n \in Nodes
  BY DEF Led, Stands, Occurs
<1>2. L \in Seq(LineSet) /\ Len(L) \in Nat
  BY <1>1, LinesBegin
<1>3. Expected = [k \in 1..Len(L) |-> Moved(L[k], root, 0)]
  BY <1>1 DEF Expected
<1>4. call \in Call /\ call.off = root /\ call.depth = 0
  BY <1>1 DEF Call
<1> HIDE DEF n, call, L
<1>5. Len(Expected) = Len(L)
  BY <1>2, <1>3
<1>6. \A j \in 1..Len(L) : Expected[1 + j - 1] = Moved(L[j], root, 0)
  <2> SUFFICES ASSUME NEW j \in 1..Len(L) PROVE Expected[1 + j - 1] = Moved(L[j], root, 0)
    OBVIOUS
  <2>1. 1 + j - 1 = j
    OBVIOUS
  <2> QED
    BY <1>3, <2>1
<1>7. \A k \in 1..Len(L) : Expected[k] \in LineSet
  <2> SUFFICES ASSUME NEW k \in 1..Len(L) PROVE Expected[k] \in LineSet
    OBVIOUS
  <2>1. L[k] \in LineSet /\ 0 \in Nat
    BY <1>2, ElementOfSeq
  <2>2. Moved(L[k], root, 0) \in LineSet
    BY <1>1, <2>1, MovedIs
  <2> QED
    BY <1>3, <2>2
<1>8. Len(L) + 1 = 1 + Len(L) /\ 1 \in Nat \ {0}
  BY <1>2
<1> HIDE DEF Expected
<1>9. Laid(Expected, doc.text, recurse, n, call, 1, Len(L) + 1)
  BY <1>1, <1>4, <1>6, <1>8 DEF Laid, L
<1> QED
  BY <1>2, <1>5, <1>7, <1>9 DEF n, call

\* Initially.
LEMMA ToolInvInit ==
  ASSUME ToolInit
  PROVE  ToolInv
<1>1. ToolType
  <2>1. <<>> \in Seq(Seq(Char)) /\ <<>> \in Seq(LineSet)
    OBVIOUS
  <2> QED
    BY <2>1 DEF ToolInit, ToolType
<1>2. Led
  BY DocumentStands DEF ToolInit, Led
<1>3. Planned
  BY DEF ToolInit, Planned
<1>4. Printed
  BY DEF ToolInit, Printed
<1>5. ReadFrom
  BY DEF ToolInit, ReadFrom
<1> QED
  BY <1>1, <1>2, <1>3, <1>4, <1>5 DEF ToolInv

\* As long as the arguments, the tree and the file stay the same, so does what
\* should be printed.
LEMMA ExpectedSame ==
  ASSUME UNCHANGED <<doc, recurse, target>>
  PROVE  Expected' = Expected
BY DEF Expected, Lines

\* Every step keeps the invariant.
LEMMA ToolInvNext ==
  ASSUME ToolInv, [ToolNext]_toolVars
  PROVE  ToolInv'
<1> USE DEF ToolInv
<1>1. CASE TorrentInfo
  <2> USE <1>1 DEF TorrentInfo
  <2>1. tokens' \in Seq(Seq(Char))
    BY PathsAssumption
  <2>2. ToolType'
    BY <2>1 DEF ToolType
  <2>3. Led'
    BY DEF Led
  <2>4. Planned' /\ ReadFrom'
    BY DEF Planned, ReadFrom
  <2>5. shown' = <<>>
    BY DEF ToolType
  <2>6. Printed'
    BY <2>5 DEF Printed
  <2> QED
    BY <2>2, <2>3, <2>4, <2>6
<1>2. CASE ResolveToken
  <2> USE <1>2 DEF ResolveToken
  <2> DEFINE n == target.node
             t == Head(tokens)
             k == StepItem(n, t)
  <2>1. tokens \in Seq(Seq(Char)) /\ tokens # <<>>
    BY DEF ToolType
  <2>2. t \in Seq(Char) /\ Tail(tokens) \in Seq(Seq(Char))
    BY <2>1, HeadTailProperties
  <2>3. ToolType'
    BY <2>2 DEF ToolType
  <2>4. Stands(Nodes, n, doc.text, root) /\ target.off = root
    BY DEF Led
  <2>5. root \in Nat
    BY <2>4 DEF Stands, Occurs
  <2>6. /\ root' = IF StepOffset(t) = -1 THEN root ELSE root + StepOffset(t)
        /\ target' = IF k = 0 THEN target
                     ELSE [node |-> n.items[k], off |-> target.off + OffsetOf(n.items, k)]
        /\ doc' = doc
    OBVIOUS
  <2>7. /\ k = 0 => StepOffset(t) = -1
        /\ k # 0 => /\ Shut(n) /\ k \in 1..Len(n.items)
                    /\ StepOffset(t) = OffsetOf(n.items, k)
    <3> HIDE DEF n, t
    <3> QED
      BY <2>2, <2>4, StepFound
  <2> HIDE DEF k, t
  <2>8. Led'
    <3>1. CASE k = 0
      <4>1. root' = root /\ target' = target
        BY <2>6, <2>7, <3>1
      <4> QED
        BY <2>4, <2>6, <4>1 DEF Led
    <3>2. CASE k # 0
      <4>1. /\ Stands(Nodes, n.items[k], doc.text, root + OffsetOf(n.items, k))
            /\ OffsetOf(n.items, k) \in Nat
        <5>1. Shut(n) /\ k \in 1..Len(n.items)
          BY <2>7, <3>2
        <5> HIDE DEF n
        <5> QED
          BY <2>4, <5>1, ItemStands
      <4>2. root' = root + OffsetOf(n.items, k)
        <5>1. StepOffset(t) # -1
          BY <2>7, <3>2, <4>1
        <5> QED
          BY <2>6, <2>7, <3>2, <5>1
      <4>3. target'.node = n.items[k] /\ target'.off = root + OffsetOf(n.items, k)
        BY <2>4, <2>6, <3>2
      <4> QED
        BY <2>6, <4>1, <4>2, <4>3 DEF Led
    <3> QED
      BY <3>1, <3>2
  <2>9. Planned' /\ ReadFrom'
    BY DEF Planned, ReadFrom
  <2>10. shown' = <<>>
    BY DEF ToolType
  <2>11. Printed'
    BY <2>10 DEF Printed
  <2> QED
    BY <2>3, <2>8, <2>9, <2>11
<1>3. CASE StartWalk
  <2> USE <1>3 DEF StartWalk
  <2>1. ToolType'
    BY DEF ToolType
  <2>2. Led'
    BY DEF Led
  <2>3. ReadFrom'
    BY DEF ReadFrom
  <2>4. shown' = <<>> /\ shown = <<>> /\ recurse \in BOOLEAN
    BY DEF ToolType
  <2>5. Printed'
    BY <2>4 DEF Printed
  <2>6. Expected' = Expected
    BY ExpectedSame
  <2>7. Laid(Expected, doc.text, recurse, target.node, [off |-> root, depth |-> 0], 1,
             Len(Expected) + 1)
    BY <2>4, ExpectedLaid
  <2>8. Chained(Expected, doc.text, recurse, <<[off |-> root, depth |-> 0]>>, 1, Len(Expected) + 1)
    BY <2>7, ChainOne
  <2>9. /\ Len(shown') + 1 = 1 /\ agenda' = <<[off |-> root, depth |-> 0]>>
        /\ doc' = doc /\ recurse' = recurse
    BY <2>4
  <2>10. Chained(Expected', doc'.text, recurse', agenda', Len(shown') + 1, Len(Expected') + 1)
    BY <2>6, <2>8, <2>9
  <2>11. Planned'
    BY <2>10 DEF Planned
  <2> QED
    BY <2>1, <2>2, <2>3, <2>5, <2>11
<1>4. CASE HandleNode
  <2> DEFINE call == Head(agenda)
             s == doc.text
             a == Len(shown) + 1
             z == Len(Expected) + 1
             line == LineAt(s, call.off, call.depth)
  <2>1. /\ pc = "walk" /\ pc' = pc /\ agenda # <<>> /\ shown' = Append(shown, line)
        /\ agenda' = CallsMade(s, call) \o Tail(agenda)
        /\ doc' = doc /\ recurse' = recurse /\ target' = target /\ tokens' = tokens /\ root' = root
    BY <1>4 DEF HandleNode, CallsMade
  <2>2. recurse \in BOOLEAN /\ shown \in Seq(LineSet)
    BY DEF ToolType
  <2>3. Expected' = Expected
    BY <2>1, ExpectedSame
  <2>4. Chained(Expected, s, recurse, agenda, a, z)
    BY <2>1 DEF Planned
  <2>5. PICK n, c : /\ Laid(Expected, s, recurse, n, call, a, c)
                    /\ Chained(Expected, s, recurse, Tail(agenda), c, z)
    BY <2>1, <2>4, ChainFirst
  <2> HIDE DEF call, a, z
  <2>6. Chained(Expected, s, recurse, CallsMade(s, call), a + 1, c)
    BY <2>2, <2>5, CallsChained
  <2>7. Chained(Expected, s, recurse, agenda', a + 1, z)
    BY <2>1, <2>5, <2>6, ChainJoin
  <2>8. /\ Stands(Nodes, n, s, call.off) /\ call.off \in Nat /\ call.depth \in Nat
        /\ Closed(Nodes) /\ n \in Nodes
    BY <2>5 DEF Laid, Call, Stands
  <2>9. a \in Nat \ {0} /\ Expected[a] = Moved(Own(n), call.off, call.depth)
    BY <2>5, LaidPlaces
  <2>10. line = Seen(Moved(Own(n), call.off, call.depth))
    BY <2>8, LineAtNode
  <2>11. line \in LineSet
    <3>1. Own(n) \in LineSet
      BY <2>8, OwnLine
    <3>2. Moved(Own(n), call.off, call.depth) \in LineSet
      BY <2>8, <3>1, MovedIs
    <3> QED
      BY <2>10, <3>2, SeenLine
  <2> HIDE DEF line
  <2>12. /\ Len(shown) \in Nat /\ shown' \in Seq(LineSet) /\ Len(shown') = a /\ shown'[a] = line
         /\ \A k \in 1..Len(shown) : shown'[k] = shown[k]
    BY <2>1, <2>2, <2>11, AppendProperties DEF a
  <2>13. ToolType'
    BY <2>1, <2>12 DEF ToolType
  <2>14. Led'
    BY <2>1 DEF Led
  <2>15. Printed'
    <3> SUFFICES ASSUME NEW k \in 1..Len(shown') PROVE shown'[k] = Seen(Expected'[k])
      BY DEF Printed
    <3>1. CASE k = a
      BY <2>3, <2>9, <2>10, <2>12, <3>1
    <3>2. CASE k # a
      <4>1. k \in 1..Len(shown)
        BY <2>12, <3>2 DEF a
      <4>2. shown[k] = Seen(Expected[k])
        BY <4>1 DEF Printed
      <4> QED
        BY <2>3, <2>12, <4>1, <4>2
    <3> QED
      BY <3>1, <3>2
  <2>16. Planned'
    <3>1. Chained(Expected', doc'.text, recurse', agenda', Len(shown') + 1, Len(Expected') + 1)
      BY <2>1, <2>3, <2>7, <2>12 DEF z
    <3> QED
      BY <3>1 DEF Planned
  <2>17. ReadFrom'
    BY <2>1 DEF ReadFrom
  <2> QED
    BY <2>13, <2>14, <2>15, <2>16, <2>17
<1>5. CASE EndWalk
  <2> USE <1>5 DEF EndWalk
  <2>1. ToolType' /\ Led' /\ ReadFrom'
    BY DEF ToolType, Led, ReadFrom
  <2>2. Expected' = Expected
    BY ExpectedSame
  <2>3. Printed'
    BY <2>2 DEF Printed
  <2>4. Chained(Expected, doc.text, recurse, agenda, Len(shown) + 1, Len(Expected) + 1)
    BY DEF Planned
  <2>5. doc' = doc /\ recurse' = recurse /\ agenda' = agenda /\ shown' = shown
    OBVIOUS
  <2>6. Chained(Expected', doc'.text, recurse', agenda', Len(shown') + 1, Len(Expected') + 1)
    BY <2>2, <2>4, <2>5
  <2>7. Planned'
    BY <2>6 DEF Planned
  <2> QED
    BY <2>1, <2>3, <2>7
<1>6. CASE read_torrentfile
  <2> USE <1>6 DEF read_torrentfile
  <2>1. ToolType' /\ Led' /\ ReadFrom' /\ Planned'
    BY DEF ToolType, Led, ReadFrom, Planned
  <2>2. shown' = <<>>
    BY DEF ToolType
  <2> QED
    BY <2>1, <2>2 DEF Printed
<1>7. CASE ReadReply
  <2> USE <1>7 DEF ReadReply
  <2>1. ToolType' /\ Led' /\ ReadFrom' /\ Planned'
    BY DEF ToolType, Led, ReadFrom, Planned
  <2>2. shown' = <<>>
    BY DEF ToolType
  <2> QED
    BY <2>1, <2>2 DEF Printed
<1>8. CASE UNCHANGED toolVars
  <2> USE <1>8 DEF toolVars
  <2>1. ToolType' /\ Led' /\ ReadFrom'
    BY DEF ToolType, Led, ReadFrom
  <2>2. Expected' = Expected
    BY ExpectedSame
  <2>3. Printed'
    BY <2>2 DEF Printed
  <2>4. Planned'
    BY <2>2 DEF Planned
  <2> QED
    BY <2>1, <2>3, <2>4
<1> QED
  BY <1>1, <1>2, <1>3, <1>4, <1>5, <1>6, <1>7, <1>8 DEF ToolNext

\* The invariant of the tools.
THEOREM ToolInvariant == ToolSpec => []ToolInv
<1>1. ToolInit => ToolInv
  BY ToolInvInit
<1>2. ToolInv /\ [ToolNext]_toolVars => ToolInv'
  BY ToolInvNext
<1> QED
  BY <1>1, <1>2, PTL DEF ToolSpec

\* torrentinfo prints the tree.
THEOREM TreeIsShown == ToolSpec => []TreeShown
<1>1. ToolInv => TreeShown
  <2> SUFFICES ASSUME ToolInv, pc = "done"
               PROVE  /\ Len(shown) = Len(Expected)
                      /\ \A k \in 1..Len(shown) : shown[k] = Seen(Expected[k])
    BY DEF TreeShown
  <2>1. Chained(Expected, doc.text, recurse, <<>>, Len(shown) + 1, Len(Expected) + 1)
    BY DEF ToolInv, Planned, ToolType
  <2>2. Len(shown) + 1 = Len(Expected) + 1
    BY <2>1, ChainEmpty
  <2>3. Len(shown) \in Nat
    <3>1. shown \in Seq(LineSet)
      BY DEF ToolInv, ToolType
    <3> QED
      BY <3>1, LenProperties
  <2>4. Len(Expected) \in Nat
    BY ExpectedLaid DEF ToolInv, ToolType
  <2>5. Len(shown) = Len(Expected)
    <3> HIDE DEF Expected
    <3> QED
      BY <2>2, <2>3, <2>4
  <2> QED
    BY <2>5 DEF ToolInv, Printed
<1> QED
  BY <1>1, ToolInvariant, PTL

-----------------------------------------------------------------------------
(***************************************************************************)
(* What getpeers reads.                                                    *)
(***************************************************************************)

\* What occurs in a text is cut out by SubSeq().
LEMMA CutOut ==
  ASSUME NEW S, NEW s \in Seq(S), NEW t \in Seq(S), NEW i, Occurs(t, s, i)
  PROVE  SubSeq(s, i + 1, i + Len(t)) = t
<1> DEFINE a == i + 1
           z == i + Len(t)
<1>1. /\ i \in Nat /\ Len(s) \in Nat /\ Len(t) \in Nat /\ i + Len(t) <= Len(s)
      /\ \A k \in 1..Len(t) : s[i + k] = t[k]
  BY DEF Occurs
<1>2. a \in 1..(Len(s) + 1) /\ z \in 0..Len(s) /\ Len(t) = z - a + 1
  <2> DEFINE l == Len(s)
             m == Len(t)
  <2>1. i \in Nat /\ l \in Nat /\ m \in Nat /\ i + m <= l
    BY <1>1
  <2> HIDE DEF l, m
  <2>2. i + 1 \in 1..(l + 1) /\ i + m \in 0..l /\ m = (i + m) - (i + 1) + 1
    BY <2>1
  <2> QED
    BY <2>2 DEF l, m
<1>3. \A k \in 1..Len(t) : t[k] = s[a + k - 1]
  <2> SUFFICES ASSUME NEW k \in 1..Len(t) PROVE t[k] = s[a + k - 1]
    OBVIOUS
  <2>1. a + k - 1 = i + k
    BY <1>1
  <2> QED
    BY <1>1, <2>1
<1> HIDE DEF a, z
<1>4. SubSeq(s, a, z) = t
  BY <1>2, <1>3, SliceIs
<1> QED
  BY <1>4 DEF a, z

\* The value of a key, in the text of a dictionary and in the tree.
LEMMA ValueRead ==
  ASSUME NEW n, NEW s, Stands(Nodes, n, s, 0), n.type = "T_DICT", NEW key, NEW type
  PROVE  LET off == benc_dict_value_offset(s, 0, key)
         IN /\ ValueIn(n, key, type) = {} => off < 0 \/ benc_entity_type(s, off) # type
            /\ \A v \in ValueIn(n, key, type) :
                 /\ ~(off < 0) /\ benc_entity_type(s, off) = type
                 /\ Stands(Nodes, v, s, off) /\ v.type = type
<1> DEFINE off == benc_dict_value_offset(s, 0, key)
           k == ValueOf(n, key)
           V == ValueIn(n, key, type)
<1>1. Shut(n)
  BY DEF Shut
<1>2. Len(n.items) \in Nat
  BY <1>1, ItemsAt
<1>3. k \in 0..Len(n.items) /\ (k = 0 => off = -1) /\ (k # 0 => off = OffsetOf(n.items, k))
  BY ValueAt
<1>4. V = {n.items[c] : c \in {j \in {k} : j # 0 /\ n.items[j].type = type}}
  BY DEF ValueIn
<1> HIDE DEF off, k, V
<1>5. CASE k = 0
  <2>1. V = {}
    BY <1>4, <1>5
  <2> QED
    BY <1>3, <1>5, <2>1 DEF off, V
<1>6. CASE k # 0
  <2>1. k \in 1..Len(n.items) /\ off = OffsetOf(n.items, k)
    BY <1>2, <1>3, <1>6
  <2> DEFINE v == n.items[k]
  <2>2. Stands(Nodes, v, s, 0 + OffsetOf(n.items, k)) /\ OffsetOf(n.items, k) \in Nat
    BY <1>1, <2>1, ItemStands
  <2>3. 0 + OffsetOf(n.items, k) = off /\ ~(off < 0)
    BY <2>1, <2>2
  <2>4. Stands(Nodes, v, s, off)
    BY <2>2, <2>3
  <2>5. V = IF v.type = type THEN {v} ELSE {}
    BY <1>4, <1>6
  <2> HIDE DEF v
  <2>6. benc_entity_type(s, off) = v.type
    BY <2>4, NodeAt
  <2>7. CASE v.type = type
    BY <2>3, <2>4, <2>5, <2>6, <2>7 DEF off, V
  <2>8. CASE v.type # type
    BY <2>5, <2>6, <2>8 DEF off, V
  <2> QED
    BY <2>7, <2>8
<1> QED
  BY <1>5, <1>6

\* read_torrentfile() on a document.
LEMMA TorrentFrom ==
  ASSUME NEW n \in Documents, NEW g
  PROVE  IF n.type # "T_DICT" THEN ReadTorrent(n.text, g) = Failed
         ELSE LET trackers == TrackersOf(n, g)
                  infos == InfosOf(n, g)
              IN /\ trackers = {} => ReadTorrent(n.text, g) = Failed
                 /\ trackers # {} /\ infos = {} => ReadTorrent(n.text, g) = Crashed
                 /\ \A t \in trackers, i \in infos :
                      ReadTorrent(n.text, g) = Outcome("read", t, i, <<>>)
<1> DEFINE s == n.text
           announce == benc_dict_value_offset(s, 0, AnnounceKey)
           info == benc_dict_value_offset(s, 0, InfoKey)
           strings == ValueIn(n, AnnounceKey, "T_STRING")
           dicts == ValueIn(n, InfoKey, "T_DICT")
           trackers == TrackersOf(n, g)
           infos == InfosOf(n, g)
           T == "tracker" \in g
           H == "hash" \in g
<1>1. Stands(Nodes, n, s, 0)
  BY DocumentStands
<1>2. s \in Seq(Char)
  BY <1>1 DEF Stands
<1>3. benc_entity_type(s, 0) = n.type /\ benc_entity_length(s, 0) = Len(s)
  BY <1>1, NodeAt
<1>4. Len(s) \in Nat
  BY <1>2, LenProperties
<1> HIDE DEF s
<1>5. ~(benc_entity_length(s, 0) < 0)
  BY <1>3, <1>4
<1>6. ReadTorrent(s, g) =
        IF n.type # "T_DICT" THEN Failed
        ELSE IF ~T /\ (announce < 0 \/ ~IsKey(s, announce)) THEN Failed
        ELSE IF ~H /\ (info < 0 \/ benc_entity_type(s, info) # "T_DICT") THEN Crashed
        ELSE Outcome("read", IF T THEN <<>> ELSE <<StringData(s, announce)>>,
                     IF H THEN <<>>
                       ELSE <<SubSeq(s, info + 1, info + benc_entity_length(s, info))>>, <<>>)
  BY <1>3, <1>5 DEF ReadTorrent
<1>7. CASE n.type # "T_DICT"
  BY <1>6, <1>7 DEF s
<1>8. CASE n.type = "T_DICT"
  <2>1. /\ strings = {} => announce < 0 \/ benc_entity_type(s, announce) # "T_STRING"
        /\ \A v \in strings :
             /\ ~(announce < 0) /\ benc_entity_type(s, announce) = "T_STRING"
             /\ Stands(Nodes, v, s, announce) /\ v.type = "T_STRING"
    BY <1>1, <1>8, ValueRead
  <2>2. /\ dicts = {} => info < 0 \/ benc_entity_type(s, info) # "T_DICT"
        /\ \A v \in dicts :
             /\ ~(info < 0) /\ benc_entity_type(s, info) = "T_DICT"
             /\ Stands(Nodes, v, s, info) /\ v.type = "T_DICT"
    BY <1>1, <1>8, ValueRead
  <2>3. /\ trackers = (IF T THEN {<<>>} ELSE {<<v.value>> : v \in strings})
        /\ infos = (IF H THEN {<<>>} ELSE {<<v.text>> : v \in dicts})
    BY DEF TrackersOf, InfosOf
  <2> HIDE DEF announce, info, strings, dicts, trackers, infos, T, H
  <2>4. IsKey(s, announce) <=> benc_entity_type(s, announce) = "T_STRING"
    BY DEF IsKey
  <2>5. trackers = {} <=> ~T /\ (announce < 0 \/ ~IsKey(s, announce))
    BY <2>1, <2>3, <2>4
  <2>6. infos = {} <=> ~H /\ (info < 0 \/ benc_entity_type(s, info) # "T_DICT")
    BY <2>2, <2>3
  <2>7. ASSUME NEW t \in trackers, NEW i \in infos
        PROVE  ReadTorrent(s, g) = Outcome("read", t, i, <<>>)
    <3>1. t = IF T THEN <<>> ELSE <<StringData(s, announce)>>
      <4>1. CASE T
        BY <2>3, <4>1
      <4>2. CASE ~T
        <5>1. PICK v \in strings : t = <<v.value>>
          BY <2>3, <4>2
        <5>2. Stands(Nodes, v, s, announce) /\ v.type = "T_STRING"
          BY <2>1
        <5>3. StringData(s, announce) = v.value
          BY <5>2, StringAt
        <5> QED
          BY <4>2, <5>1, <5>3
      <4> QED
        BY <4>1, <4>2
    <3>2. i = IF H THEN <<>> ELSE <<SubSeq(s, info + 1, info + benc_entity_length(s, info))>>
      <4>1. CASE H
        BY <2>3, <4>1
      <4>2. CASE ~H
        <5>1. PICK v \in dicts : i = <<v.text>>
          BY <2>3, <4>2
        <5>2. Stands(Nodes, v, s, info)
          BY <2>2
        <5>3. benc_entity_length(s, info) = Len(v.text) /\ Legal(v, Nodes)
          BY <5>2, NodeAt
        <5>4. Occurs(v.text, s, info) /\ v.text \in Seq(Char)
          BY <5>2, <5>3, LegalType DEF Stands
        <5>5. SubSeq(s, info + 1, info + Len(v.text)) = v.text
          BY <1>2, <5>4, CutOut DEF s
        <5> QED
          BY <4>2, <5>1, <5>3, <5>5
      <4> QED
        BY <4>1, <4>2
    <3>3. trackers # {} /\ infos # {}
      OBVIOUS
    <3> QED
      BY <1>6, <1>8, <2>5, <2>6, <3>1, <3>2, <3>3
  <2>8. /\ trackers = {} => ReadTorrent(s, g) = Failed
        /\ trackers # {} /\ infos = {} => ReadTorrent(s, g) = Crashed
    BY <1>6, <1>8, <2>5, <2>6
  <2> QED
    BY <1>8, <2>7, <2>8 DEF s, trackers, infos
<1> QED
  BY <1>7, <1>8

\* getpeers takes what is not given by -t and -h from where the tree has it, ends
\* without a tracker and crashes for want of an info dictionary, and nowhere else.
THEOREM TorrentIsRead == ToolSpec => []TorrentRead
<1>1. ToolInv => TorrentRead
  <2> SUFFICES ASSUME ToolInv, pc = "torrent" PROVE TorrentRead
    BY DEF TorrentRead
  <2>1. outcome = ReadTorrent(doc.text, given) /\ doc \in Documents
    BY DEF ToolInv, ReadFrom, ToolType
  <2> DEFINE n == doc
             trackers == TrackersOf(n, given)
             infos == InfosOf(n, given)
  <2>2. IF n.type # "T_DICT" THEN ReadTorrent(n.text, given) = Failed
        ELSE /\ trackers = {} => ReadTorrent(n.text, given) = Failed
             /\ trackers # {} /\ infos = {} => ReadTorrent(n.text, given) = Crashed
             /\ \A t \in trackers, i \in infos :
                  ReadTorrent(n.text, given) = Outcome("read", t, i, <<>>)
    BY <2>1, TorrentFrom
  <2>3. IF n.type # "T_DICT" THEN outcome = Failed
        ELSE /\ trackers = {} => outcome = Failed
             /\ trackers # {} /\ infos = {} => outcome = Crashed
             /\ \A t \in trackers, i \in infos : outcome = Outcome("read", t, i, <<>>)
    BY <2>1, <2>2
  <2> HIDE DEF trackers, infos
  <2> QED
    BY <2>3 DEF TorrentRead, trackers, infos
<1> QED
  BY <1>1, ToolInvariant, PTL

-----------------------------------------------------------------------------
(***************************************************************************)
(* The tree of a reply.                                                    *)
(***************************************************************************)

\* A string's node is legal.
LEMMA StringNodeLegal ==
  ASSUME NEW N, NEW v \in Seq(Char)
  PROVE  /\ Legal(StringNode(v), N) /\ StringNode(v).type = "T_STRING"
         /\ StringNode(v).value = v /\ StringNode(v).text = Counts(v) /\ Counts(v) \in Seq(Char)
<1>1. /\ StringNode(v).type = "T_STRING" /\ StringNode(v).value = v
      /\ StringNode(v).text = Counts(v)
  BY DEF StringNode, Node
<1>2. Counts(v) \in Seq(Char)
  <2> DEFINE d == Decimal(Len(v))
  <2>1. Len(v) \in Nat
    BY LenProperties
  <2>2. d \in Seq(Char)
    BY <2>1, DecimalText
  <2>3. <<":">> \in Seq(Char)
    BY CharAssumption
  <2> HIDE DEF d
  <2>4. (d \o <<":">>) \o v \in Seq(Char)
    BY <2>2, <2>3, ConcatProperties
  <2> QED
    BY <2>4 DEF Counts, d
<1> DEFINE n == StringNode(v)
<1>3. n = StringNode(n.value)
  BY <1>1
<1> HIDE DEF n
<1>4. Legal(n, N)
  BY <1>1, <1>2, <1>3 DEF Legal, n
<1> QED
  BY <1>1, <1>2, <1>4 DEF n

\* The largest number and the largest port are numbers.
LEMMA MaxIntNat == MaxInt \in Nat /\ MaxPort \in Nat /\ MaxPort <= MaxInt
BY SMTT(30) DEF MaxInt, MaxPort

\* A number's node is legal.
LEMMA IntNodeLegal ==
  ASSUME NEW N, NEW v \in 0..MaxInt
  PROVE  /\ Legal(IntNode(v), N) /\ IntNode(v).type = "T_INT" /\ IntNode(v).number = v
         /\ IntNode(v).text = <<"i">> \o Signed(v) \o <<"e">>
<1>1. /\ IntNode(v).type = "T_INT" /\ IntNode(v).number = v
      /\ IntNode(v).text = <<"i">> \o Signed(v) \o <<"e">>
  BY DEF IntNode, Node
<1>2. v \in Nat /\ v \in (-MaxInt)..MaxInt
  BY MaxIntNat
<1>3. <<"i">> \o Signed(v) \o <<"e">> \in Seq(Char)
  <2>1. Signed(v) = Decimal(v)
    BY <1>2 DEF Signed
  <2>2. Decimal(v) \in Seq(Char)
    BY <1>2, DecimalText
  <2>3. "i" \in Char /\ "e" \in Char
    BY CharAssumption
  <2> QED
    BY <2>1, <2>2, <2>3, Wrapped
<1> DEFINE n == IntNode(v)
<1>4. n = IntNode(n.number)
  BY <1>1
<1> HIDE DEF n
<1>5. Legal(n, N)
  BY <1>1, <1>2, <1>3, <1>4 DEF Legal, n
<1> QED
  BY <1>1, <1>5 DEF n

\* The texts of items.
LEMMA TextsAre ==
  ASSUME NEW N, NEW items \in Seq(N), \A n \in N : n.text \in Seq(Char)
  PROVE  /\ Len(items) \in Nat /\ Len(Texts(items)) = Len(items)
         /\ \A k \in 1..Len(items) : Texts(items)[k] = items[k].text
         /\ Flat(Texts(items), Len(items)) \in Seq(Char)
<1> DEFINE m == Len(items)
           ss == Texts(items)
<1>1. m \in Nat /\ \A k \in 1..m : items[k] \in N
  BY LenProperties, ElementOfSeq
<1>2. ss = [k \in 1..m |-> items[k].text]
  BY DEF Texts
<1> HIDE DEF m, ss
<1>3. Len(ss) = m /\ \A k \in 1..m : ss[k] = items[k].text
  BY <1>1, <1>2
<1>4. Len(ss) \in Nat /\ \A k \in 1..Len(ss) : ss[k] \in Seq(Char)
  BY <1>1, <1>3
<1>5. \A k \in 0..Len(ss) : Flat(ss, k) \in Seq(Char) /\ Len(Flat(ss, k)) \in Nat
  BY <1>4, FlatType
<1>6. m \in 0..Len(ss)
  BY <1>1, <1>3
<1> QED
  BY <1>1, <1>3, <1>5, <1>6 DEF m, ss

\* A list's node is legal.
LEMMA ListNodeLegal ==
  ASSUME NEW N, NEW items \in Seq(N), \A n \in N : n.text \in Seq(Char)
  PROVE  /\ Legal(ListNode(items), N) /\ ListNode(items).type = "T_LIST"
         /\ ListNode(items).items = items
         /\ ListNode(items).text = <<"l">> \o Flat(Texts(items), Len(items)) \o <<"e">>
<1>1. /\ ListNode(items).type = "T_LIST" /\ ListNode(items).items = items
      /\ ListNode(items).text = <<"l">> \o Flat(Texts(items), Len(items)) \o <<"e">>
  BY DEF ListNode, Compound, Node
<1>2. <<"l">> \o Flat(Texts(items), Len(items)) \o <<"e">> \in Seq(Char)
  <2>1. Flat(Texts(items), Len(items)) \in Seq(Char)
    BY TextsAre
  <2>2. "l" \in Char /\ "e" \in Char
    BY CharAssumption
  <2> QED
    BY <2>1, <2>2, Wrapped
<1> DEFINE n == ListNode(items)
<1>3. n = ListNode(n.items)
  BY <1>1
<1> HIDE DEF n
<1>4. Legal(n, N)
  BY <1>1, <1>2, <1>3 DEF Legal, n
<1> QED
  BY <1>1, <1>4 DEF n

\* A dictionary's node is legal.
LEMMA DictNodeLegal ==
  ASSUME NEW N, NEW items \in Seq(N), \A n \in N : n.text \in Seq(Char),
         Len(items) % 2 = 0, \A k \in 1..Len(items) : k % 2 = 1 => items[k].type = "T_STRING"
  PROVE  /\ Legal(DictNode(items), N) /\ DictNode(items).type = "T_DICT"
         /\ DictNode(items).items = items /\ DictNode(items).text = Braced(Texts(items))
<1>1. /\ DictNode(items).type = "T_DICT" /\ DictNode(items).items = items
      /\ DictNode(items).text = <<"d">> \o Flat(Texts(items), Len(items)) \o <<"e">>
  BY DEF DictNode, Compound, Node
<1>2. <<"d">> \o Flat(Texts(items), Len(items)) \o <<"e">> \in Seq(Char)
  <2>1. Flat(Texts(items), Len(items)) \in Seq(Char)
    BY TextsAre
  <2>2. "d" \in Char /\ "e" \in Char
    BY CharAssumption
  <2> QED
    BY <2>1, <2>2, Wrapped
<1>3. <<"d">> \o Flat(Texts(items), Len(items)) \o <<"e">> = Braced(Texts(items))
  <2>1. Len(Texts(items)) = Len(items)
    BY TextsAre
  <2> QED
    BY <2>1 DEF Braced
<1> DEFINE n == DictNode(items)
<1>4. n = DictNode(n.items)
  BY <1>1
<1> HIDE DEF n
<1>5. Legal(n, N)
  BY <1>1, <1>2, <1>4 DEF Legal, n
<1> QED
  BY <1>1, <1>3, <1>5 DEF n

\* Four elements, and two.
LEMMA FourAndTwo ==
  ASSUME NEW a, NEW b, NEW c, NEW d, NEW e, NEW f
  PROVE  <<a,b,c,d>> \o <<e,f>> = <<a,b,c,d,e,f>>
<1> DEFINE S == {a, b, c, d, e, f}
           s == <<a, b, c, d>>
           t == <<e, f>>
           u == s \o t
           w == <<a, b, c, d, e, f>>
<1>1. s \in Seq(S) /\ t \in Seq(S) /\ w \in Seq(S) /\ Len(s) = 4 /\ Len(t) = 2 /\ Len(w) = 6
  OBVIOUS
<1>2. s[1] = a /\ s[2] = b /\ s[3] = c /\ s[4] = d /\ t[1] = e /\ t[2] = f
  OBVIOUS
<1>3. w[1] = a /\ w[2] = b /\ w[3] = c /\ w[4] = d /\ w[5] = e /\ w[6] = f
  OBVIOUS
<1>4. u = s \o t
  OBVIOUS
<1> HIDE DEF S, s, t, u, w
<1>5. /\ Len(u) = Len(s) + Len(t) /\ u \in Seq(S)
      /\ \A j \in 1..Len(s) : j \in 1..Len(u) /\ u[j] = s[j]
      /\ \A j \in 1..Len(t) : Len(s) + j \in 1..Len(u) /\ u[Len(s) + j] = t[j]
  <2>1. s \in Seq(S) /\ t \in Seq(S)
    BY <1>1
  <2> QED
    BY <1>4, <2>1, ConcatParts
<1>6. Len(u) = 6
  BY <1>1, <1>5
<1>7. \A k \in 1..6 : u[k] = w[k]
  <2>1. u[4 + 1] = t[1] /\ u[4 + 2] = t[2]
    BY <1>1, <1>5
  <2>2. u[1] = s[1] /\ u[2] = s[2] /\ u[3] = s[3] /\ u[4] = s[4]
    BY <1>1, <1>5
  <2>3. u[1] = w[1] /\ u[2] = w[2] /\ u[3] = w[3] /\ u[4] = w[4] /\ u[5] = w[5] /\ u[6] = w[6]
    BY <1>2, <1>3, <2>1, <2>2
  <2>4. \A k \in 1..6 : k = 1 \/ k = 2 \/ k = 3 \/ k = 4 \/ k = 5 \/ k = 6
    OBVIOUS
  <2> QED
    BY <2>3, <2>4
<1>8. u = w
  BY <1>1, <1>5, <1>6, <1>7, SeqEqual
<1> QED
  BY <1>4, <1>8 DEF s, t, w

\* Two pairs, and three.
Two(a, b, c, d) == <<a, b, c, d>>
Three(a, b, c, d, e, f) == <<a, b, c, d, e, f>>

\* A third pair, or none, behind two.
LEMMA OnePairMore ==
  ASSUME NEW a, NEW b, NEW c, NEW d, NEW e, NEW f
  PROVE  /\ Two(a, b, c, d) \o <<e, f>> = Three(a, b, c, d, e, f)
         /\ Two(a, b, c, d) \o <<>> = Two(a, b, c, d)
<1>1. Two(a, b, c, d) \o <<e, f>> = Three(a, b, c, d, e, f)
  BY FourAndTwo DEF Two, Three
<1>2. Two(a, b, c, d) \o <<>> = Two(a, b, c, d)
  BY DEF Two
<1> QED
  BY <1>1, <1>2

\* A legal dictionary with these items and texts of items.
IsDict(n, N, items, texts) ==
  Legal(n, N) /\ n.type = "T_DICT" /\ n.items = items /\ n.text = Braced(texts)

\* A dictionary of two pairs.
LEMMA TwoPairs ==
  ASSUME NEW N, \A n \in N : n.text \in Seq(Char),
         NEW a \in N, NEW b \in N, NEW c \in N, NEW d \in N,
         a.type = "T_STRING", c.type = "T_STRING"
  PROVE  IsDict(DictNode(Two(a, b, c, d)), N, Two(a, b, c, d),
                Two(a.text, b.text, c.text, d.text))
<1> DEFINE it == Two(a, b, c, d)
           ss == Two(a.text, b.text, c.text, d.text)
<1>1. it \in Seq(N) /\ Len(it) = 4
  BY DEF Two
<1>2. ASSUME NEW k \in 1..4, k % 2 = 1 PROVE it[k].type = "T_STRING"
  <2>1. k = 1 \/ k = 2 \/ k = 3 \/ k = 4
    OBVIOUS
  <2>2. 2 % 2 = 0 /\ 4 % 2 = 0 /\ 0 # 1
    OBVIOUS
  <2>3. k = 1 \/ k = 3
    BY <1>2, <2>1, <2>2
  <2> QED
    BY <2>3 DEF Two
<1>3. Texts(it) = [k \in 1..4 |-> it[k].text]
  BY <1>1 DEF Texts
<1>4. [k \in 1..4 |-> it[k].text] = ss
  BY DEF Two
<1>5. 4 % 2 = 0
  OBVIOUS
<1> HIDE DEF it, ss
<1>6. Len(it) % 2 = 0
  BY <1>1, <1>5
<1>7. \A k \in 1..Len(it) : k % 2 = 1 => it[k].type = "T_STRING"
  BY <1>1, <1>2
<1>8. it \in Seq(N)
  BY <1>1
<1>9. /\ Legal(DictNode(it), N) /\ DictNode(it).type = "T_DICT"
      /\ DictNode(it).items = it /\ DictNode(it).text = Braced(Texts(it))
  BY <1>6, <1>7, <1>8, DictNodeLegal
<1> QED
  BY <1>3, <1>4, <1>9 DEF it, ss, IsDict

\* A dictionary of three pairs.
LEMMA ThreePairs ==
  ASSUME NEW N, \A n \in N : n.text \in Seq(Char),
         NEW a \in N, NEW b \in N, NEW c \in N, NEW d \in N, NEW e \in N, NEW f \in N,
         a.type = "T_STRING", c.type = "T_STRING", e.type = "T_STRING"
  PROVE  IsDict(DictNode(Three(a, b, c, d, e, f)), N, Three(a, b, c, d, e, f),
                Three(a.text, b.text, c.text, d.text, e.text, f.text))
<1> DEFINE it == Three(a, b, c, d, e, f)
           ss == Three(a.text, b.text, c.text, d.text, e.text, f.text)
<1>1. it \in Seq(N) /\ Len(it) = 6
  BY DEF Three
<1>2. ASSUME NEW k \in 1..6, k % 2 = 1 PROVE it[k].type = "T_STRING"
  <2>1. k = 1 \/ k = 2 \/ k = 3 \/ k = 4 \/ k = 5 \/ k = 6
    OBVIOUS
  <2>2. 2 % 2 = 0 /\ 4 % 2 = 0 /\ 6 % 2 = 0 /\ 0 # 1
    OBVIOUS
  <2>3. k = 1 \/ k = 3 \/ k = 5
    BY <1>2, <2>1, <2>2
  <2> QED
    BY <2>3 DEF Three
<1>3. Texts(it) = [k \in 1..6 |-> it[k].text]
  BY <1>1 DEF Texts
<1>4. [k \in 1..6 |-> it[k].text] = ss
  BY DEF Three
<1>5. 6 % 2 = 0
  OBVIOUS
<1> HIDE DEF it, ss
<1>6. Len(it) % 2 = 0
  BY <1>1, <1>5
<1>7. \A k \in 1..Len(it) : k % 2 = 1 => it[k].type = "T_STRING"
  BY <1>1, <1>2
<1>8. it \in Seq(N)
  BY <1>1
<1>9. /\ Legal(DictNode(it), N) /\ DictNode(it).type = "T_DICT"
      /\ DictNode(it).items = it /\ DictNode(it).text = Braced(Texts(it))
  BY <1>6, <1>7, <1>8, DictNodeLegal
<1> QED
  BY <1>3, <1>4, <1>9 DEF it, ss, IsDict

\* One element, or two, and one more.
LEMMA AndOne ==
  ASSUME NEW a, NEW b, NEW c
  PROVE  <<a>> \o <<b>> = <<a, b>> /\ <<a, b>> \o <<c>> = <<a, b, c>>
<1> DEFINE S == {a, b, c}
           x == <<a>>
           y == <<a, b>>
           z == <<a, b, c>>
           u == x \o <<b>>
           v == y \o <<c>>
<1>1. /\ x \in Seq(S) /\ Len(x) = 1 /\ x[1] = a
      /\ y \in Seq(S) /\ Len(y) = 2 /\ y[1] = a /\ y[2] = b
      /\ z \in Seq(S) /\ Len(z) = 3 /\ z[1] = a /\ z[2] = b /\ z[3] = c
      /\ b \in S /\ c \in S
  OBVIOUS
<1>2. u = x \o <<b>> /\ v = y \o <<c>>
  OBVIOUS
<1> HIDE DEF S, x, y, z, u, v
<1>3. /\ u \in Seq(S) /\ Len(u) = Len(x) + 1
      /\ \A j \in 1..Len(x) : u[j] = x[j]
      /\ u[Len(x) + 1] = b
  <2>1. x \in Seq(S) /\ b \in S
    BY <1>1
  <2>2. /\ x \o <<b>> \in Seq(S) /\ Len(x \o <<b>>) = Len(x) + 1
        /\ \A j \in 1..Len(x) : (x \o <<b>>)[j] = x[j]
        /\ (x \o <<b>>)[Len(x) + 1] = b
    BY <2>1, OneMore
  <2> QED
    BY <1>2, <2>2
<1>4. /\ v \in Seq(S) /\ Len(v) = Len(y) + 1
      /\ \A j \in 1..Len(y) : v[j] = y[j]
      /\ v[Len(y) + 1] = c
  <2>1. y \in Seq(S) /\ c \in S
    BY <1>1
  <2>2. /\ y \o <<c>> \in Seq(S) /\ Len(y \o <<c>>) = Len(y) + 1
        /\ \A j \in 1..Len(y) : (y \o <<c>>)[j] = y[j]
        /\ (y \o <<c>>)[Len(y) + 1] = c
    BY <2>1, OneMore
  <2> QED
    BY <1>2, <2>2
<1>5. u = y
  <2>1. Len(u) = 2 /\ u[1] = a /\ u[2] = b
    BY <1>1, <1>3
  <2>2. \A k \in 1..2 : k = 1 \/ k = 2
    OBVIOUS
  <2>3. \A k \in 1..2 : u[k] = y[k]
    BY <1>1, <2>1, <2>2
  <2> QED
    BY <1>1, <1>3, <2>1, <2>3, SeqEqual
<1>6. v = z
  <2>1. Len(v) = 3 /\ v[1] = a /\ v[2] = b /\ v[3] = c
    BY <1>1, <1>4
  <2>2. \A k \in 1..3 : k = 1 \/ k = 2 \/ k = 3
    OBVIOUS
  <2>3. \A k \in 1..3 : v[k] = z[k]
    BY <1>1, <2>1, <2>2
  <2> QED
    BY <1>1, <1>4, <2>1, <2>3, SeqEqual
<1> QED
  BY <1>2, <1>5, <1>6 DEF x, y, z

\* Small numbers.
LEMMA DecimalSmall ==
  /\ Decimal(2) = <<"2">> /\ Decimal(4) = <<"4">> /\ Decimal(5) = <<"5">>
  /\ Decimal(7) = <<"7">> /\ Decimal(8) = <<"8">> /\ Decimal(10) = <<"1", "0">>
<1>1. ASSUME NEW n \in 0..9 PROVE Decimal(n) = <<Digits[n + 1]>>
  <2> DEFINE f == CHOOSE d : InTens(n, d)
  <2>1. InTens(n, f)
    BY InTensExists
  <2>2. Decimal(n) = f[n]
    BY DEF Decimal, InTens
  <2> HIDE DEF f
  <2>3. n \in 0..n /\ n < 10
    OBVIOUS
  <2>4. f[n] = <<Digits[n + 1]>>
    <3>1. f = [k \in 0..n |-> IF k < 10 THEN <<Digits[k + 1]>>
                              ELSE f[k \div 10] \o <<Digits[(k % 10) + 1]>>]
      BY <2>1 DEF InTens
    <3> QED
      BY <2>3, <3>1
  <2> QED
    BY <2>2, <2>4
<1>2. Decimal(10) = <<Digits[2]>> \o <<Digits[1]>>
  <2> DEFINE f == CHOOSE d : InTens(10, d)
  <2>1. InTens(10, f)
    BY InTensExists
  <2>2. Decimal(10) = f[10]
    BY DEF Decimal, InTens
  <2> HIDE DEF f
  <2>3. f = [k \in 0..10 |-> IF k < 10 THEN <<Digits[k + 1]>>
                             ELSE f[k \div 10] \o <<Digits[(k % 10) + 1]>>]
    BY <2>1 DEF InTens
  <2>4. 10 \in 0..10 /\ 1 \in 0..10 /\ 10 \div 10 = 1 /\ 10 % 10 = 0 /\ ~(10 < 10) /\ 1 < 10
    OBVIOUS
  <2>5. f[10] = f[10 \div 10] \o <<Digits[(10 % 10) + 1]>>
    BY <2>3, <2>4
  <2>6. f[1] = <<Digits[1 + 1]>>
    BY <2>3, <2>4
  <2>7. 0 + 1 = 1 /\ 1 + 1 = 2
    OBVIOUS
  <2>8. f[10] = f[1] \o <<Digits[1]>>
    BY <2>4, <2>5, <2>7
  <2>9. f[1] = <<Digits[2]>>
    BY <2>6, <2>7
  <2> QED
    BY <2>2, <2>8, <2>9
<1>3. /\ Digits[1] = "0" /\ Digits[2] = "1" /\ Digits[3] = "2" /\ Digits[5] = "4"
      /\ Digits[6] = "5" /\ Digits[8] = "7" /\ Digits[9] = "8"
  BY DEF Digits
<1>4. Decimal(2) = <<"2">> /\ Decimal(4) = <<"4">> /\ Decimal(5) = <<"5">>
  <2>1. Decimal(2) = <<Digits[2 + 1]>> /\ Decimal(4) = <<Digits[4 + 1]>> /\ Decimal(5) = <<Digits[5 + 1]>>
    BY <1>1
  <2> QED
    BY <1>3, <2>1
<1>5. Decimal(7) = <<"7">> /\ Decimal(8) = <<"8">>
  <2>1. Decimal(7) = <<Digits[7 + 1]>> /\ Decimal(8) = <<Digits[8 + 1]>>
    BY <1>1
  <2> QED
    BY <1>3, <2>1
<1>6. Decimal(10) = <<"1", "0">>
  <2>1. <<"1">> \o <<"0">> = <<"1", "0">>
    BY AndOne
  <2> QED
    BY <1>2, <1>3, <2>1
<1> QED
  BY <1>4, <1>5, <1>6

\* The keys that are sent are texts, and "2:ip" and the like are strings.
LEMMA KeyTexts ==
  /\ IntervalKey \in Seq(Char) /\ PeersKey \in Seq(Char) /\ SixKey \in Seq(Char)
  /\ IpKey \in Seq(Char) /\ PortKey \in Seq(Char) /\ PeerIdKey \in Seq(Char)
  /\ Counts(IntervalKey) = <<"8", ":">> \o IntervalKey
  /\ Counts(PeersKey) = <<"5", ":">> \o PeersKey
  /\ Counts(SixKey) = <<"1", "0", ":">> \o SixKey
  /\ Counts(IpKey) = <<"2", ":">> \o IpKey
  /\ Counts(PortKey) = <<"4", ":">> \o PortKey
  /\ Counts(PeerIdKey) = <<"7", ":">> \o PeerIdKey
<1>1. /\ IntervalKey \in Seq(Char) /\ PeersKey \in Seq(Char) /\ SixKey \in Seq(Char)
      /\ IpKey \in Seq(Char) /\ PortKey \in Seq(Char) /\ PeerIdKey \in Seq(Char)
  BY KeysAssumption
<1>2. /\ Len(IntervalKey) = 8 /\ Len(PeersKey) = 5 /\ Len(SixKey) = 10
      /\ Len(IpKey) = 2 /\ Len(PortKey) = 4 /\ Len(PeerIdKey) = 7
  BY DEF IntervalKey, PeersKey, SixKey, IpKey, PortKey, PeerIdKey
<1>3. /\ <<"8">> \o <<":">> = <<"8", ":">> /\ <<"5">> \o <<":">> = <<"5", ":">>
      /\ <<"2">> \o <<":">> = <<"2", ":">> /\ <<"4">> \o <<":">> = <<"4", ":">>
      /\ <<"7">> \o <<":">> = <<"7", ":">>
  BY AndOne
<1>4. <<"1", "0">> \o <<":">> = <<"1", "0", ":">>
  BY AndOne
<1>5. \A s : Counts(s) = (Decimal(Len(s)) \o <<":">>) \o s
  BY DEF Counts
<1>6. Counts(IntervalKey) = <<"8", ":">> \o IntervalKey /\ Counts(PeersKey) = <<"5", ":">> \o PeersKey
  BY <1>2, <1>3, <1>5, DecimalSmall
<1>7. Counts(SixKey) = <<"1", "0", ":">> \o SixKey
  BY <1>2, <1>4, <1>5, DecimalSmall
<1>8. Counts(IpKey) = <<"2", ":">> \o IpKey /\ Counts(PortKey) = <<"4", ":">> \o PortKey
  BY <1>2, <1>3, <1>5, DecimalSmall
<1>9. Counts(PeerIdKey) = <<"7", ":">> \o PeerIdKey
  BY <1>2, <1>3, <1>5, DecimalSmall
<1> QED
  BY <1>1, <1>6, <1>7, <1>8, <1>9

\* What is legal stays so with more nodes.
LEMMA ClosedWith ==
  ASSUME NEW M, Closed(M), NEW X, \A x \in X : Legal(x, M)
  PROVE  Closed(M \cup X)
<1> DEFINE N == M \cup X
<1>1. M \subseteq N /\ \A n \in N : Legal(n, M)
  BY DEF Closed
<1> HIDE DEF N
<1>2. Seq(M) \subseteq Seq(N)
  <2> SUFFICES ASSUME NEW s \in Seq(M) PROVE s \in Seq(N)
    OBVIOUS
  <2>1. Len(s) \in Nat /\ s \in [1..Len(s) -> M]
    BY LenProperties
  <2>2. s \in [1..Len(s) -> N]
    BY <1>1, <2>1
  <2> QED
    BY <2>1, <2>2, SeqDef
<1>3. ASSUME NEW n \in N PROVE Legal(n, N)
  <2>1. Legal(n, M)
    BY <1>1
  <2>2. n.items \in Seq(M) => n.items \in Seq(N)
    BY <1>2
  <2> QED
    BY <2>1, <2>2 DEF Legal
<1> QED
  BY <1>3 DEF Closed, N

\* Strings and numbers.
Scalars == {StringNode(v) : v \in Seq(Char)} \cup {IntNode(v) : v \in 0..MaxInt}

\* The tree that track() writes: a peer, the peers, the whole reply.
PeerItems(a, p) ==
  IF a.no_peer_id
    THEN Two(StringNode(IpKey), StringNode(p.ip), StringNode(PortKey), IntNode(p.port))
    ELSE Three(StringNode(IpKey), StringNode(p.ip), StringNode(PortKey), IntNode(p.port),
               StringNode(PeerIdKey), StringNode(p.id))
PeerNode(a, p) == DictNode(PeerItems(a, p))
PeerList(a) == [k \in 1..Len(a.peers) |-> PeerNode(a, a.peers[k])]
PeersNode(a) == IF a.compact THEN StringNode(Packed(a.peers)) ELSE ListNode(PeerList(a))
WithSix(a) == a.compact /\ a.six # <<>>
ReplyItems(a) ==
  IF WithSix(a)
    THEN Three(StringNode(IntervalKey), IntNode(a.interval), StringNode(PeersKey), PeersNode(a),
               StringNode(SixKey), StringNode(a.six))
    ELSE Two(StringNode(IntervalKey), IntNode(a.interval), StringNode(PeersKey), PeersNode(a))
ReplyNode(a) == DictNode(ReplyItems(a))

\* The nodes of a reply, from the leaves up.
PeerNodes(a) == Scalars \cup {PeerNode(a, p) : p \in Peer}
ReplyNodes(a) == (PeerNodes(a) \cup {PeersNode(a)}) \cup {ReplyNode(a)}

\* What is sent.
LEMMA AnnounceIs ==
  ASSUME NEW a \in Announces
  PROVE  /\ a.interval \in 0..MaxInt /\ a.compact \in BOOLEAN /\ a.no_peer_id \in BOOLEAN
         /\ a.six \in Seq(Char) /\ a.peers \in Seq(Peer) /\ Len(a.peers) \in Nat
         /\ \A k \in 1..Len(a.peers) : a.peers[k] \in Peer /\ Len(a.peers[k].packed) = 6
<1>1. /\ a.interval \in 0..MaxInt /\ a.compact \in BOOLEAN /\ a.no_peer_id \in BOOLEAN
      /\ a.six \in Seq(Char) /\ a.peers \in Seq(Peer)
      /\ \A k \in 1..Len(a.peers) : Len(a.peers[k].packed) = 6
  <2>1. a.interval \in 0..MaxInt
    BY Zenon, AnnouncesAssumption
  <2>2. a.compact \in BOOLEAN
    BY Zenon, AnnouncesAssumption
  <2>3. a.no_peer_id \in BOOLEAN
    BY Zenon, AnnouncesAssumption
  <2>4. a.six \in Seq(Char)
    BY Zenon, AnnouncesAssumption
  <2>5. a.peers \in Seq(Peer)
    BY Zenon, AnnouncesAssumption
  <2>6. \A k \in 1..Len(a.peers) : Len(a.peers[k].packed) = 6
    BY Zenon, AnnouncesAssumption
  <2> QED
    BY Zenon, <2>1, <2>2, <2>3, <2>4, <2>5, <2>6
<1>2. Len(a.peers) \in Nat /\ \A k \in 1..Len(a.peers) : a.peers[k] \in Peer
  BY <1>1, LenProperties, ElementOfSeq
<1> QED
  BY <1>1, <1>2

\* Strings and numbers are legal.
LEMMA ScalarsClosed ==
  /\ Closed(Scalars)
  /\ \A v \in Seq(Char) : StringNode(v) \in Scalars
  /\ \A v \in 0..MaxInt : IntNode(v) \in Scalars
<1>1. \A v \in Seq(Char) : Legal(StringNode(v), Scalars)
  BY StringNodeLegal
<1>2. \A v \in 0..MaxInt : Legal(IntNode(v), Scalars)
  BY IntNodeLegal
<1>3. Closed(Scalars)
  BY <1>1, <1>2 DEF Closed, Scalars
<1>4. /\ \A v \in Seq(Char) : StringNode(v) \in Scalars
      /\ \A v \in 0..MaxInt : IntNode(v) \in Scalars
  BY DEF Scalars
<1> QED
  BY <1>3, <1>4

\* The texts of a closed set are texts.
LEMMA ClosedTexts ==
  ASSUME NEW N, Closed(N)
  PROVE  \A n \in N : n.text \in Seq(Char)
BY LegalType DEF Closed

\* Ports are numbers that an int holds.
LEMMA PortNumbers == Port \subseteq 0..MaxInt /\ Port \subseteq Int
BY MaxIntNat DEF Port

\* A peer.
LEMMA PeerIs ==
  ASSUME NEW p \in Peer
  PROVE  /\ p.ip \in Seq(Char) /\ p.id \in Seq(Char) /\ p.packed \in Seq(Char)
         /\ p.port \in 0..MaxInt /\ p.port \in Int
<1>1. p.ip \in Seq(Char)
  BY DEF Peer
<1>2. p.id \in Seq(Char)
  BY DEF Peer
<1>3. p.packed \in Seq(Char)
  BY DEF Peer
<1>4. p.port \in Port
  BY DEF Peer
<1>5. Port \subseteq 0..MaxInt /\ Port \subseteq Int
  BY PortNumbers
<1> QED
  BY <1>1, <1>2, <1>3, <1>4, <1>5

\* The dictionary of a peer, and the text that is sent for it.
LEMMA PeerLegal ==
  ASSUME NEW a, NEW p \in Peer
  PROVE  /\ Legal(PeerNode(a, p), Scalars) /\ PeerNode(a, p).type = "T_DICT"
         /\ PeerNode(a, p).items = PeerItems(a, p)
         /\ PeerNode(a, p).text = PeerText(a, p)
<1> DEFINE k1 == StringNode(IpKey)
           v1 == StringNode(p.ip)
           k2 == StringNode(PortKey)
           v2 == IntNode(p.port)
           k3 == StringNode(PeerIdKey)
           v3 == StringNode(p.id)
           c1 == <<"2", ":">> \o IpKey
           w1 == Counts(p.ip)
           c2 == <<"4", ":">> \o PortKey
           w2 == <<"i">> \o Signed(p.port) \o <<"e">>
           c3 == <<"7", ":">> \o PeerIdKey
           w3 == Counts(p.id)
           n == PeerNode(a, p)
<1>1. p.ip \in Seq(Char) /\ p.id \in Seq(Char) /\ p.port \in 0..MaxInt
  BY PeerIs
<1>2. \A x \in Scalars : x.text \in Seq(Char)
  BY ScalarsClosed, ClosedTexts
<1>3. /\ k1 \in Scalars /\ v1 \in Scalars /\ k2 \in Scalars /\ v2 \in Scalars
      /\ k3 \in Scalars /\ v3 \in Scalars
  BY <1>1, KeyTexts, ScalarsClosed
<1>4. k1.type = "T_STRING" /\ k2.type = "T_STRING" /\ k3.type = "T_STRING"
  BY KeyTexts, StringNodeLegal
<1>5. k1.text = c1 /\ k2.text = c2 /\ k3.text = c3
  BY KeyTexts, StringNodeLegal
<1>6. v1.text = w1 /\ v3.text = w3
  BY <1>1, StringNodeLegal
<1>7. v2.text = w2
  BY <1>1, IntNodeLegal
<1>8. PeerText(a, p) =
        Braced(Two(c1, w1, c2, w2) \o (IF a.no_peer_id THEN <<>> ELSE <<c3, w3>>))
  BY DEF PeerText, Two
<1>9. PeerItems(a, p) = IF a.no_peer_id THEN Two(k1, v1, k2, v2) ELSE Three(k1, v1, k2, v2, k3, v3)
  BY DEF PeerItems
<1>10. n = DictNode(PeerItems(a, p))
  BY DEF PeerNode
<1> HIDE DEF k1, v1, k2, v2, k3, v3, c1, w1, c2, w2, c3, w3, n
<1>11. CASE a.no_peer_id
  <2>1. PeerItems(a, p) = Two(k1, v1, k2, v2)
    BY <1>9, <1>11
  <2>2. PeerText(a, p) = Braced(Two(c1, w1, c2, w2))
    <3>1. PeerText(a, p) = Braced(Two(c1, w1, c2, w2) \o <<>>)
      BY <1>8, <1>11
    <3> QED
      BY <3>1, OnePairMore
  <2>3. IsDict(DictNode(Two(k1, v1, k2, v2)), Scalars, Two(k1, v1, k2, v2),
               Two(k1.text, v1.text, k2.text, v2.text))
    BY <1>2, <1>3, <1>4, TwoPairs
  <2> QED
    BY <1>5, <1>6, <1>7, <1>10, <2>1, <2>2, <2>3 DEF n, IsDict
<1>12. CASE ~a.no_peer_id
  <2>1. PeerItems(a, p) = Three(k1, v1, k2, v2, k3, v3)
    BY <1>9, <1>12
  <2>2. PeerText(a, p) = Braced(Three(c1, w1, c2, w2, c3, w3))
    <3>1. PeerText(a, p) = Braced(Two(c1, w1, c2, w2) \o <<c3, w3>>)
      BY <1>8, <1>12
    <3> QED
      BY <3>1, OnePairMore
  <2>3. IsDict(DictNode(Three(k1, v1, k2, v2, k3, v3)), Scalars, Three(k1, v1, k2, v2, k3, v3),
               Three(k1.text, v1.text, k2.text, v2.text, k3.text, v3.text))
    BY <1>2, <1>3, <1>4, ThreePairs
  <2> QED
    BY <1>5, <1>6, <1>7, <1>10, <2>1, <2>2, <2>3 DEF n, IsDict
<1> QED
  BY <1>11, <1>12 DEF n

\* Packed peers, one behind the other.
LEMMA PackedIs ==
  ASSUME NEW peers \in Seq(Peer), \A k \in 1..Len(peers) : Len(peers[k].packed) = 6
  PROVE  /\ Packed(peers) \in Seq(Char) /\ Len(Packed(peers)) = 6 * Len(peers)
         /\ Len(peers) \in Nat
         /\ \A k \in 1..Len(peers) :
              /\ peers[k].packed \in Seq(Char)
              /\ Occurs(peers[k].packed, Packed(peers), 6 * (k - 1))
<1> DEFINE m == Len(peers)
           ss == [k \in 1..m |-> peers[k].packed]
<1>1. m \in Nat /\ \A k \in 1..m : peers[k] \in Peer
  BY LenProperties, ElementOfSeq
<1>2. \A k \in 1..m : peers[k].packed \in Seq(Char)
  BY <1>1, PeerIs
<1>3. \A k \in 1..m : Len(peers[k].packed) = 6
  OBVIOUS
<1>4. Packed(peers) = Flat(ss, m)
  BY DEF Packed
<1> HIDE DEF m
<1>5. Len(ss) = m /\ \A k \in 1..m : ss[k] = peers[k].packed
  BY <1>1
<1> HIDE DEF ss
<1>6. Len(ss) \in Nat /\ \A k \in 1..Len(ss) : ss[k] \in Seq(Char)
  BY <1>1, <1>2, <1>5
<1>7. \A k \in 0..Len(ss) : Flat(ss, k) \in Seq(Char) /\ Len(Flat(ss, k)) \in Nat
  BY <1>6, FlatType
<1>8. \A k \in 1..m : /\ Len(Flat(ss, k)) = Len(Flat(ss, k - 1)) + 6
                      /\ Occurs(ss[k], Flat(ss, m), Len(Flat(ss, k - 1)))
  <2> SUFFICES ASSUME NEW k \in 1..m
               PROVE  /\ Len(Flat(ss, k)) = Len(Flat(ss, k - 1)) + 6
                      /\ Occurs(ss[k], Flat(ss, m), Len(Flat(ss, k - 1)))
    OBVIOUS
  <2>1. k \in 1..Len(ss) /\ m \in k..Len(ss)
    BY <1>1, <1>5
  <2>2. /\ Len(Flat(ss, k)) = Len(Flat(ss, k - 1)) + Len(ss[k])
        /\ Occurs(ss[k], Flat(ss, m), Len(Flat(ss, k - 1)))
    BY <1>6, <2>1, FlatPlaces
  <2>3. Len(ss[k]) = 6
    BY <1>3, <1>5
  <2> QED
    BY <2>2, <2>3
<1>9. \A k \in 0..m : Len(Flat(ss, k)) = 6 * k
  <2> DEFINE S == {k \in 0..m : Len(Flat(ss, k)) = 6 * k}
  <2>1. 0 \in S
    <3>1. Flat(ss, 0) = <<>>
      BY <1>6, FlatStep
    <3>2. Len(<<>>) = 6 * 0
      OBVIOUS
    <3> QED
      BY <1>1, <3>1, <3>2
  <2>2. ASSUME NEW k \in 1..m, k - 1 \in S PROVE k \in S
    <3>1. Len(Flat(ss, k - 1)) = 6 * (k - 1) /\ Len(Flat(ss, k)) = Len(Flat(ss, k - 1)) + 6
      BY <1>8, <2>2
    <3>2. 6 * (k - 1) + 6 = 6 * k /\ k \in 0..m
      BY <1>1
    <3> QED
      BY <3>1, <3>2
  <2> HIDE DEF S
  <2>3. \A k \in 0..m : k \in S
    BY <1>1, <2>1, <2>2, Upwards
  <2> QED
    BY <2>3 DEF S
<1>10. Packed(peers) \in Seq(Char) /\ Len(Packed(peers)) = 6 * m
  <2>1. m \in 0..m /\ m \in 0..Len(ss)
    BY <1>1, <1>5
  <2> QED
    BY <1>4, <1>7, <1>9, <2>1
<1>11. ASSUME NEW k \in 1..m PROVE Occurs(peers[k].packed, Packed(peers), 6 * (k - 1))
  <2>1. Len(Flat(ss, k - 1)) = 6 * (k - 1)
    <3>1. k - 1 \in 0..m
      BY <1>1
    <3> QED
      BY <1>9, <3>1
  <2>2. Occurs(ss[k], Flat(ss, m), Len(Flat(ss, k - 1)))
    BY <1>8
  <2> QED
    BY <1>4, <1>5, <2>1, <2>2
<1> QED
  BY <1>1, <1>2, <1>10, <1>11 DEF m

\* The nodes for peers are legal.
LEMMA PeersClosed ==
  ASSUME NEW a
  PROVE  /\ Closed(PeerNodes(a)) /\ Scalars \subseteq PeerNodes(a)
         /\ \A p \in Peer : PeerNode(a, p) \in PeerNodes(a)
<1> DEFINE X == {PeerNode(a, p) : p \in Peer}
<1>1. \A x \in X : Legal(x, Scalars)
  <2>1. \A p \in Peer : Legal(PeerNode(a, p), Scalars)
    BY PeerLegal
  <2> QED
    BY <2>1
<1>2. PeerNodes(a) = Scalars \cup X /\ \A p \in Peer : PeerNode(a, p) \in X
  BY DEF PeerNodes
<1> HIDE DEF X
<1>3. Closed(Scalars \cup X)
  BY <1>1, ScalarsClosed, ClosedWith
<1> QED
  BY <1>2, <1>3

\* The peers, as a string or as a list.
LEMMA PeersLegal ==
  ASSUME NEW a \in Announces
  PROVE  /\ Legal(PeersNode(a), PeerNodes(a))
         /\ a.compact => /\ PeersNode(a).type = "T_STRING"
                         /\ PeersNode(a).value = Packed(a.peers)
                         /\ PeersNode(a).text = CompactText(a.peers)
         /\ ~a.compact => /\ PeersNode(a).type = "T_LIST"
                          /\ PeersNode(a).items = PeerList(a)
                          /\ PeersNode(a).text = ListText(a)
<1> DEFINE m == Len(a.peers)
           N == PeerNodes(a)
           n == PeersNode(a)
<1>1. /\ a.peers \in Seq(Peer) /\ m \in Nat /\ \A k \in 1..m : a.peers[k] \in Peer
      /\ \A k \in 1..m : Len(a.peers[k].packed) = 6
  BY AnnounceIs
<1>2. Closed(N) /\ \A p \in Peer : PeerNode(a, p) \in N
  BY PeersClosed
<1>3. \A x \in N : x.text \in Seq(Char)
  BY <1>2, ClosedTexts
<1> HIDE DEF N
<1>4. CASE a.compact
  <2> DEFINE v == Packed(a.peers)
  <2>1. v \in Seq(Char)
    BY <1>1, PackedIs
  <2>2. n = StringNode(v)
    BY <1>4 DEF PeersNode
  <2>3. CompactText(a.peers) = Counts(v)
    BY DEF CompactText
  <2> HIDE DEF v, n
  <2>4. Legal(n, N) /\ n.type = "T_STRING" /\ n.value = v /\ n.text = Counts(v)
    BY <2>1, <2>2, StringNodeLegal
  <2> QED
    BY <1>4, <2>3, <2>4 DEF n, v, N
<1>5. CASE ~a.compact
  <2> DEFINE it == PeerList(a)
             ts == [k \in 1..m |-> PeerText(a, a.peers[k])]
  <2>1. it = [k \in 1..m |-> PeerNode(a, a.peers[k])]
    BY DEF PeerList
  <2>2. n = ListNode(it)
    BY <1>5 DEF PeersNode
  <2>3. ListText(a) = <<"l">> \o Flat(ts, m) \o <<"e">>
    BY DEF ListText
  <2>4. \A k \in 1..m : PeerNode(a, a.peers[k]) \in N /\ PeerNode(a, a.peers[k]).text = PeerText(a, a.peers[k])
    BY <1>1, <1>2, PeerLegal
  <2> HIDE DEF it, n, m
  <2>5. it \in Seq(N) /\ Len(it) = m /\ \A k \in 1..m : it[k].text = PeerText(a, a.peers[k])
    <3>1. it \in [1..m -> N]
      BY <2>1, <2>4
    <3>2. it \in Seq(N)
      BY <1>1, <3>1, SeqDef
    <3>3. Len(it) = m
      BY <1>1, <2>1
    <3> QED
      BY <2>1, <2>4, <3>2, <3>3
  <2>6. Texts(it) = ts
    <3>1. Texts(it) = [k \in 1..m |-> it[k].text]
      BY <2>5 DEF Texts
    <3> QED
      BY <2>5, <3>1
  <2> HIDE DEF ts
  <2>7. /\ Legal(ListNode(it), N) /\ ListNode(it).type = "T_LIST" /\ ListNode(it).items = it
        /\ ListNode(it).text = <<"l">> \o Flat(Texts(it), Len(it)) \o <<"e">>
    BY <1>3, <2>5, ListNodeLegal
  <2>8. n.text = ListText(a)
    BY <2>2, <2>3, <2>5, <2>6, <2>7
  <2> QED
    BY <1>5, <2>2, <2>7, <2>8 DEF n, it, N
<1> QED
  BY <1>4, <1>5 DEF N, n

\* The whole reply is a legal dictionary, and its text is what is sent.
LEMMA ReplyLegal ==
  ASSUME NEW a \in Announces
  PROVE  /\ Legal(ReplyNode(a), PeerNodes(a) \cup {PeersNode(a)})
         /\ ReplyNode(a).type = "T_DICT" /\ ReplyNode(a).items = ReplyItems(a)
         /\ ReplyNode(a).text = AnnounceText(a)
<1> DEFINE N == PeerNodes(a) \cup {PeersNode(a)}
           k1 == StringNode(IntervalKey)
           v1 == IntNode(a.interval)
           k2 == StringNode(PeersKey)
           v2 == PeersNode(a)
           k3 == StringNode(SixKey)
           v3 == StringNode(a.six)
           c1 == <<"8", ":">> \o IntervalKey
           w1 == <<"i">> \o Signed(a.interval) \o <<"e">>
           c2 == <<"5", ":">> \o PeersKey
           w2 == IF a.compact THEN CompactText(a.peers) ELSE ListText(a)
           c3 == <<"1", "0", ":">> \o SixKey
           w3 == Counts(a.six)
           n == ReplyNode(a)
<1>1. a.interval \in 0..MaxInt /\ a.six \in Seq(Char) /\ a.compact \in BOOLEAN
  BY AnnounceIs
<1>2. \A x \in N : x.text \in Seq(Char)
  <2>1. Closed(PeerNodes(a))
    BY PeersClosed
  <2>2. \A x \in PeerNodes(a) : x.text \in Seq(Char)
    BY <2>1, ClosedTexts
  <2>3. PeersNode(a).text \in Seq(Char)
    BY PeersLegal, LegalType
  <2> QED
    BY <2>2, <2>3
<1>3. /\ k1 \in N /\ v1 \in N /\ k2 \in N /\ v2 \in N /\ k3 \in N /\ v3 \in N
  <2>1. Scalars \subseteq N /\ PeersNode(a) \in N
    BY PeersClosed
  <2>2. k1 \in Scalars /\ v1 \in Scalars /\ k2 \in Scalars /\ k3 \in Scalars /\ v3 \in Scalars
    BY <1>1, KeyTexts, ScalarsClosed
  <2> HIDE DEF N, k1, v1, k2, k3, v3
  <2> QED
    BY <2>1, <2>2
<1>4. k1.type = "T_STRING" /\ k2.type = "T_STRING" /\ k3.type = "T_STRING"
  BY KeyTexts, StringNodeLegal
<1>5. k1.text = c1 /\ k2.text = c2 /\ k3.text = c3
  BY KeyTexts, StringNodeLegal
<1>6. v1.text = w1
  BY <1>1, IntNodeLegal
<1>7. v2.text = w2
  <2>1. CASE a.compact
    BY <2>1, PeersLegal
  <2>2. CASE ~a.compact
    BY <2>2, PeersLegal
  <2> QED
    BY <2>1, <2>2
<1>8. v3.text = w3
  BY <1>1, StringNodeLegal
<1>9. AnnounceText(a) = Braced(Two(c1, w1, c2, w2) \o SixParts(a))
  BY DEF AnnounceText, Two
<1>10. SixParts(a) = IF ~a.compact \/ a.six = <<>> THEN <<>> ELSE <<c3, w3>>
  BY DEF SixParts
<1>11. ReplyItems(a) = IF WithSix(a) THEN Three(k1, v1, k2, v2, k3, v3) ELSE Two(k1, v1, k2, v2)
  BY DEF ReplyItems
<1>12. n = DictNode(ReplyItems(a))
  BY DEF ReplyNode
<1> HIDE DEF N, k1, v1, k2, v2, k3, v3, c1, w1, c2, w2, c3, w3, n
<1>13. CASE ~WithSix(a)
  <2>1. ReplyItems(a) = Two(k1, v1, k2, v2)
    BY <1>11, <1>13
  <2>2. AnnounceText(a) = Braced(Two(c1, w1, c2, w2))
    <3>1. SixParts(a) = <<>>
      BY <1>10, <1>13 DEF WithSix
    <3> QED
      BY <1>9, <3>1, OnePairMore
  <2>3. IsDict(DictNode(Two(k1, v1, k2, v2)), N, Two(k1, v1, k2, v2),
               Two(k1.text, v1.text, k2.text, v2.text))
    BY <1>2, <1>3, <1>4, TwoPairs
  <2> QED
    BY <1>5, <1>6, <1>7, <1>12, <2>1, <2>2, <2>3 DEF n, N, IsDict
<1>14. CASE WithSix(a)
  <2>1. ReplyItems(a) = Three(k1, v1, k2, v2, k3, v3)
    BY <1>11, <1>14
  <2>2. AnnounceText(a) = Braced(Three(c1, w1, c2, w2, c3, w3))
    <3>1. SixParts(a) = <<c3, w3>>
      BY <1>10, <1>14 DEF WithSix
    <3> QED
      BY <1>9, <3>1, OnePairMore
  <2>3. IsDict(DictNode(Three(k1, v1, k2, v2, k3, v3)), N, Three(k1, v1, k2, v2, k3, v3),
               Three(k1.text, v1.text, k2.text, v2.text, k3.text, v3.text))
    BY <1>2, <1>3, <1>4, ThreePairs
  <2> QED
    BY <1>5, <1>6, <1>7, <1>8, <1>12, <2>1, <2>2, <2>3 DEF n, N, IsDict
<1> QED
  BY <1>13, <1>14 DEF n, N

\* The tree of the reply stands in its text.
LEMMA ReplyStands ==
  ASSUME NEW a \in Announces
  PROVE  Stands(ReplyNodes(a), ReplyNode(a), AnnounceText(a), 0)
<1> DEFINE M == PeerNodes(a) \cup {PeersNode(a)}
           n == ReplyNode(a)
           s == AnnounceText(a)
<1>1. Closed(M)
  <2>1. Closed(PeerNodes(a)) /\ \A x \in {PeersNode(a)} : Legal(x, PeerNodes(a))
    BY PeersClosed, PeersLegal
  <2> QED
    BY <2>1, ClosedWith
<1>2. Legal(n, M) /\ n.text = s
  BY ReplyLegal
<1>3. ReplyNodes(a) = M \cup {n}
  BY DEF ReplyNodes
<1> HIDE DEF M, n, s
<1>4. Closed(M \cup {n})
  <2>1. \A x \in {n} : Legal(x, M)
    BY <1>2
  <2> QED
    BY <1>1, <2>1, ClosedWith
<1>5. s \in Seq(Char)
  BY <1>2, LegalType
<1>6. Occurs(s, s, 0)
  BY <1>5, LenProperties, OccursItself
<1>7. Stands(ReplyNodes(a), n, s, 0)
  BY <1>2, <1>3, <1>4, <1>5, <1>6 DEF Stands
<1> QED
  BY <1>7 DEF n, s

-----------------------------------------------------------------------------
(***************************************************************************)
(* Reading the reply.                                                      *)
(***************************************************************************)

\* There is a value of this key at k.
IsValue(n, key, k) == k % 2 = 0 /\ n.items[k - 1].value = key

\* The first value of a key.
LEMMA ValueIs ==
  ASSUME NEW n, NEW key, NEW m \in Nat, Len(n.items) = m, NEW k \in 1..m, IsValue(n, key, k),
         \A j \in 1..m : IsValue(n, key, j) => k <= j
  PROVE  ValueOf(n, key) = k
<1> DEFINE hits == {j \in 1..m : j % 2 = 0 /\ n.items[j - 1].value = key}
           c == CHOOSE x \in hits : \A j \in hits : x <= j
<1>1. ValueOf(n, key) = IF hits = {} THEN 0 ELSE c
  BY DEF ValueOf
<1>2. k \in hits /\ (\A j \in hits : k <= j) /\ hits \subseteq Nat
  BY DEF IsValue
<1> HIDE DEF hits
<1>3. c \in hits /\ \A j \in hits : c <= j
  BY <1>2
<1>4. ValueOf(n, key) = c
  BY <1>1, <1>2
<1> HIDE DEF c
<1>5. c <= k /\ k <= c /\ c \in Nat /\ k \in Nat
  BY <1>2, <1>3
<1> QED
  BY <1>4, <1>5

\* A key that is not there.
LEMMA ValueNone ==
  ASSUME NEW n, NEW key, NEW m \in Nat, Len(n.items) = m,
         \A j \in 1..m : ~IsValue(n, key, j)
  PROVE  ValueOf(n, key) = 0
<1> DEFINE hits == {j \in 1..m : j % 2 = 0 /\ n.items[j - 1].value = key}
<1>1. hits = {}
  BY DEF IsValue
<1> QED
  BY <1>1 DEF ValueOf

\* A key of two pairs leads to its value.
LEMMA TwoValues ==
  ASSUME NEW n, NEW a, NEW b, NEW c, NEW d, n.items = Two(a, b, c, d)
  PROVE  /\ ValueOf(n, a.value) = 2 /\ (c.value # a.value => ValueOf(n, c.value) = 4)
         /\ Len(n.items) = 4 /\ n.items[2] = b /\ n.items[4] = d
<1>1. /\ Len(n.items) = 4 /\ n.items[1] = a /\ n.items[2] = b /\ n.items[3] = c
      /\ n.items[4] = d
  BY DEF Two
<1>2. \A j \in 1..4 : j % 2 = 0 => j = 2 \/ j = 4
  <2>1. \A j \in 1..4 : j = 1 \/ j = 2 \/ j = 3 \/ j = 4
    OBVIOUS
  <2>2. 1 % 2 = 1 /\ 3 % 2 = 1 /\ 0 # 1
    OBVIOUS
  <2> QED
    BY <2>1, <2>2
<1>3. /\ 2 % 2 = 0 /\ 4 % 2 = 0 /\ 2 - 1 = 1 /\ 4 - 1 = 3 /\ 2 <= 2 /\ 2 <= 4 /\ 4 <= 4
      /\ 2 \in 1..4 /\ 4 \in 1..4 /\ 4 \in Nat
  OBVIOUS
<1> DEFINE items == n.items
<1> HIDE DEF items
<1>4. ValueOf(n, a.value) = 2
  <2>1. \A j \in 1..4 : IsValue(n, a.value, j) => 2 <= j
    BY <1>2, <1>3 DEF IsValue
  <2>2. IsValue(n, a.value, 2)
    BY <1>1, <1>3 DEF IsValue
  <2>3. 2 \in 1..4
    BY <1>3
  <2>4. Len(n.items) = 4 /\ 4 \in Nat
    BY <1>1
  <2> QED
    BY <2>1, <2>2, <2>3, <2>4, ValueIs
<1>5. ASSUME c.value # a.value PROVE ValueOf(n, c.value) = 4
  <2>1. \A j \in 1..4 : IsValue(n, c.value, j) => 4 <= j
    BY <1>1, <1>2, <1>3, <1>5 DEF IsValue
  <2>2. IsValue(n, c.value, 4)
    BY <1>1, <1>3 DEF IsValue
  <2>3. 4 \in 1..4
    BY <1>3
  <2>4. Len(n.items) = 4 /\ 4 \in Nat
    BY <1>1
  <2> QED
    BY <2>1, <2>2, <2>3, <2>4, ValueIs
<1> QED
  BY <1>1, <1>4, <1>5

\* Another key than those of two pairs leads nowhere.
LEMMA NoThirdValue ==
  ASSUME NEW n, NEW a, NEW b, NEW c, NEW d, n.items = Two(a, b, c, d),
         NEW x, x # a.value, x # c.value
  PROVE  ValueOf(n, x) = 0
<1>1. Len(n.items) = 4 /\ n.items[1] = a /\ n.items[3] = c
  BY DEF Two
<1>2. \A j \in 1..4 : j % 2 = 0 => j = 2 \/ j = 4
  <2>1. \A j \in 1..4 : j = 1 \/ j = 2 \/ j = 3 \/ j = 4
    OBVIOUS
  <2>2. 1 % 2 = 1 /\ 3 % 2 = 1 /\ 0 # 1
    OBVIOUS
  <2> QED
    BY <2>1, <2>2
<1>3. 2 - 1 = 1 /\ 4 - 1 = 3 /\ 4 \in Nat
  OBVIOUS
<1>4. \A j \in 1..4 : ~IsValue(n, x, j)
  BY <1>1, <1>2, <1>3 DEF IsValue
<1> QED
  BY <1>1, <1>3, <1>4, ValueNone

\* A key of three pairs leads to its value.
LEMMA ThreeValues ==
  ASSUME NEW n, NEW a, NEW b, NEW c, NEW d, NEW e, NEW f, n.items = Three(a, b, c, d, e, f)
  PROVE  /\ ValueOf(n, a.value) = 2 /\ (c.value # a.value => ValueOf(n, c.value) = 4)
         /\ (e.value # a.value /\ e.value # c.value) => ValueOf(n, e.value) = 6
         /\ Len(n.items) = 6 /\ n.items[2] = b /\ n.items[4] = d /\ n.items[6] = f
<1>1. /\ Len(n.items) = 6 /\ n.items[1] = a /\ n.items[2] = b /\ n.items[3] = c
      /\ n.items[4] = d /\ n.items[5] = e /\ n.items[6] = f
  BY DEF Three
<1>2. \A j \in 1..6 : j % 2 = 0 => j = 2 \/ j = 4 \/ j = 6
  <2>1. \A j \in 1..6 : j = 1 \/ j = 2 \/ j = 3 \/ j = 4 \/ j = 5 \/ j = 6
    OBVIOUS
  <2>2. 1 % 2 = 1 /\ 3 % 2 = 1 /\ 5 % 2 = 1 /\ 0 # 1
    OBVIOUS
  <2> QED
    BY <2>1, <2>2
<1>3. /\ 2 % 2 = 0 /\ 4 % 2 = 0 /\ 6 % 2 = 0 /\ 2 - 1 = 1 /\ 4 - 1 = 3 /\ 6 - 1 = 5
      /\ 2 <= 2 /\ 2 <= 4 /\ 2 <= 6 /\ 4 <= 4 /\ 4 <= 6 /\ 6 <= 6
      /\ 2 \in 1..6 /\ 4 \in 1..6 /\ 6 \in 1..6 /\ 6 \in Nat
  OBVIOUS
<1>4. ValueOf(n, a.value) = 2
  <2>1. \A j \in 1..6 : IsValue(n, a.value, j) => 2 <= j
    BY <1>2, <1>3 DEF IsValue
  <2>2. IsValue(n, a.value, 2)
    BY <1>1, <1>3 DEF IsValue
  <2>3. 2 \in 1..6
    BY <1>3
  <2>4. Len(n.items) = 6 /\ 6 \in Nat
    BY <1>1
  <2> QED
    BY <2>1, <2>2, <2>3, <2>4, ValueIs
<1>5. ASSUME c.value # a.value PROVE ValueOf(n, c.value) = 4
  <2>1. \A j \in 1..6 : IsValue(n, c.value, j) => 4 <= j
    BY <1>1, <1>2, <1>3, <1>5 DEF IsValue
  <2>2. IsValue(n, c.value, 4)
    BY <1>1, <1>3 DEF IsValue
  <2>3. 4 \in 1..6
    BY <1>3
  <2>4. Len(n.items) = 6 /\ 6 \in Nat
    BY <1>1
  <2> QED
    BY <2>1, <2>2, <2>3, <2>4, ValueIs
<1>6. ASSUME e.value # a.value, e.value # c.value PROVE ValueOf(n, e.value) = 6
  <2>1. \A j \in 1..6 : IsValue(n, e.value, j) => 6 <= j
    BY <1>1, <1>2, <1>3, <1>6 DEF IsValue
  <2>2. IsValue(n, e.value, 6)
    BY <1>1, <1>3 DEF IsValue
  <2>3. 6 \in 1..6
    BY <1>3
  <2>4. Len(n.items) = 6 /\ 6 \in Nat
    BY <1>1
  <2> QED
    BY <2>1, <2>2, <2>3, <2>4, ValueIs
<1> QED
  BY <1>1, <1>4, <1>5, <1>6

\* The value of a key that is there.
LEMMA ValueStands ==
  ASSUME NEW N, NEW n, NEW s, NEW i, Stands(N, n, s, i), n.type = "T_DICT", NEW key, NEW k,
         ValueOf(n, key) = k, k # 0
  PROVE  /\ Stands(N, n.items[k], s, i + benc_dict_value_offset(s, i, key))
         /\ benc_dict_value_offset(s, i, key) \in Nat /\ 1 <= benc_dict_value_offset(s, i, key)
<1> DEFINE m == Len(n.items)
           off == benc_dict_value_offset(s, i, key)
<1>1. Shut(n)
  BY DEF Shut
<1>2. m \in Nat
  BY <1>1, ItemsAt
<1>3. k \in 0..m /\ off = OffsetOf(n.items, k)
  BY ValueAt
<1> HIDE DEF off, m
<1>4. k \in 1..m
  BY <1>2, <1>3
<1>5. Stands(N, n.items[k], s, i + OffsetOf(n.items, k)) /\ OffsetOf(n.items, k) \in Nat
      /\ 1 <= OffsetOf(n.items, k)
  BY <1>1, <1>4, ItemStands DEF m
<1> QED
  BY <1>3, <1>5 DEF off

\* The keys differ.
LEMMA KeysDiffer ==
  IntervalKey # PeersKey /\ IpKey # PortKey /\ IpKey # PeerIdKey /\ PortKey # PeerIdKey
<1>1. Len(IntervalKey) = 8 /\ Len(PeersKey) = 5
  BY DEF IntervalKey, PeersKey
<1>2. Len(IpKey) = 2 /\ Len(PortKey) = 4 /\ Len(PeerIdKey) = 7
  BY DEF IpKey, PortKey, PeerIdKey
<1> QED
  BY <1>1, <1>2

\* One peer of a list.
LEMMA PeerListed ==
  ASSUME NEW N, NEW a \in Announces, NEW p \in Peer, NEW s, NEW i, Stands(N, PeerNode(a, p), s, i)
  PROVE  PeerAt(s, i) =
           Told("listed", p.ip, Read(p.port), IF a.no_peer_id THEN <<>> ELSE <<p.id>>)
<1> DEFINE n == PeerNode(a, p)
           k1 == StringNode(IpKey)
           v1 == StringNode(p.ip)
           k2 == StringNode(PortKey)
           v2 == IntNode(p.port)
           k3 == StringNode(PeerIdKey)
           v3 == StringNode(p.id)
           ip == benc_dict_value_offset(s, i, IpKey)
           port == benc_dict_value_offset(s, i, PortKey)
           id == benc_dict_value_offset(s, i, PeerIdKey)
<1>1. p.ip \in Seq(Char) /\ p.id \in Seq(Char) /\ p.port \in 0..MaxInt
  BY PeerIs
<1>2. n.type = "T_DICT" /\ n.items = PeerItems(a, p)
  BY PeerLegal
<1>3. PeerItems(a, p) = IF a.no_peer_id THEN Two(k1, v1, k2, v2) ELSE Three(k1, v1, k2, v2, k3, v3)
  BY DEF PeerItems
<1>4. k1.value = IpKey /\ k2.value = PortKey /\ k3.value = PeerIdKey
  BY KeyTexts, StringNodeLegal
<1>5. /\ v1.type = "T_STRING" /\ v1.value = p.ip /\ v3.type = "T_STRING" /\ v3.value = p.id
  BY <1>1, StringNodeLegal
<1>6. v2.type = "T_INT" /\ v2.number = p.port
  BY <1>1, IntNodeLegal
<1>7. Stands(N, n, s, i)
  OBVIOUS
<1>8. benc_entity_type(s, i) = "T_DICT"
  BY <1>2, <1>7, NodeAt
<1>9. PeerAt(s, i) =
        IF benc_entity_type(s, i) # "T_DICT" THEN Told("invalid", <<>>, 0, <<>>)
        ELSE IF ip < 0 \/ port < 0 THEN Told("incomplete", <<>>, 0, <<>>)
        ELSE Told("listed", StringData(s, i + ip), benc_int_value(s, i + port, -1),
                  IF id > 0 THEN <<StringData(s, i + id)>> ELSE <<>>)
  BY DEF PeerAt
<1> HIDE DEF n, k1, v1, k2, v2, k3, v3
<1>10. /\ ValueOf(n, IpKey) = 2 /\ ValueOf(n, PortKey) = 4
       /\ ValueOf(n, PeerIdKey) = (IF a.no_peer_id THEN 0 ELSE 6)
       /\ n.items[2] = v1 /\ n.items[4] = v2
       /\ ~a.no_peer_id => n.items[6] = v3
  <2>1. CASE a.no_peer_id
    <3>1. n.items = Two(k1, v1, k2, v2)
      BY <1>2, <1>3, <2>1
    <3>2. /\ ValueOf(n, k1.value) = 2 /\ (k2.value # k1.value => ValueOf(n, k2.value) = 4)
          /\ n.items[2] = v1 /\ n.items[4] = v2
      BY <3>1, TwoValues
    <3>3. PeerIdKey # k1.value /\ PeerIdKey # k2.value => ValueOf(n, PeerIdKey) = 0
      BY <3>1, NoThirdValue
    <3> QED
      BY <1>4, <2>1, <3>2, <3>3, KeysDiffer
  <2>2. CASE ~a.no_peer_id
    <3>1. n.items = Three(k1, v1, k2, v2, k3, v3)
      BY <1>2, <1>3, <2>2
    <3>2. /\ ValueOf(n, k1.value) = 2 /\ (k2.value # k1.value => ValueOf(n, k2.value) = 4)
          /\ (k3.value # k1.value /\ k3.value # k2.value) => ValueOf(n, k3.value) = 6
          /\ n.items[2] = v1 /\ n.items[4] = v2 /\ n.items[6] = v3
      BY <3>1, ThreeValues
    <3> QED
      BY <1>4, <2>2, <3>2, KeysDiffer
  <2> QED
    BY <2>1, <2>2
<1>11. Stands(N, v1, s, i + ip) /\ ip \in Nat
  <2>1. ValueOf(n, IpKey) = 2 /\ 2 # 0
    BY <1>10
  <2> QED
    BY <1>2, <1>7, <1>10, <2>1, ValueStands
<1>12. Stands(N, v2, s, i + port) /\ port \in Nat
  <2>1. ValueOf(n, PortKey) = 4 /\ 4 # 0
    BY <1>10
  <2> QED
    BY <1>2, <1>7, <1>10, <2>1, ValueStands
<1>13. ~a.no_peer_id => Stands(N, v3, s, i + id) /\ id \in Nat /\ 1 <= id
  <2> SUFFICES ASSUME ~a.no_peer_id PROVE Stands(N, v3, s, i + id) /\ id \in Nat /\ 1 <= id
    OBVIOUS
  <2>1. ValueOf(n, PeerIdKey) = 6 /\ 6 # 0
    BY <1>10
  <2> QED
    BY <1>2, <1>7, <1>10, <2>1, ValueStands
<1>14. a.no_peer_id => id = -1
  BY <1>2, <1>7, <1>10, ValueAt
<1> HIDE DEF ip, port, id
<1>15. StringData(s, i + ip) = p.ip
  BY <1>5, <1>11, StringAt
<1>16. benc_int_value(s, i + port, -1) = Read(p.port)
  BY <1>6, <1>12, IntAt
<1>17. ~(ip < 0 \/ port < 0)
  BY <1>11, <1>12
<1>18. PeerAt(s, i) =
         Told("listed", p.ip, Read(p.port), IF id > 0 THEN <<StringData(s, i + id)>> ELSE <<>>)
  BY <1>8, <1>9, <1>15, <1>16, <1>17
<1>19. CASE a.no_peer_id
  <2>1. ~(id > 0)
    BY <1>14, <1>19
  <2> QED
    BY <1>18, <1>19, <2>1
<1>20. CASE ~a.no_peer_id
  <2>1. id > 0 /\ StringData(s, i + id) = p.id
    BY <1>5, <1>13, <1>20, StringAt
  <2> QED
    BY <1>18, <1>20, <2>1
<1> QED
  BY <1>19, <1>20

\* Where the characters of the string at i begin; n characters, j behind d.
DataAt(s, i) == i + benc_string_data_offset(s, i)
Cut(s, d, j, n) == SubSeq(s, d + j + 1, d + j + n)

\* The characters of a string, and what occurs in them.
LEMMA StringPart ==
  ASSUME NEW N, NEW n, NEW s, NEW i, NEW t \in Seq(Char), NEW j, Stands(N, n, s, i),
         n.type = "T_STRING", Occurs(t, n.value, j)
  PROVE  Cut(s, DataAt(s, i), j, Len(t)) = t /\ DataAt(s, i) \in Nat /\ j \in Nat
<1> DEFINE v == n.value
           d == Decimal(Len(v))
           off == benc_string_data_offset(s, i)
<1>1. Legal(n, N) /\ s \in Seq(Char) /\ Occurs(n.text, s, i)
  BY NodeAt DEF Stands
<1>2. v \in Seq(Char) /\ n.text = Counts(v)
  BY <1>1, LegalString
<1>3. Occurs(Counts(v), s, i)
  BY <1>1, <1>2
<1>4. Len(v) \in Nat /\ Len(s) \in Nat /\ i \in Nat
  BY <1>1, <1>2, LenProperties DEF Occurs
<1>5. d \in Seq(Char) /\ Len(d) \in Nat
  BY <1>4, DecimalText
<1>6. Counts(v) = (d \o <<":">>) \o v
  BY DEF Counts
<1> HIDE DEF v, d
<1>7. /\ d \o <<":">> \in Seq(Char) /\ Len(d \o <<":">>) = Len(d) + 1
  <2>1. ":" \in Char
    BY CharAssumption
  <2> QED
    BY <1>5, <2>1, OneMore
<1> DEFINE h == d \o <<":">>
<1>8. Counts(v) = h \o v /\ h \in Seq(Char) /\ Len(h) = Len(d) + 1
  BY <1>6, <1>7
<1> HIDE DEF h
<1>9. Occurs(v, Counts(v), Len(h)) /\ Len(Counts(v)) = Len(h) + Len(v) /\ Len(h) \in Nat
  <2>1. Occurs(v, h \o v, Len(h))
    BY <1>2, <1>8, OccursParts
  <2>2. Len(h \o v) = Len(h) + Len(v) /\ Len(h) \in Nat
    BY <1>2, <1>8, ConcatProperties, LenProperties
  <2> QED
    BY <1>8, <2>1, <2>2
<1>10. Occurs(v, s, i + Len(h))
  BY <1>3, <1>9, OccursWithin
<1>11. off + Number(s, i) = Len(Counts(v)) /\ Number(s, i) = Len(v) /\ IsKey(s, i)
  <2>1. v \in Seq(Char) /\ s \in Seq(Char) /\ Occurs(Counts(v), s, i)
    BY <1>1, <1>2, <1>3
  <2> HIDE DEF off
  <2>2. benc_entity_type(s, i) = "T_STRING" /\ Number(s, i) = Len(v)
    BY <2>1, StringFound
  <2>3. off + Number(s, i) = Len(Counts(v))
    BY <2>1, StringFound DEF off
  <2> QED
    BY <2>2, <2>3 DEF IsKey
<1>12. off = DigitsAt(s, i) + 1 /\ DigitsAt(s, i) \in Nat
  <2>1. DigitsAt(s, i) \in 0..Len(s)
    BY <1>4, DigitsEnd
  <2> QED
    BY <1>4, <1>11, <2>1 DEF benc_string_data_offset
<1> HIDE DEF off
<1>13. off = Len(h) /\ off \in Nat
  BY <1>4, <1>9, <1>11, <1>12
<1>14. Occurs(t, s, (i + off) + j)
  BY <1>10, <1>13, OccursWithin DEF v
<1>15. j \in Nat /\ i + off \in Nat
  BY <1>4, <1>13 DEF Occurs
<1> DEFINE at == i + off
<1> HIDE DEF at
<1>16. Cut(s, at, j, Len(t)) = t
  <2>1. Occurs(t, s, at + j)
    BY <1>14 DEF at
  <2> DEFINE b == at + j
  <2> HIDE DEF b
  <2>2. SubSeq(s, b + 1, b + Len(t)) = t
    BY <1>1, <2>1, CutOut DEF b
  <2> QED
    BY <2>2 DEF b, Cut
<1>17. DataAt(s, i) = at
  BY DEF DataAt, at, off
<1> QED
  BY <1>15, <1>16, <1>17 DEF at


\* What getpeers makes of a reply.
LEMMA ReplyRead ==
  ASSUME NEW a \in Announces
  PROVE  /\ Len(ReadPeers(AnnounceText(a))) = Len(a.peers)
         /\ \A k \in 1..Len(a.peers) :
              ReadPeers(AnnounceText(a))[k] =
                IF a.compact THEN Told("packed", a.peers[k].packed, 0, <<>>)
                ELSE Told("listed", a.peers[k].ip, Read(a.peers[k].port),
                          IF a.no_peer_id THEN <<>> ELSE <<a.peers[k].id>>)
<1> DEFINE N == ReplyNodes(a)
           n == ReplyNode(a)
           v == PeersNode(a)
           s == AnnounceText(a)
           m == Len(a.peers)
           peers == benc_dict_value_offset(s, 0, PeersKey)
           len == benc_string_length(s, peers)
           data == peers + benc_string_data_offset(s, peers)
           told(k) == IF a.compact THEN Told("packed", a.peers[k].packed, 0, <<>>)
                      ELSE Told("listed", a.peers[k].ip, Read(a.peers[k].port),
                                IF a.no_peer_id THEN <<>> ELSE <<a.peers[k].id>>)
<1>1. /\ a.peers \in Seq(Peer) /\ m \in Nat /\ \A k \in 1..m : a.peers[k] \in Peer
      /\ \A k \in 1..m : Len(a.peers[k].packed) = 6
  BY AnnounceIs
<1>2. Stands(N, n, s, 0)
  BY ReplyStands
<1>3. n.type = "T_DICT" /\ n.items = ReplyItems(a)
  BY ReplyLegal
<1>4. ValueOf(n, PeersKey) = 4 /\ n.items[4] = v
  <2> DEFINE k1 == StringNode(IntervalKey)
             v1 == IntNode(a.interval)
             k2 == StringNode(PeersKey)
             k3 == StringNode(SixKey)
             v3 == StringNode(a.six)
  <2>1. k1.value = IntervalKey /\ k2.value = PeersKey
    BY KeyTexts, StringNodeLegal
  <2>2. n.items = IF WithSix(a) THEN Three(k1, v1, k2, v, k3, v3) ELSE Two(k1, v1, k2, v)
    BY <1>3 DEF ReplyItems
  <2>3. k2.value # k1.value
    BY <2>1, KeysDiffer
  <2> HIDE DEF n, v, k1, v1, k2, k3, v3
  <2>4. CASE WithSix(a)
    <3>1. n.items = Three(k1, v1, k2, v, k3, v3)
      BY <2>2, <2>4
    <3>2. (k2.value # k1.value => ValueOf(n, k2.value) = 4) /\ n.items[4] = v
      BY <3>1, ThreeValues
    <3> QED
      BY <2>1, <2>3, <3>2
  <2>5. CASE ~WithSix(a)
    <3>1. n.items = Two(k1, v1, k2, v)
      BY <2>2, <2>5
    <3>2. (k2.value # k1.value => ValueOf(n, k2.value) = 4) /\ n.items[4] = v
      BY <3>1, TwoValues
    <3> QED
      BY <2>1, <2>3, <3>2
  <2> QED
    BY <2>4, <2>5
<1>5. Stands(N, v, s, peers) /\ peers \in Nat
  <2>1. ValueOf(n, PeersKey) = 4 /\ 4 # 0
    BY <1>4
  <2> HIDE DEF N, n, v, s
  <2>2. Stands(N, n.items[4], s, 0 + peers) /\ peers \in Nat
    BY <1>2, <1>3, <2>1, ValueStands
  <2>3. 0 + peers = peers
    BY <2>2
  <2> QED
    BY <1>4, <2>2, <2>3
<1>6. ReadPeers(s) =
        CASE benc_entity_type(s, peers) = "T_LIST" ->
               [k \in 1..Counted(s, peers) |->
                  PeerAt(s, peers + benc_list_item_offset(s, peers, k - 1))]
          [] benc_entity_type(s, peers) = "T_STRING" /\ len % 6 = 0 ->
               [k \in 1..(len \div 6) |->
                  Told("packed", SubSeq(s, data + 6 * k - 5, data + 6 * k), 0, <<>>)]
          [] OTHER -> <<Told("unreadable", <<>>, 0, <<>>)>>
  BY DEF ReadPeers
<1>7. benc_entity_type(s, peers) = v.type
  BY <1>5, NodeAt
<1>8. CASE a.compact
  <2>1. v.type = "T_STRING" /\ v.value = Packed(a.peers) /\ v.number = Len(Packed(a.peers))
    <3>1. v.type = "T_STRING" /\ v.value = Packed(a.peers)
      BY <1>8, PeersLegal
    <3>2. Legal(v, PeerNodes(a))
      BY PeersLegal
    <3> HIDE DEF v
    <3> QED
      BY <3>1, <3>2, LegalString
  <2>2. Len(Packed(a.peers)) = 6 * m /\ \A k \in 1..m :
          a.peers[k].packed \in Seq(Char) /\ Occurs(a.peers[k].packed, v.value, 6 * (k - 1))
    <3> HIDE DEF v
    <3> QED
      BY <1>1, <2>1, PackedIs
  <2> HIDE DEF N, n, v, s
  <2>3. len = 6 * m
    BY <1>5, <2>1, <2>2, StringAt
  <2> HIDE DEF peers
  <2>4. ASSUME NEW k \in 1..m
        PROVE  SubSeq(s, data + 6 * k - 5, data + 6 * k) = a.peers[k].packed
    <3> DEFINE t == a.peers[k].packed
               j == 6 * (k - 1)
               at == DataAt(s, peers)
    <3>1. t \in Seq(Char) /\ Occurs(t, v.value, j) /\ Len(t) = 6
      BY <1>1, <2>2
    <3> HIDE DEF t, j
    <3>2. Cut(s, at, j, 6) = t /\ at \in Nat
      <4>1. Stands(N, v, s, peers) /\ v.type = "T_STRING"
        BY <1>5, <2>1
      <4>2. t \in Seq(Char) /\ Occurs(t, v.value, j)
        BY <3>1
      <4> HIDE DEF at
      <4>3. Cut(s, DataAt(s, peers), j, Len(t)) = t /\ DataAt(s, peers) \in Nat
        BY <4>1, <4>2, StringPart
      <4> QED
        BY <3>1, <4>3 DEF at
    <3>3. data = at
      BY DEF DataAt
    <3> HIDE DEF at, data
    <3>4. data + 6 * k - 5 = at + j + 1 /\ data + 6 * k = at + j + 6
      <4>1. k \in Nat
        BY <1>1
      <4> QED
        BY <3>2, <3>3, <4>1 DEF j
    <3>5. SubSeq(s, at + j + 1, at + j + 6) = t
      BY <3>2 DEF Cut
    <3> QED
      BY <3>4, <3>5 DEF t
  <2>5. (6 * m) % 6 = 0 /\ (6 * m) \div 6 = m
    <3> HIDE DEF m
    <3> QED
      BY <1>1
  <2> HIDE DEF data, len, m
  <2>6. ReadPeers(s) =
          [k \in 1..m |-> Told("packed", SubSeq(s, data + 6 * k - 5, data + 6 * k), 0, <<>>)]
    BY <1>6, <1>7, <2>1, <2>3, <2>5
  <2>7. \A k \in 1..m : ReadPeers(s)[k] = told(k)
    BY <1>8, <2>4, <2>6
  <2>8. Len(ReadPeers(s)) = m
    BY <1>1, <2>6
  <2> QED
    BY <2>7, <2>8 DEF m, s
<1>9. CASE ~a.compact
  <2>1. v.type = "T_LIST" /\ v.items = PeerList(a)
    BY <1>9, PeersLegal
  <2>2. Len(v.items) = m /\ \A k \in 1..m : v.items[k] = PeerNode(a, a.peers[k])
    <3>1. v.items = [k \in 1..m |-> PeerNode(a, a.peers[k])]
      BY <2>1 DEF PeerList
    <3> HIDE DEF v, m
    <3> QED
      BY <1>1, <3>1
  <2> HIDE DEF N, n, v, s, peers
  <2>3. Shut(v)
    BY <2>1 DEF Shut
  <2>4. Counted(s, peers) = m
    BY <1>5, <2>2, <2>3, ItemsAt
  <2>5. ASSUME NEW k \in 1..m
        PROVE  PeerAt(s, peers + benc_list_item_offset(s, peers, k - 1)) = told(k)
    <3>1. benc_list_item_offset(s, peers, k - 1) = OffsetOf(v.items, k)
      <4>1. k - 1 \in Int /\ k - 1 \in 0..(m - 1) /\ (k - 1) + 1 = k
        BY <1>1
      <4> DEFINE c == k - 1
      <4>2. c \in Int /\ c \in 0..(Len(v.items) - 1) /\ c + 1 = k
        BY <2>2, <4>1
      <4> HIDE DEF c
      <4>3. benc_list_item_offset(s, peers, c) = OffsetOf(v.items, c + 1)
        BY <1>5, <2>1, <4>2, ListItemAt
      <4> QED
        BY <4>2, <4>3 DEF c
    <3>2. Stands(N, v.items[k], s, peers + OffsetOf(v.items, k))
      <4>1. k \in 1..Len(v.items)
        BY <2>2
      <4> QED
        BY <1>5, <2>3, <4>1, ItemStands
    <3>3. Stands(N, PeerNode(a, a.peers[k]), s, peers + OffsetOf(v.items, k))
      BY <2>2, <3>2
    <3>4. a.peers[k] \in Peer
      BY <1>1
    <3> DEFINE at == peers + OffsetOf(v.items, k)
               p == a.peers[k]
    <3> HIDE DEF at, p
    <3>5. PeerAt(s, at) =
            Told("listed", p.ip, Read(p.port), IF a.no_peer_id THEN <<>> ELSE <<p.id>>)
      <4>1. p \in Peer /\ Stands(N, PeerNode(a, p), s, at)
        BY <3>3, <3>4 DEF at, p
      <4> QED
        BY <4>1, PeerListed
    <3> QED
      BY <1>9, <3>1, <3>5 DEF at, p
  <2> HIDE DEF m, data, len, told
  <2>6. ReadPeers(s) =
          [k \in 1..m |-> PeerAt(s, peers + benc_list_item_offset(s, peers, k - 1))]
    BY <1>6, <1>7, <2>1, <2>4
  <2>7. \A k \in 1..m : ReadPeers(s)[k] = told(k)
    BY <2>5, <2>6
  <2>8. Len(ReadPeers(s)) = m
    BY <1>1, <2>6
  <2> QED
    BY <2>7, <2>8 DEF m, s, told
<1> QED
  BY <1>8, <1>9

\* getpeers finds the peers that track() has put into its reply.
THEOREM RepliesAreRead == ToolSpec => []RepliesRead
<1>1. ToolInv => RepliesRead
  <2> SUFFICES ASSUME ToolInv, pc = "reply" PROVE RepliesRead
    BY DEF RepliesRead
  <2>1. /\ sent \in Announces
        /\ outcome = Outcome("read", <<>>, <<>>, ReadPeers(AnnounceText(sent)))
    BY DEF ToolInv, ReadFrom
  <2>2. outcome.peers = ReadPeers(AnnounceText(sent))
    BY <2>1 DEF Outcome
  <2>3. /\ Len(outcome.peers) = Len(sent.peers)
        /\ \A k \in 1..Len(sent.peers) :
             outcome.peers[k] =
               IF sent.compact THEN Told("packed", sent.peers[k].packed, 0, <<>>)
               ELSE Told("listed", sent.peers[k].ip, Read(sent.peers[k].port),
                         IF sent.no_peer_id THEN <<>> ELSE <<sent.peers[k].id>>)
    BY <2>1, <2>2, ReplyRead
  <2> QED
    BY <2>3 DEF RepliesRead
<1> QED
  BY <1>1, ToolInvariant, PTL
=============================================================================
