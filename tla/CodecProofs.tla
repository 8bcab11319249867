----------------------------- MODULE CodecProofs -----------------------------
(***************************************************************************)
(* What the codecs of Codec compute, for every length of a hash: decoding  *)
(* undoes encoding, the decoders leave bytes behind, and the query-string  *)
(* helpers measure an encoded hash as one hash.                            *)
(*                                                                         *)
(* The codecs are recursive functions.  A function's equation holds once   *)
(* there is a function that satisfies it (ChainExists, UptoExists); what   *)
(* it computes follows by induction along the text (Downwards, Upwards).   *)
(***************************************************************************)
EXTENDS Codec, SequenceLemmas

-----------------------------------------------------------------------------
(***************************************************************************)
(* Recursion from the end of a text: f[i] is base[i], followed by the      *)
(* value at a later place next[i] unless that is 0.                        *)
(***************************************************************************)
\* Every next place is a later one.
Later(n, next) == \A i \in 1..n : next[i] = 0 \/ next[i] \in (i + 1)..n

\* f is the function defined by that recursion.
Chain(n, base, next, f) ==
  f = [i \in 1..n |-> IF next[i] = 0 THEN base[i] ELSE base[i] \o f[next[i]]]

\* There is such a function.
LEMMA ChainExists ==
  ASSUME NEW n \in Nat, NEW base, NEW next, Later(n, next)
  PROVE  \E f : Chain(n, base, next, f)
<1> DEFINE Body(g, i) == IF next[i] = 0 THEN base[i] ELSE base[i] \o g[next[i]]
           Partial(k) == \E g : \A i \in k..n : g[i] = Body(g, i)
           S == {k \in 1..(n + 1) : Partial(k)}
<1>1. ASSUME NEW k \in 1..(n + 1), \A j \in (k + 1)..(n + 1) : j \in S
      PROVE  k \in S
  <2>1. CASE k = n + 1
    BY <2>1
  <2>2. CASE k <= n
    <3>1. k + 1 \in S
      BY <1>1, <2>2
    <3>2. PICK g : \A i \in (k + 1)..n : g[i] = Body(g, i)
      BY <3>1
    <3> DEFINE h == [i \in k..n |-> IF i = k THEN Body(g, k) ELSE g[i]]
    <3>3. ASSUME NEW i \in k..n PROVE h[i] = Body(h, i)
      <4>1. next[i] = 0 \/ next[i] \in (i + 1)..n
        BY <1>1 DEF Later
      <4>2. next[i] # 0 => h[next[i]] = g[next[i]]
        BY <4>1, <1>1
      <4>3. Body(h, i) = Body(g, i)
        BY <4>2
      <4>4. h[i] = Body(g, i)
        BY <3>2
      <4> QED
        BY <4>3, <4>4
    <3>4. Partial(k)
      BY <3>3
    <3> QED
      BY <3>4, <1>1
  <2> QED
    BY <1>1, <2>1, <2>2
<1>2. 1 \in S
  <2>1. 1 \in Nat /\ n + 1 \in Nat /\ 1 \in 1..(n + 1)
    OBVIOUS
  <2> HIDE DEF S
  <2>2. \A k \in 1..(n + 1) : k \in S
    BY <1>1, <2>1, Downwards
  <2> QED
    BY <2>1, <2>2
<1>3. PICK g : \A i \in 1..n : g[i] = Body(g, i)
  BY <1>2
<1> DEFINE f == [i \in 1..n |-> g[i]]
<1>4. ASSUME NEW i \in 1..n PROVE f[i] = Body(f, i)
  <2>1. next[i] # 0 => f[next[i]] = g[next[i]]
    BY DEF Later
  <2> QED
    BY <2>1, <1>3
<1>5. f = [i \in 1..n |-> Body(f, i)]
  BY <1>4
<1> QED
  BY <1>5 DEF Chain

\* Its values are sequences over S if the parts are.
LEMMA ChainType ==
  ASSUME NEW n \in Nat, NEW base, NEW next, NEW f, NEW S, Later(n, next),
         \A i \in 1..n : base[i] \in Seq(S), Chain(n, base, next, f)
  PROVE  \A i \in 1..n : f[i] \in Seq(S)
<1> DEFINE T == {i \in 1..n : f[i] \in Seq(S)}
<1>1. ASSUME NEW k \in 1..n, \A j \in (k + 1)..n : j \in T PROVE k \in T
  <2>1. f[k] = IF next[k] = 0 THEN base[k] ELSE base[k] \o f[next[k]]
    BY DEF Chain
  <2>2. next[k] # 0 => f[next[k]] \in Seq(S)
    BY <1>1 DEF Later
  <2>3. base[k] \in Seq(S)
    OBVIOUS
  <2>4. f[k] \in Seq(S)
    BY <2>1, <2>2, <2>3, ConcatProperties
  <2> QED
    BY <2>4
<1>2. \A k \in 1..n : k \in T
  BY <1>1, Downwards
<1> QED
  BY <1>2

-----------------------------------------------------------------------------
(***************************************************************************)
(* Hexadecimal digits.                                                     *)
(***************************************************************************)
\* An unsigned char.
Byte == 0..255

\* The digits 0-9 and a-f, in order.
LEMMA HexDict ==
  /\ Len(hexdict) = 16
  /\ \A k \in 1..16 : hexdict[k] \in (48..57) \cup (97..102)
  /\ \A k \in 1..16 : hexdict[k] = IF k <= 10 THEN k + 47 ELSE k + 86
<1>1. \A k \in 1..16 : k = 1 \/ k = 2 \/ k = 3 \/ k = 4 \/ k = 5 \/ k = 6 \/ k = 7 \/ k = 8
        \/ k = 9 \/ k = 10 \/ k = 11 \/ k = 12 \/ k = 13 \/ k = 14 \/ k = 15 \/ k = 16
  OBVIOUS
<1>2. \A k \in 1..16 : hexdict[k] = IF k <= 10 THEN k + 47 ELSE k + 86
  BY <1>1 DEF hexdict
<1> QED
  BY <1>2 DEF hexdict

\* A digit is found at its place, and only digits are found.
LEMMA HexIndex ==
  ASSUME NEW c
  PROVE  /\ IsHex(c) <=> \E v \in 0..15 : hexdict[v + 1] = c
         /\ IsHex(c) => charIndex(hexdict, c) \in 0..15 /\ hexdict[charIndex(hexdict, c) + 1] = c
<1> DEFINE At(k) == hexdict[k] = c /\ \A j \in 1..(k - 1) : hexdict[j] # c
<1>1. \A j, k \in 1..16 : hexdict[j] = hexdict[k] => j = k
  BY HexDict
<1>2. CASE \E k \in 1..16 : hexdict[k] = c
  <2>1. PICK k \in 1..16 : hexdict[k] = c
    BY <1>2
  <2>2. At(k)
    BY <1>1, <2>1
  <2>3. \A j \in 1..16 : At(j) => j = k
    BY <1>1, <2>1
  <2>4. (CHOOSE j \in 1..16 : At(j)) = k
    BY <2>2, <2>3
  <2>5. charIndex(hexdict, c) = k - 1
    BY <2>1, <2>4, HexDict DEF charIndex
  <2>6. k - 1 \in 0..15 /\ (k - 1) + 1 = k /\ k - 1 # -1
    OBVIOUS
  <2> QED
    BY <2>1, <2>5, <2>6 DEF IsHex
<1>3. CASE ~\E k \in 1..16 : hexdict[k] = c
  <2>1. charIndex(hexdict, c) = -1
    BY <1>3, HexDict DEF charIndex
  <2>2. \A v \in 0..15 : v + 1 \in 1..16
    OBVIOUS
  <2> QED
    BY <1>3, <2>1, <2>2 DEF IsHex
<1> QED
  BY <1>2, <1>3

\* Two digits are a byte, and the byte's two digits.
LEMMA HexByteFacts ==
  ASSUME NEW c, NEW d, IsHex(c), IsHex(d)
  PROVE  HexByte(c, d) \in Byte /\ HexPair(HexByte(c, d)) = <<c, d>>
<1> DEFINE v == charIndex(hexdict, c)
           w == charIndex(hexdict, d)
<1>1. v \in 0..15 /\ hexdict[v + 1] = c /\ w \in 0..15 /\ hexdict[w + 1] = d
  BY HexIndex
<1> HIDE DEF v, w
<1>2. (16 * v + w) \div 16 = v /\ (16 * v + w) % 16 = w /\ 16 * v + w \in 0..255
  BY <1>1
<1>3. HexByte(c, d) = 16 * v + w
  BY DEF HexByte, v, w
<1> QED
  BY <1>1, <1>2, <1>3 DEF HexPair, Byte

\* The digits of a byte give it back.
LEMMA HexPairFacts ==
  ASSUME NEW b \in Byte
  PROVE  \E c, d \in (48..57) \cup (97..102) :
           HexPair(b) = <<c, d>> /\ IsHex(c) /\ IsHex(d) /\ HexByte(c, d) = b
<1> DEFINE v == b \div 16
           w == b % 16
<1>1. v \in 0..15 /\ w \in 0..15 /\ 16 * v + w = b
  BY DEF Byte
<1> HIDE DEF v, w
<1> DEFINE c == hexdict[v + 1]
           d == hexdict[w + 1]
<1>2. v + 1 \in 1..16 /\ w + 1 \in 1..16
  BY <1>1
<1>3. c \in (48..57) \cup (97..102) /\ d \in (48..57) \cup (97..102)
  BY <1>2, HexDict
<1>4. IsHex(c) /\ IsHex(d)
  BY <1>1, HexIndex
<1>5. HexPair(b) = <<c, d>>
  BY DEF HexPair, v, w
<1>6. charIndex(hexdict, c) = v /\ charIndex(hexdict, d) = w
  <2>1. \A j, k \in 1..16 : hexdict[j] = hexdict[k] => j = k
    BY HexDict
  <2>2. /\ charIndex(hexdict, c) \in 0..15 /\ hexdict[charIndex(hexdict, c) + 1] = c
        /\ charIndex(hexdict, d) \in 0..15 /\ hexdict[charIndex(hexdict, d) + 1] = d
    BY <1>4, HexIndex
  <2> QED
    BY <1>1, <1>2, <2>1, <2>2
<1>7. HexByte(c, d) = b
  BY <1>1, <1>6 DEF HexByte
<1> HIDE DEF c, d
<1> QED
  BY <1>3, <1>4, <1>5, <1>7

-----------------------------------------------------------------------------
(***************************************************************************)
(* URL encoding.  e is the text, and p[k] its length after k bytes.        *)
(***************************************************************************)
\* What an encoded hash is made of.
SafeChars == nonreserved \cup {Percent}

\* An escape is its percent sign and two digits.
LEMMA Triple ==
  ASSUME NEW S, NEW x \in S, NEW c \in S, NEW d \in S
  PROVE  <<x>> \o <<c, d>> = <<x, c, d>> /\ <<x, c, d>> \in Seq(S)
<1>1. <<x>> \in Seq(S) /\ <<c, d>> \in Seq(S) /\ <<x, c, d>> \in Seq(S)
  OBVIOUS
<1>2. Len(<<x>>) = 1 /\ Len(<<c, d>>) = 2 /\ Len(<<x, c, d>>) = 3
  OBVIOUS
<1> DEFINE u == <<x>> \o <<c, d>>
<1>3. /\ u \in Seq(S) /\ Len(u) = 3
      /\ \A i \in 1..3 : u[i] = IF i <= 1 THEN <<x>>[i] ELSE <<c, d>>[i - 1]
  BY <1>1, <1>2, ConcatProperties
<1> HIDE DEF u
<1>4. u[1] = x /\ u[2] = c /\ u[3] = d
  BY <1>3
<1>5. \A i \in 1..3 : u[i] = <<x, c, d>>[i]
  BY <1>4
<1>6. u = <<x, c, d>>
  BY <1>1, <1>2, <1>3, <1>5, SeqEqual
<1> QED
  BY <1>1, <1>6 DEF u

\* A byte is sent as itself or as an escape, which no delimiter occurs in.
LEMMA EscapeFacts ==
  ASSUME NEW b \in Byte
  PROVE  /\ Escape(b) \in Seq(SafeChars)
         /\ \/ Escape(b) = <<b>> /\ b # Percent
            \/ \E c, d \in SafeChars : /\ Escape(b) = <<Percent, c, d>>
                                       /\ IsHex(c) /\ IsHex(d) /\ HexByte(c, d) = b
<1>1. CASE b \in nonreserved
  <2>1. Escape(b) = <<b>> /\ b \in SafeChars /\ b # Percent
    BY <1>1 DEF Escape, SafeChars, nonreserved, Percent
  <2> QED
    BY <2>1
<1>2. CASE b \notin nonreserved
  <2>1. PICK c, d \in (48..57) \cup (97..102) :
          HexPair(b) = <<c, d>> /\ IsHex(c) /\ IsHex(d) /\ HexByte(c, d) = b
    BY HexPairFacts
  <2>2. c \in SafeChars /\ d \in SafeChars /\ Percent \in SafeChars
    BY DEF SafeChars, nonreserved
  <2>3. Escape(b) = <<Percent>> \o <<c, d>>
    BY <1>2, <2>1 DEF Escape
  <2>4. Escape(b) = <<Percent, c, d>> /\ Escape(b) \in Seq(SafeChars)
    BY <2>2, <2>3, Triple
  <2> QED
    BY <2>1, <2>2, <2>4
<1> QED
  BY <1>1, <1>2

\* The encoding never ends a parameter early.
LEMMA SafeFacts == Delimiters \cap SafeChars = {} /\ SafeChars \subseteq Byte
  BY DEF Delimiters, SafeChars, nonreserved, Percent, Byte

\* The text e holds the escapes of the bytes of b, one behind the other.
Encodes(b, e, p) ==
  /\ e \in Seq(SafeChars) /\ p \in [0..HashLen -> Nat]
  /\ p[0] = 0 /\ p[HashLen] = Len(e)
  /\ \A k \in 1..HashLen :
       /\ p[k] = p[k - 1] + Len(Escape(b[k])) /\ p[k] <= Len(e)
       /\ \A j \in 1..Len(Escape(b[k])) : e[p[k - 1] + j] = Escape(b[k])[j]

\* The recursion of hashEncodeURL().
Upto(b, u) == u = [k \in 0..HashLen |-> IF k = 0 THEN <<>> ELSE u[k - 1] \o Escape(b[k])]

\* The recursion of hashEncodeURL() is that of a function.
LEMMA UptoExists ==
  ASSUME NEW b
  PROVE  \E u : Upto(b, u)
<1> DEFINE Body(g, i) == IF i = 0 THEN <<>> ELSE g[i - 1] \o Escape(b[i])
           Partial(k) == \E g : \A i \in 0..k : g[i] = Body(g, i)
           S == {k \in 0..HashLen : Partial(k)}
<1>l. HashLen \in Nat
  BY HashLenAssumption
<1>1. 0 \in S
  <2> DEFINE g == [i \in 0..0 |-> <<>>]
  <2>1. \A i \in 0..0 : g[i] = Body(g, i)
    OBVIOUS
  <2>2. Partial(0)
    BY <2>1
  <2> QED
    BY <2>2, <1>l
<1>2. ASSUME NEW k \in 1..HashLen, k - 1 \in S PROVE k \in S
  <2>1. PICK g : \A i \in 0..(k - 1) : g[i] = Body(g, i)
    BY <1>2
  <2> DEFINE h == [i \in 0..k |-> IF i = k THEN Body(g, k) ELSE g[i]]
  <2>2. ASSUME NEW i \in 0..k PROVE h[i] = Body(h, i)
    <3>1. i # 0 => h[i - 1] = g[i - 1]
      BY <1>2, <1>l
    <3>2. Body(h, i) = Body(g, i)
      BY <3>1
    <3>3. h[i] = Body(g, i)
      BY <2>1, <1>2, <1>l
    <3> QED
      BY <3>2, <3>3
  <2>3. Partial(k)
    BY <2>2
  <2> QED
    BY <2>3, <1>2, <1>l
<1>3. HashLen \in S
  <2>1. HashLen \in 0..HashLen
    BY <1>l
  <2> HIDE DEF S
  <2>2. \A k \in 0..HashLen : k \in S
    BY <1>1, <1>2, <1>l, Upwards
  <2> QED
    BY <2>1, <2>2
<1>4. PICK g : \A i \in 0..HashLen : g[i] = Body(g, i)
  BY <1>3
<1> DEFINE u == [i \in 0..HashLen |-> g[i]]
<1>5. ASSUME NEW i \in 0..HashLen PROVE u[i] = Body(u, i)
  <2>1. i # 0 => u[i - 1] = g[i - 1]
    BY <1>l
  <2> QED
    BY <2>1, <1>4
<1>6. u = [i \in 0..HashLen |-> Body(u, i)]
  BY <1>5
<1> QED
  BY <1>6 DEF Upto

\* hashEncodeURL() concatenates the escapes of the hash, byte by byte.
LEMMA EncodesHash ==
  ASSUME NEW buf, Hash(buf) \in [1..HashLen -> Byte]
  PROVE  \E p : Encodes(Hash(buf), hashEncodeURL(buf), p)
<1> DEFINE b == Hash(buf)
<1>l. HashLen \in Nat /\ HashLen >= 1
  BY HashLenAssumption
<1>1. PICK u : Upto(b, u) /\ hashEncodeURL(buf) = u[HashLen]
  <2>1. PICK v : Upto(b, v)
    BY UptoExists
  <2> QED
    BY <2>1 DEF Upto, hashEncodeURL
<1> HIDE DEF b
<1>b. b \in [1..HashLen -> Byte]
  BY DEF b
<1> DEFINE e == u[HashLen]
           p == [k \in 0..HashLen |-> Len(u[k])]
           T == {k \in 0..HashLen : u[k] \in Seq(SafeChars)}
<1>2. u[0] = <<>> /\ \A k \in 1..HashLen : u[k] = u[k - 1] \o Escape(b[k])
  <2>1. \A k \in 0..HashLen : u[k] = IF k = 0 THEN <<>> ELSE u[k - 1] \o Escape(b[k])
    BY <1>1 DEF Upto
  <2>2. 0 \in 0..HashLen /\ \A k \in 1..HashLen : k \in 0..HashLen /\ k # 0
    BY <1>l
  <2>3. u[0] = <<>>
    BY <2>1, <2>2
  <2> QED
    BY <2>1, <2>2, <2>3
<1>3. \A k \in 0..HashLen : u[k] \in Seq(SafeChars)
  <2>1. 0 \in T
    <3>1. <<>> \in Seq(SafeChars) /\ 0 \in 0..HashLen
      BY <1>l
    <3> QED
      BY <3>1, <1>2
  <2>2. ASSUME NEW k \in 1..HashLen, k - 1 \in T PROVE k \in T
    <3>1. Escape(b[k]) \in Seq(SafeChars)
      BY <1>b, EscapeFacts
    <3>2. u[k - 1] \in Seq(SafeChars)
      BY <2>2
    <3>3. u[k] \in Seq(SafeChars)
      BY <1>2, <3>1, <3>2, ConcatProperties
    <3> QED
      BY <3>3, <1>l
  <2> HIDE DEF T
  <2>3. \A k \in 0..HashLen : k \in T
    BY <2>1, <2>2, <1>l, Upwards
  <2> QED
    BY <2>3 DEF T
<1>4. ASSUME NEW k \in 1..HashLen
      PROVE  /\ Len(u[k - 1]) \in Nat /\ Len(Escape(b[k])) \in Nat
             /\ Len(u[k]) = Len(u[k - 1]) + Len(Escape(b[k])) /\ u[k] \in Seq(SafeChars)
             /\ Len(u[k - 1]) <= Len(u[k])
             /\ \A j \in 1..Len(u[k - 1]) : j \in 1..Len(u[k]) /\ u[k][j] = u[k - 1][j]
             /\ \A j \in 1..Len(Escape(b[k])) :
                  Len(u[k - 1]) + j \in 1..Len(u[k]) /\ u[k][Len(u[k - 1]) + j] = Escape(b[k])[j]
  <2>1. Escape(b[k]) \in Seq(SafeChars)
    BY <1>b, EscapeFacts
  <2>2. k - 1 \in 0..HashLen
    BY <1>l
  <2>3. u[k - 1] \in Seq(SafeChars) /\ u[k] = u[k - 1] \o Escape(b[k])
    BY <1>2, <1>3, <2>2
  <2> DEFINE x == u[k - 1]
             t == Escape(b[k])
             w == u[k]
  <2>4. x \in Seq(SafeChars) /\ t \in Seq(SafeChars) /\ w = x \o t
    BY <2>1, <2>3
  <2> HIDE DEF x, t, w
  <2>5. /\ Len(x) \in Nat /\ Len(t) \in Nat /\ Len(w) = Len(x) + Len(t) /\ w \in Seq(SafeChars)
        /\ Len(x) <= Len(w)
        /\ \A j \in 1..Len(x) : j \in 1..Len(w) /\ w[j] = x[j]
        /\ \A j \in 1..Len(t) : Len(x) + j \in 1..Len(w) /\ w[Len(x) + j] = t[j]
    BY <2>4, ConcatParts
  <2> QED
    BY <2>5 DEF x, t, w
\* What has been written stays.
<1>5. ASSUME NEW k \in 0..HashLen
      PROVE  Len(u[k]) <= Len(e) /\ \A j \in 1..Len(u[k]) : e[j] = u[k][j]
  <2> DEFINE R == {m \in 0..HashLen : m >= k =>
                     Len(u[k]) <= Len(u[m]) /\ \A j \in 1..Len(u[k]) : u[m][j] = u[k][j]}
  <2>0. Len(u[k]) \in Nat
    BY <1>3, LenProperties
  <2>1. 0 \in R
    BY <1>l, <2>0
  <2>2. ASSUME NEW m \in 1..HashLen, m - 1 \in R PROVE m \in R
    <3>1. /\ Len(u[m]) \in Nat /\ Len(u[m - 1]) \in Nat /\ Len(u[m - 1]) <= Len(u[m])
          /\ \A j \in 1..Len(u[m - 1]) : u[m][j] = u[m - 1][j]
      BY <1>4, LenProperties
    <3>2. CASE m = k
      BY <3>2, <2>0
    <3>3. CASE m < k
      BY <3>3
    <3>4. CASE m > k
      <4>1. Len(u[k]) <= Len(u[m - 1]) /\ \A j \in 1..Len(u[k]) : u[m - 1][j] = u[k][j]
        BY <2>2, <3>4
      <4>2. Len(u[k]) <= Len(u[m])
        BY <4>1, <3>1, <2>0
      <4>3. ASSUME NEW j \in 1..Len(u[k]) PROVE u[m][j] = u[k][j]
        <5>1. j \in 1..Len(u[m - 1])
          BY <4>1, <3>1, <2>0
        <5> QED
          BY <5>1, <4>1, <3>1
      <4> QED
        BY <4>2, <4>3, <1>l
    <3> QED
      BY <3>2, <3>3, <3>4, <1>l
  <2> HIDE DEF R
  <2>3. \A m \in 0..HashLen : m \in R
    BY <2>1, <2>2, <1>l, Upwards
  <2>4. HashLen \in R /\ HashLen >= k
    BY <2>3, <1>l
  <2> QED
    BY <2>4 DEF R
<1>6. e \in Seq(SafeChars) /\ p \in [0..HashLen -> Nat] /\ p[0] = 0 /\ p[HashLen] = Len(e)
  <2>1. \A k \in 0..HashLen : Len(u[k]) \in Nat
    BY <1>3, LenProperties
  <2> QED
    BY <2>1, <1>2, <1>3, <1>l
<1>7. ASSUME NEW k \in 1..HashLen
      PROVE  /\ p[k] = p[k - 1] + Len(Escape(b[k])) /\ p[k] <= Len(e)
             /\ \A j \in 1..Len(Escape(b[k])) : e[p[k - 1] + j] = Escape(b[k])[j]
  <2>1. k \in 0..HashLen /\ k - 1 \in 0..HashLen
    BY <1>l
  <2>2. p[k] = Len(u[k]) /\ p[k - 1] = Len(u[k - 1])
    BY <2>1
  <2>3. p[k] = p[k - 1] + Len(Escape(b[k])) /\ p[k] <= Len(e)
    BY <1>4, <1>5, <2>1, <2>2
  <2>4. ASSUME NEW j \in 1..Len(Escape(b[k])) PROVE e[p[k - 1] + j] = Escape(b[k])[j]
    <3>1. u[k][Len(u[k - 1]) + j] = Escape(b[k])[j]
      BY <1>4
    <3>2. Len(u[k - 1]) + j \in 1..Len(u[k])
      BY <1>4
    <3>3. e[Len(u[k - 1]) + j] = u[k][Len(u[k - 1]) + j]
      BY <3>2, <1>5, <2>1
    <3> QED
      BY <3>1, <3>3, <2>2
  <2> QED
    BY <2>3, <2>4
<1>8. Encodes(b, e, p)
  <2> HIDE DEF e, p
  <2> QED
    BY <1>6, <1>7 DEF Encodes
<1> QED
  BY <1>1, <1>8 DEF b

-----------------------------------------------------------------------------
(***************************************************************************)
(* Measuring a parameter.                                                  *)
(***************************************************************************)

\* The parameter ends at the first delimiter, or with the text.
LEMMA ParamLength ==
  ASSUME NEW s, Len(s) \in Nat
  PROVE  /\ httpParamLength(s) \in 0..Len(s)
         /\ \A k \in 1..httpParamLength(s) : s[k] \notin Delimiters
         /\ \A n \in 0..Len(s) :
              (n < Len(s) => s[n + 1] \in Delimiters) /\ (\A k \in 1..n : s[k] \notin Delimiters)
                => httpParamLength(s) = n
<1> DEFINE Ends(n) == /\ n < Len(s) => s[n + 1] \in Delimiters
                      /\ \A k \in 1..n : s[k] \notin Delimiters
           S == {m \in 0..Len(s) : \/ \E n \in 0..Len(s) : Ends(n)
                                   \/ \A k \in 1..m : s[k] \notin Delimiters}
<1>1. 0 \in S
  OBVIOUS
<1>2. ASSUME NEW m \in 1..Len(s), m - 1 \in S PROVE m \in S
  <2>1. CASE \E n \in 0..Len(s) : Ends(n)
    BY <2>1
  <2>2. CASE ~\E n \in 0..Len(s) : Ends(n)
    <3>1. \A k \in 1..(m - 1) : s[k] \notin Delimiters
      BY <1>2, <2>2
    <3>2. m - 1 \in 0..Len(s) /\ m - 1 < Len(s) /\ (m - 1) + 1 = m
      OBVIOUS
    <3>3. s[m] \notin Delimiters
      BY <2>2, <3>1, <3>2
    <3>4. \A k \in 1..m : s[k] \notin Delimiters
      BY <3>1, <3>3
    <3> QED
      BY <3>4
  <2> QED
    BY <2>1, <2>2
<1>3. \E n \in 0..Len(s) : Ends(n)
  <2> HIDE DEF S
  <2>1. \A m \in 0..Len(s) : m \in S
    BY <1>1, <1>2, Upwards
  <2>2. Len(s) \in S
    BY <2>1
  <2>3. CASE \A k \in 1..Len(s) : s[k] \notin Delimiters
    <3>1. Ends(Len(s)) /\ Len(s) \in 0..Len(s)
      BY <2>3
    <3> QED
      BY <3>1
  <2> QED
    BY <2>2, <2>3 DEF S
<1>4. httpParamLength(s) \in 0..Len(s) /\ Ends(httpParamLength(s))
  BY <1>3 DEF httpParamLength
<1>5. ASSUME NEW n \in 0..Len(s), Ends(n) PROVE httpParamLength(s) = n
  <2> DEFINE h == httpParamLength(s)
  <2>1. h \in 0..Len(s) /\ Ends(h)
    BY <1>4
  <2> HIDE DEF h
  <2>2. ~(h < n)
    <3> SUFFICES ASSUME h < n PROVE FALSE
      OBVIOUS
    <3>1. h < Len(s) /\ h + 1 \in 1..n
      BY <2>1
    <3> QED
      BY <3>1, <2>1, <1>5
  <2>3. ~(n < h)
    <3> SUFFICES ASSUME n < h PROVE FALSE
      OBVIOUS
    <3>1. n < Len(s) /\ n + 1 \in 1..h
      BY <2>1
    <3> QED
      BY <3>1, <2>1, <1>5
  <2>4. h = n
    BY <2>1, <2>2, <2>3
  <2> QED
    BY <2>4 DEF h
<1> QED
  BY <1>4, <1>5

\* The recursion of decodedStrlen().
Counts(s, m, f) ==
  \A i \in 1..(Len(s) + 1) :
    /\ f[i] \in Nat
    /\ f[i] = IF i > Len(s) \/ i > m THEN 0
              ELSE 1 + f[IF EscapeAt(s, i) THEN i + 3 ELSE i + 1]

\* decodedStrlen() is the first value of that function.
LEMMA StrlenCounts ==
  ASSUME NEW s, Len(s) \in Nat, NEW m
  PROVE  \E f : Counts(s, m, f) /\ decodedStrlen(s, m) = f[1]
<1> DEFINE n == Len(s) + 1
           Stop(i) == i > Len(s) \/ i > m
           Step(i) == IF EscapeAt(s, i) THEN i + 3 ELSE i + 1
           From(f) == f = [i \in 1..n |-> IF Stop(i) THEN 0 ELSE 1 + f[Step(i)]]
           base == [i \in 1..n |-> IF Stop(i) THEN <<>> ELSE <<0>>]
           next == [i \in 1..n |-> IF Stop(i) THEN 0 ELSE Step(i)]
<1>1. \A i \in 1..n : ~Stop(i) => Step(i) \in (i + 1)..n
  BY DEF EscapeAt
<1>2. Later(n, next)
  BY <1>1 DEF Later
<1>3. \A i \in 1..n : base[i] \in Seq({0})
  <2>1. <<>> \in Seq({0}) /\ <<0>> \in Seq({0})
    OBVIOUS
  <2>2. \A i \in 1..n : base[i] = <<>> \/ base[i] = <<0>>
    OBVIOUS
  <2> HIDE DEF base
  <2> QED
    BY <2>1, <2>2
<1>n. n \in Nat
  OBVIOUS
<1>4. PICK c : Chain(n, base, next, c)
  <2> HIDE DEF n, base, next
  <2> QED
    BY <1>n, <1>2, ChainExists
<1>5. \A i \in 1..n : c[i] \in Seq({0})
  <2> HIDE DEF n, base, next
  <2> QED
    BY <1>n, <1>2, <1>3, <1>4, ChainType
<1> DEFINE g == [i \in 1..n |-> Len(c[i])]
<1>6. ASSUME NEW i \in 1..n PROVE g[i] = IF Stop(i) THEN 0 ELSE 1 + g[Step(i)]
  <2>1. c[i] = IF next[i] = 0 THEN base[i] ELSE base[i] \o c[next[i]]
    BY <1>4 DEF Chain
  <2>2. CASE Stop(i)
    <3>1. c[i] = <<>>
      BY <2>1, <2>2
    <3> QED
      BY <3>1, <2>2
  <2>3. CASE ~Stop(i)
    <3>1. Step(i) \in 1..n /\ Step(i) # 0
      BY <1>1, <2>3
    <3>2. c[i] = <<0>> \o c[Step(i)]
      BY <2>1, <2>3, <3>1
    <3>3. c[Step(i)] \in Seq({0})
      BY <1>5, <3>1
    <3>4. Len(c[i]) = 1 + Len(c[Step(i)])
      BY <3>2, <3>3
    <3> QED
      BY <2>3, <3>1, <3>4
  <2> QED
    BY <2>2, <2>3
<1>7. From(g)
  BY <1>6
<1>8. PICK f : From(f) /\ decodedStrlen(s, m) = f[1]
  BY <1>7 DEF decodedStrlen
<1>9. \A i \in 1..n : f[i] = IF Stop(i) THEN 0 ELSE 1 + f[Step(i)]
  BY <1>8
<1> DEFINE S == {i \in 1..n : f[i] \in Nat}
<1>10. ASSUME NEW k \in 1..n, \A j \in (k + 1)..n : j \in S PROVE k \in S
  <2>1. CASE Stop(k)
    BY <1>9, <2>1
  <2>2. CASE ~Stop(k)
    <3>1. f[Step(k)] \in Nat
      BY <1>1, <1>10, <2>2
    <3>2. f[k] = 1 + f[Step(k)]
      BY <1>9, <2>2
    <3> QED
      BY <3>1, <3>2
  <2> QED
    BY <2>1, <2>2
<1>11. \A k \in 1..n : k \in S
  <2>1. 1 \in Nat /\ n \in Nat
    OBVIOUS
  <2> HIDE DEF S, n
  <2> QED
    BY <1>10, <2>1, Downwards
<1> QED
  BY <1>8, <1>9, <1>11 DEF Counts

\* A decoded character takes at most three.
LEMMA StrlenBound ==
  ASSUME NEW s, Len(s) \in Nat, NEW m \in 0..Len(s)
  PROVE  decodedStrlen(s, m) \in Nat /\ m <= 3 * decodedStrlen(s, m)
<1>1. PICK f : Counts(s, m, f) /\ decodedStrlen(s, m) = f[1]
  BY StrlenCounts
<1> DEFINE n == Len(s) + 1
           S == {i \in 1..n : m + 1 - i <= 3 * f[i]}
<1>2. ASSUME NEW k \in 1..n, \A j \in (k + 1)..n : j \in S PROVE k \in S
  <2>1. f[k] \in Nat
    BY <1>1 DEF Counts
  <2>2. CASE k > m
    BY <2>1, <2>2
  <2>3. CASE k <= m
    <3> DEFINE j == IF EscapeAt(s, k) THEN k + 3 ELSE k + 1
    <3>1. j \in (k + 1)..n /\ j <= k + 3
      BY <2>3 DEF EscapeAt
    <3>2. f[k] = 1 + f[j]
      BY <1>1, <2>3 DEF Counts
    <3>3. f[j] \in Nat
      BY <1>1, <3>1 DEF Counts
    <3>4. m + 1 - j <= 3 * f[j]
      BY <1>2, <3>1
    <3> HIDE DEF j
    <3>5. m + 1 - k <= 3 * f[k]
      BY <3>1, <3>2, <3>3, <3>4
    <3> QED
      BY <3>5
  <2> QED
    BY <2>2, <2>3
<1>3. \A k \in 1..n : k \in S
  <2>1. 1 \in Nat /\ n \in Nat
    OBVIOUS
  <2> HIDE DEF S, n
  <2> QED
    BY <1>2, <2>1, Downwards
<1>4. 1 \in S
  BY <1>3
<1>5. f[1] \in Nat
  BY <1>1 DEF Counts
<1> QED
  BY <1>1, <1>4, <1>5

\* Of a text that starts with the encoding of a hash, the encoding counts as
\* HashLen characters, whatever follows it.
LEMMA StrlenOfEncoding ==
  ASSUME NEW b \in [1..HashLen -> Byte], NEW e, NEW p, Encodes(b, e, p),
         NEW s, Len(s) \in Nat, Len(e) <= Len(s), \A j \in 1..Len(e) : s[j] = e[j]
  PROVE  decodedStrlen(s, Len(e)) = HashLen
<1>l. HashLen \in Nat /\ Len(e) \in Nat /\ p \in [0..HashLen -> Nat]
  BY HashLenAssumption, LenProperties DEF Encodes
<1>1. PICK f : Counts(s, Len(e), f) /\ decodedStrlen(s, Len(e)) = f[1]
  BY StrlenCounts
<1> DEFINE S == {k \in 0..HashLen : f[p[k] + 1] = HashLen - k}
<1>2. ASSUME NEW k \in 0..HashLen, \A j \in (k + 1)..HashLen : j \in S PROVE k \in S
  <2>1. CASE k = HashLen
    <3>1. p[k] + 1 = Len(e) + 1 /\ p[k] + 1 \in 1..(Len(s) + 1)
      BY <2>1, <1>l DEF Encodes
    <3>2. f[p[k] + 1] = 0
      BY <1>1, <1>l, <3>1 DEF Counts
    <3> QED
      BY <2>1, <3>2, <1>l
  <2>2. CASE k < HashLen
    <3> DEFINE x == Escape(b[k + 1])
               a == p[k]
    <3>1. k + 1 \in 1..HashLen /\ (k + 1) - 1 = k /\ k + 1 \in 0..HashLen
      BY <2>2, <1>l
    <3>2. /\ p[k + 1] = a + Len(x) /\ p[k + 1] <= Len(e)
          /\ \A j \in 1..Len(x) : e[a + j] = x[j]
      BY <3>1 DEF Encodes
    <3>3. a \in Nat /\ p[k + 1] \in Nat
      BY <1>l, <3>1
    <3>4. b[k + 1] \in Byte
      BY <3>1
    <3>5. f[p[k + 1] + 1] = HashLen - (k + 1)
      BY <1>2, <3>1
    <3>6. CASE x = <<b[k + 1]>> /\ b[k + 1] # Percent
      <4>1. Len(x) = 1 /\ x[1] = b[k + 1]
        BY <3>6
      <4> HIDE DEF x, a
      <4>2. p[k + 1] = a + 1 /\ a + 1 <= Len(e) /\ s[a + 1] = b[k + 1]
        BY <3>2, <3>3, <4>1, <1>l
      <4>3. ~EscapeAt(s, a + 1)
        BY <4>2, <3>6 DEF EscapeAt
      <4>4. a + 1 \in 1..(Len(s) + 1) /\ ~(a + 1 > Len(s) \/ a + 1 > Len(e))
        BY <4>2, <3>3, <1>l
      <4>5. f[a + 1] = 1 + f[(a + 1) + 1]
        BY <4>3, <4>4, <1>1 DEF Counts
      <4>6. f[a + 1] = 1 + (HashLen - (k + 1))
        BY <4>2, <4>5, <3>5
      <4> QED
        BY <4>6, <1>l DEF a
    <3>7. CASE \E c, d \in SafeChars : x = <<Percent, c, d>>
      <4>1. Len(x) = 3 /\ x[1] = Percent
        BY <3>7
      <4> HIDE DEF x, a
      <4>2. p[k + 1] = a + 3 /\ a + 3 <= Len(e) /\ s[a + 1] = Percent
        <5>1. p[k + 1] = a + 3 /\ a + 3 <= Len(e) /\ e[a + 1] = Percent
          BY <3>2, <3>3, <4>1
        <5>2. a + 1 \in 1..Len(e)
          BY <5>1, <3>3, <1>l
        <5> QED
          BY <5>1, <5>2
      <4>3. EscapeAt(s, a + 1)
        BY <4>2, <3>3, <1>l DEF EscapeAt
      <4>4. a + 1 \in 1..(Len(s) + 1) /\ ~(a + 1 > Len(s) \/ a + 1 > Len(e))
        BY <4>2, <3>3, <1>l
      <4>5. f[a + 1] = 1 + f[(a + 1) + 3] /\ (a + 1) + 3 = p[k + 1] + 1
        BY <4>2, <4>3, <4>4, <3>3, <1>1 DEF Counts
      <4>6. f[a + 1] = 1 + (HashLen - (k + 1))
        BY <4>5, <3>5
      <4> QED
        BY <4>6, <1>l DEF a
    <3> QED
      BY <3>4, <3>6, <3>7, EscapeFacts
  <2> QED
    BY <2>1, <2>2, <1>l
<1>3. 0 \in S
  <2> HIDE DEF S
  <2>1. \A k \in 0..HashLen : k \in S
    BY <1>2, <1>l, Downwards
  <2> QED
    BY <2>1, <1>l
<1>4. p[0] + 1 = 1
  BY DEF Encodes
<1> QED
  BY <1>1, <1>3, <1>4, <1>l

-----------------------------------------------------------------------------
(***************************************************************************)
(* Decoding in place.                                                      *)
(***************************************************************************)

\* What a decoder has written: bytes, the last of which may be its -1.
OutOK(x) == x \in Seq(Byte \cup {-1}) /\ \A j \in 1..(Len(x) - 1) : x[j] \in Byte

\* A byte before what a decoder has written.
LEMMA OutConcat ==
  ASSUME NEW v \in Byte, NEW x, OutOK(x)
  PROVE  OutOK(<<v>> \o x)
<1> DEFINE S == Byte \cup {-1}
           u == <<v>> \o x
<1>1. <<v>> \in Seq(S) /\ Len(<<v>>) = 1 /\ x \in Seq(S)
  BY DEF OutOK
<1>2. /\ Len(x) \in Nat /\ u \in Seq(S) /\ Len(u) = 1 + Len(x)
      /\ \A i \in 1..(1 + Len(x)) : u[i] = IF i <= 1 THEN <<v>>[i] ELSE x[i - 1]
  BY <1>1, ConcatProperties, LenProperties
<1> HIDE DEF u
<1>3. ASSUME NEW j \in 1..(Len(u) - 1) PROVE u[j] \in Byte
  <2>1. CASE j = 1
    <3>1. u[1] = v
      BY <1>2
    <3> QED
      BY <2>1, <3>1
  <2>2. CASE j # 1
    <3>1. u[j] = x[j - 1] /\ j - 1 \in 1..(Len(x) - 1)
      BY <1>2, <2>2
    <3> QED
      BY <3>1 DEF OutOK
  <2> QED
    BY <2>1, <2>2
<1>4. OutOK(u)
  BY <1>2, <1>3 DEF OutOK
<1> QED
  BY <1>4 DEF u

\* The parts of a chain of decoded bytes.
LEMMA ChainOut ==
  ASSUME NEW n \in Nat, NEW base, NEW next, NEW f, Later(n, next), Chain(n, base, next, f),
         \A i \in 1..n : /\ OutOK(base[i])
                         /\ next[i] # 0 => \E v \in Byte : base[i] = <<v>>
  PROVE  \A i \in 1..n : OutOK(f[i])
<1> DEFINE S == {i \in 1..n : OutOK(f[i])}
<1>1. ASSUME NEW k \in 1..n, \A j \in (k + 1)..n : j \in S PROVE k \in S
  <2>1. f[k] = IF next[k] = 0 THEN base[k] ELSE base[k] \o f[next[k]]
    BY DEF Chain
  <2>2. CASE next[k] = 0
    BY <2>1, <2>2
  <2>3. CASE next[k] # 0
    <3>1. OutOK(f[next[k]])
      BY <1>1, <2>3 DEF Later
    <3>2. PICK v \in Byte : base[k] = <<v>>
      BY <2>3
    <3>3. OutOK(f[k])
      BY <2>1, <2>3, <3>1, <3>2, OutConcat
    <3> QED
      BY <3>3
  <2> QED
    BY <2>2, <2>3
<1>2. 1 \in Nat
  OBVIOUS
<1>3. \A k \in 1..n : k \in S
  <2> HIDE DEF S
  <2> QED
    BY <1>1, <1>2, Downwards
<1> QED
  BY <1>3

\* The buffer after decoding starts with the bytes decoded, and holds bytes only:
\* the -1 is returned, not written.
LEMMA DecodedFacts ==
  ASSUME NEW s \in Seq(Byte), NEW out, OutOK(out)
  PROVE  /\ Hash(Decoded(s, out).buf) \in [1..HashLen -> Byte]
         /\ (out \in Seq(Byte) /\ Len(out) = HashLen) =>
              \A k \in 1..HashLen : Hash(Decoded(s, out).buf)[k] = out[k]
<1> DEFINE failed == out # <<>> /\ out[Len(out)] = -1
           done == IF failed THEN SubSeq(out, 1, Len(out) - 1) ELSE Append(out, 0)
           rest == SubSeq(s, Len(done) + 1, Len(s))
           buf == done \o rest
<1>0. Decoded(s, out).buf = buf
  BY DEF Decoded
<1>1. out \in Seq(Byte \cup {-1}) /\ Len(out) \in Nat /\ (out # <<>> => Len(out) \in 1..Len(out))
  BY LenProperties DEF OutOK
<1>2. done \in Seq(Byte)
  <2>1. CASE failed
    <3>1. \A i \in 1..(Len(out) - 1) : out[i] \in Byte
      BY DEF OutOK
    <3>2. SubSeq(out, 1, Len(out) - 1) \in Seq(Byte)
      BY <1>1, <3>1, SubSeqProperties
    <3> QED
      BY <2>1, <3>2
  <2>2. CASE ~failed
    <3>1. \A i \in 1..Len(out) : out[i] \in Byte
      <4> SUFFICES ASSUME NEW i \in 1..Len(out) PROVE out[i] \in Byte
        OBVIOUS
      <4>1. CASE i = Len(out)
        <5>1. out[i] \in Byte \cup {-1} /\ out # <<>>
          BY <1>1
        <5> QED
          BY <5>1, <4>1, <2>2
      <4>2. CASE i # Len(out)
        BY <4>2, <1>1 DEF OutOK
      <4> QED
        BY <4>1, <4>2
    <3>2. out \in Seq(Byte)
      BY <3>1, <1>1
    <3>3. 0 \in Byte
      BY DEF Byte
    <3> HIDE DEF failed
    <3> QED
      BY <2>2, <3>2, <3>3
  <2> HIDE DEF failed
  <2> QED
    BY <2>1, <2>2
<1>3. rest \in Seq(Byte)
  <2> HIDE DEF done
  <2>1. Len(done) + 1 \in Int /\ Len(s) \in Int
    BY <1>2, LenProperties
  <2>2. Len(done) \in Nat
    BY <1>2, LenProperties
  <2>3. \A i \in (Len(done) + 1)..Len(s) : s[i] \in Byte
    BY <2>2, LenProperties
  <2> QED
    BY <2>1, <2>3, SubSeqProperties
<1>4. /\ buf \in Seq(Byte) /\ Len(done) \in Nat /\ Len(buf) \in Nat /\ Len(done) <= Len(buf)
      /\ \A j \in 1..Len(done) : j \in 1..Len(buf) /\ buf[j] = done[j]
  <2> HIDE DEF done, rest
  <2> QED
    BY <1>2, <1>3, ConcatParts
<1>5. Hash(buf) \in [1..HashLen -> Byte]
  <2> HIDE DEF buf
  <2>1. ASSUME NEW k \in 1..HashLen PROVE (IF k <= Len(buf) THEN buf[k] ELSE 0) \in Byte
    <3>1. 0 \in Byte
      BY DEF Byte
    <3>2. k <= Len(buf) => k \in 1..Len(buf)
      BY <1>4, HashLenAssumption
    <3> QED
      BY <3>1, <3>2, <1>4
  <2> QED
    BY <2>1 DEF Hash
<1>6. ASSUME out \in Seq(Byte), Len(out) = HashLen, NEW k \in 1..HashLen
      PROVE  Hash(buf)[k] = out[k]
  <2>1. HashLen \in 1..HashLen /\ out[HashLen] \in Byte
    BY <1>6, HashLenAssumption
  <2>a. -1 \notin Byte
    BY DEF Byte
  <2>2. ~failed
    BY <1>6, <2>1, <2>a
  <2>3. done = Append(out, 0)
    BY <2>2
  <2> HIDE DEF failed, done, rest
  <2>4. Len(done) = HashLen + 1 /\ done[k] = out[k]
    BY <1>6, <2>3, HashLenAssumption
  <2>5. k \in 1..Len(done)
    BY <2>4, HashLenAssumption
  <2>6. k \in 1..Len(buf) /\ buf[k] = out[k]
    BY <1>4, <2>4, <2>5
  <2> HIDE DEF buf
  <2>7. k <= Len(buf)
    BY <2>6, <1>4
  <2> QED
    BY <2>6, <2>7 DEF Hash
<1> QED
  BY <1>0, <1>5, <1>6

\* g[k] is the text of the bytes after the k-th.
LEMMA Spelled ==
  ASSUME NEW b \in [1..HashLen -> Byte], NEW g, g[HashLen] = <<>>,
         \A k \in 1..HashLen : g[k - 1] = <<b[k]>> \o g[k]
  PROVE  g[0] \in Seq(Byte) /\ Len(g[0]) = HashLen /\ \A j \in 1..HashLen : g[0][j] = b[j]
<1>l. HashLen \in Nat
  BY HashLenAssumption
<1> DEFINE S == {k \in 0..HashLen : /\ g[k] \in Seq(Byte) /\ Len(g[k]) = HashLen - k
                                    /\ \A j \in 1..(HashLen - k) : g[k][j] = b[k + j]}
<1>1. ASSUME NEW k \in 0..HashLen, \A j \in (k + 1)..HashLen : j \in S PROVE k \in S
  <2>1. CASE k = HashLen
    <3>a. <<>> \in Seq(Byte) /\ Len(<<>>) = 0
      OBVIOUS
    <3>1. g[k] \in Seq(Byte) /\ Len(g[k]) = 0
      BY <2>1, <3>a
    <3> QED
      BY <3>1, <2>1, <1>l
  <2>2. CASE k # HashLen
    <3> DEFINE x == g[k + 1]
               v == b[k + 1]
               w == g[k]
    <3>1. k + 1 \in 1..HashLen /\ (k + 1) - 1 = k /\ k + 1 \in S
      <4>1. k + 1 \in 1..HashLen /\ (k + 1) - 1 = k /\ k + 1 \in (k + 1)..HashLen
        BY <2>2, <1>l
      <4> HIDE DEF S, x, v, w
      <4> QED
        BY <1>1, <4>1
    <3>2. /\ x \in Seq(Byte) /\ Len(x) = HashLen - (k + 1)
          /\ \A j \in 1..(HashLen - (k + 1)) : x[j] = b[(k + 1) + j]
      BY <3>1
    <3>3. w = <<v>> \o x /\ v \in Byte
      BY <3>1
    <3> HIDE DEF x, v, w
    <3>4. <<v>> \in Seq(Byte) /\ Len(<<v>>) = 1
      BY <3>3
    <3>5. /\ w \in Seq(Byte) /\ Len(w) = 1 + Len(x)
          /\ \A i \in 1..(1 + Len(x)) : w[i] = IF i <= 1 THEN <<v>>[i] ELSE x[i - 1]
      BY <3>2, <3>3, <3>4, ConcatProperties
    <3>6. ASSUME NEW j \in 1..(HashLen - k) PROVE w[j] = b[k + j]
      <4>1. CASE j = 1
        <5>1. w[1] = v
          BY <3>2, <3>5, <1>l
        <5> QED
          BY <5>1, <4>1 DEF v
      <4>2. CASE j # 1
        <5>1. w[j] = x[j - 1] /\ j - 1 \in 1..(HashLen - (k + 1)) /\ (k + 1) + (j - 1) = k + j
          BY <3>2, <3>5, <4>2, <1>l
        <5> QED
          BY <5>1, <3>2
      <4> QED
        BY <4>1, <4>2
    <3>7. Len(w) = HashLen - k
      BY <3>2, <3>5, <1>l
    <3> QED
      BY <3>5, <3>6, <3>7 DEF w
  <2> QED
    BY <2>1, <2>2
<1>2. 0 \in S
  <2> HIDE DEF S
  <2>1. \A k \in 0..HashLen : k \in S
    BY <1>1, <1>l, Downwards
  <2> QED
    BY <2>1, <1>l
<1> QED
  BY <1>2, <1>l

-----------------------------------------------------------------------------
(***************************************************************************)
(* The two decoders.                                                       *)
(***************************************************************************)
\* What the decoders write from character i on.
UrlFrom(s, f, i) ==
  IF i > Len(s) THEN <<>>
  ELSE IF ~EscapeAt(s, i) THEN <<s[i]>> \o f[i + 1]
  ELSE IF IsHex(s[i + 1]) /\ IsHex(s[i + 2])
    THEN <<HexByte(s[i + 1], s[i + 2])>> \o f[i + 3]
  ELSE <<Percent, -1>>

HexFrom(s, f, i) ==
  IF i > Len(s) THEN <<>>
  ELSE IF i < Len(s) /\ IsHex(s[i]) /\ IsHex(s[i + 1])
    THEN <<HexByte(s[i], s[i + 1])>> \o f[i + 2]
  ELSE <<-1>>

\* The ends of what a decoder writes.
LEMMA OutParts ==
  /\ OutOK(<<>>) /\ OutOK(<<-1>>) /\ OutOK(<<Percent, -1>>)
  /\ \A v \in Byte : OutOK(<<v>>)
<1>1. -1 \in Byte \cup {-1} /\ Percent \in Byte /\ Percent \in Byte \cup {-1}
  BY DEF Byte, Percent
<1> HIDE DEF Percent
<1>2. OutOK(<<>>)
  BY DEF OutOK
<1>3. OutOK(<<-1>>)
  BY <1>1 DEF OutOK
<1>4. OutOK(<<Percent, -1>>)
  <2>1. <<Percent, -1>> \in Seq(Byte \cup {-1}) /\ Len(<<Percent, -1>>) = 2
    BY <1>1
  <2>2. \A j \in 1..1 : <<Percent, -1>>[j] = Percent
    OBVIOUS
  <2> QED
    BY <1>1, <2>1, <2>2 DEF OutOK
<1>5. \A v \in Byte : OutOK(<<v>>)
  <2> SUFFICES ASSUME NEW v \in Byte PROVE OutOK(<<v>>)
    OBVIOUS
  <2>1. <<v>> \in Seq(Byte \cup {-1}) /\ Len(<<v>>) = 1
    OBVIOUS
  <2> QED
    BY <2>1 DEF OutOK
<1> QED
  BY <1>2, <1>3, <1>4, <1>5

\* destructiveURLDecode() writes the first value of its recursion.
LEMMA UrlDecoding ==
  ASSUME NEW s \in Seq(Byte)
  PROVE  \E f : /\ destructiveURLDecode(s) = Decoded(s, f[1])
                /\ \A i \in 1..(Len(s) + 1) : f[i] = UrlFrom(s, f, i) /\ OutOK(f[i])
<1> DEFINE n == Len(s) + 1
           Hex(i) == IsHex(s[i + 1]) /\ IsHex(s[i + 2])
           base == [i \in 1..n |->
                     IF i > Len(s) THEN <<>>
                     ELSE IF ~EscapeAt(s, i) THEN <<s[i]>>
                     ELSE IF Hex(i) THEN <<HexByte(s[i + 1], s[i + 2])>> ELSE <<Percent, -1>>]
           next == [i \in 1..n |->
                     IF i > Len(s) THEN 0
                     ELSE IF ~EscapeAt(s, i) THEN i + 1
                     ELSE IF Hex(i) THEN i + 3 ELSE 0]
<1>n. n \in Nat /\ 1 \in 1..n /\ Len(s) \in Nat
  BY LenProperties
<1>1. Later(n, next)
  BY <1>n DEF Later, EscapeAt
<1>2. \A i \in 1..n : OutOK(base[i]) /\ (next[i] # 0 => \E v \in Byte : base[i] = <<v>>)
  <2> SUFFICES ASSUME NEW i \in 1..n
               PROVE  OutOK(base[i]) /\ (next[i] # 0 => \E v \in Byte : base[i] = <<v>>)
    OBVIOUS
  <2>1. CASE i > Len(s)
    BY <2>1, OutParts
  <2>2. CASE ~(i > Len(s)) /\ ~EscapeAt(s, i)
    <3>1. s[i] \in Byte
      BY <2>2, <1>n
    <3> QED
      BY <2>2, <3>1, OutParts
  <2>3. CASE ~(i > Len(s)) /\ EscapeAt(s, i) /\ Hex(i)
    <3>1. HexByte(s[i + 1], s[i + 2]) \in Byte
      BY <2>3, HexByteFacts
    <3> QED
      BY <2>3, <3>1, OutParts
  <2>4. CASE ~(i > Len(s)) /\ EscapeAt(s, i) /\ ~Hex(i)
    BY <2>4, OutParts
  <2> QED
    BY <2>1, <2>2, <2>3, <2>4
\* Every chain over these parts is the recursion, and the other way round.
<1>3. ASSUME NEW f
      PROVE  Chain(n, base, next, f) <=> f = [i \in 1..n |-> UrlFrom(s, f, i)]
  <2>1. \A i \in 1..n : (IF next[i] = 0 THEN base[i] ELSE base[i] \o f[next[i]]) = UrlFrom(s, f, i)
    BY <1>n DEF UrlFrom, EscapeAt
  <2> HIDE DEF base, next
  <2> QED
    BY <2>1 DEF Chain
<1>4. \E f : f = [i \in 1..n |-> UrlFrom(s, f, i)]
  <2> HIDE DEF n, base, next
  <2>1. \E f : Chain(n, base, next, f)
    BY <1>n, <1>1, ChainExists
  <2> QED
    BY <2>1, <1>3
<1>5. PICK f : f = [i \in 1..n |-> UrlFrom(s, f, i)] /\ destructiveURLDecode(s) = Decoded(s, f[1])
  BY <1>4 DEF destructiveURLDecode, UrlFrom
<1>6. \A i \in 1..n : OutOK(f[i])
  <2>1. Chain(n, base, next, f)
    BY <1>3, <1>5
  <2> HIDE DEF n, base, next
  <2> QED
    BY <1>n, <1>1, <1>2, <2>1, ChainOut
<1>7. \A i \in 1..n : f[i] = UrlFrom(s, f, i)
  BY <1>5
<1> QED
  BY <1>5, <1>6, <1>7

\* destructiveHexDecode() does, too.
LEMMA HexDecoding ==
  ASSUME NEW s \in Seq(Byte)
  PROVE  \E f : /\ destructiveHexDecode(s) = Decoded(s, f[1])
                /\ \A i \in 1..(Len(s) + 1) : f[i] = HexFrom(s, f, i) /\ OutOK(f[i])
<1> DEFINE n == Len(s) + 1
           Hex(i) == i < Len(s) /\ IsHex(s[i]) /\ IsHex(s[i + 1])
           base == [i \in 1..n |->
                     IF i > Len(s) THEN <<>>
                     ELSE IF Hex(i) THEN <<HexByte(s[i], s[i + 1])>> ELSE <<-1>>]
           next == [i \in 1..n |->
                     IF i > Len(s) THEN 0 ELSE IF Hex(i) THEN i + 2 ELSE 0]
<1>n. n \in Nat /\ 1 \in 1..n /\ Len(s) \in Nat
  BY LenProperties
<1>1. Later(n, next)
  BY <1>n DEF Later
<1>2. \A i \in 1..n : OutOK(base[i]) /\ (next[i] # 0 => \E v \in Byte : base[i] = <<v>>)
  <2> SUFFICES ASSUME NEW i \in 1..n
               PROVE  OutOK(base[i]) /\ (next[i] # 0 => \E v \in Byte : base[i] = <<v>>)
    OBVIOUS
  <2>1. CASE i > Len(s)
    BY <2>1, OutParts
  <2>2. CASE ~(i > Len(s)) /\ Hex(i)
    <3>1. HexByte(s[i], s[i + 1]) \in Byte
      BY <2>2, HexByteFacts
    <3> QED
      BY <2>2, <3>1, OutParts
  <2>3. CASE ~(i > Len(s)) /\ ~Hex(i)
    BY <2>3, OutParts
  <2> QED
    BY <2>1, <2>2, <2>3
<1>3. ASSUME NEW f
      PROVE  Chain(n, base, next, f) <=> f = [i \in 1..n |-> HexFrom(s, f, i)]
  <2>1. \A i \in 1..n : (IF next[i] = 0 THEN base[i] ELSE base[i] \o f[next[i]]) = HexFrom(s, f, i)
    BY <1>n DEF HexFrom
  <2> HIDE DEF base, next
  <2> QED
    BY <2>1 DEF Chain
<1>4. \E f : f = [i \in 1..n |-> HexFrom(s, f, i)]
  <2> HIDE DEF n, base, next
  <2>1. \E f : Chain(n, base, next, f)
    BY <1>n, <1>1, ChainExists
  <2> QED
    BY <2>1, <1>3
<1>5. PICK f : f = [i \in 1..n |-> HexFrom(s, f, i)] /\ destructiveHexDecode(s) = Decoded(s, f[1])
  BY <1>4 DEF destructiveHexDecode, HexFrom
<1>6. \A i \in 1..n : OutOK(f[i])
  <2>1. Chain(n, base, next, f)
    BY <1>3, <1>5
  <2> HIDE DEF n, base, next
  <2> QED
    BY <1>n, <1>1, <1>2, <2>1, ChainOut
<1>7. \A i \in 1..n : f[i] = HexFrom(s, f, i)
  BY <1>5
<1> QED
  BY <1>5, <1>6, <1>7

\* Whatever is decoded, the buffer holds bytes.
LEMMA BuffersHoldBytes ==
  ASSUME NEW s \in Seq(Byte)
  PROVE  /\ Hash(destructiveURLDecode(s).buf) \in [1..HashLen -> Byte]
         /\ Hash(destructiveHexDecode(s).buf) \in [1..HashLen -> Byte]
<1>1. 1 \in 1..(Len(s) + 1)
  BY LenProperties
<1>2. PICK f : destructiveURLDecode(s) = Decoded(s, f[1]) /\ OutOK(f[1])
  BY <1>1, UrlDecoding
<1>3. PICK g : destructiveHexDecode(s) = Decoded(s, g[1]) /\ OutOK(g[1])
  BY <1>1, HexDecoding
<1> QED
  BY <1>2, <1>3, DecodedFacts

\* Decoding gives back the hash that was encoded for a URL.
LEMMA UrlRoundTrip ==
  ASSUME NEW b \in [1..HashLen -> Byte], NEW e, NEW p, Encodes(b, e, p)
  PROVE  Hash(destructiveURLDecode(e).buf) = b
<1>l. /\ HashLen \in Nat /\ Len(e) \in Nat /\ p \in [0..HashLen -> Nat] /\ e \in Seq(Byte)
      /\ \A k \in 1..Len(e) : e[k] \in Byte
  BY HashLenAssumption, LenProperties, SafeFacts, SeqMonotonic, ElementOfSeq DEF Encodes
<1>1. PICK f : /\ destructiveURLDecode(e) = Decoded(e, f[1])
               /\ \A i \in 1..(Len(e) + 1) : f[i] = UrlFrom(e, f, i) /\ OutOK(f[i])
  BY <1>l, UrlDecoding
<1> DEFINE g == [k \in 0..HashLen |-> f[p[k] + 1]]
<1>2. g[HashLen] = <<>>
  <2>1. p[HashLen] + 1 = Len(e) + 1 /\ p[HashLen] + 1 \in 1..(Len(e) + 1) /\ HashLen \in 0..HashLen
    BY <1>l DEF Encodes
  <2>2. Len(e) + 1 > Len(e)
    BY <1>l
  <2>3. f[p[HashLen] + 1] = <<>>
    BY <1>1, <2>1, <2>2 DEF UrlFrom
  <2> QED
    BY <2>1, <2>3
<1>3. ASSUME NEW k \in 1..HashLen PROVE g[k - 1] = <<b[k]>> \o g[k]
  <2> DEFINE x == Escape(b[k])
             a == p[k - 1]
             z == p[k]
  <2>1. k - 1 \in 0..HashLen /\ k \in 0..HashLen /\ b[k] \in Byte
    BY <1>l
  <2>2. a \in Nat /\ z \in Nat /\ g[k - 1] = f[a + 1] /\ g[k] = f[z + 1]
    BY <1>l, <2>1
  <2>3. z = a + Len(x) /\ z <= Len(e) /\ \A j \in 1..Len(x) : e[a + j] = x[j]
    BY DEF Encodes
  <2>4. CASE x = <<b[k]>> /\ b[k] # Percent
    <3>1. Len(x) = 1 /\ x[1] = b[k]
      BY <2>4
    <3> HIDE DEF x, a, z, g
    <3>2. z = a + 1 /\ a + 1 <= Len(e) /\ e[a + 1] = b[k]
      BY <2>3, <3>1
    <3>3. a + 1 \in 1..(Len(e) + 1) /\ ~(a + 1 > Len(e)) /\ ~EscapeAt(e, a + 1)
      BY <3>2, <2>2, <2>4, <1>l DEF EscapeAt
    <3>4. f[a + 1] = <<e[a + 1]>> \o f[(a + 1) + 1]
      BY <1>1, <3>3 DEF UrlFrom
    <3> QED
      BY <2>2, <3>2, <3>4
  <2>5. ASSUME NEW c \in SafeChars, NEW d \in SafeChars, x = <<Percent, c, d>>,
               IsHex(c), IsHex(d), HexByte(c, d) = b[k]
        PROVE  g[k - 1] = <<b[k]>> \o g[k]
    <3>1. Len(x) = 3 /\ x[1] = Percent /\ x[2] = c /\ x[3] = d
      BY <2>5
    <3> HIDE DEF x, a, z, g
    <3>2. z = a + 3 /\ a + 3 <= Len(e) /\ e[a + 1] = Percent /\ e[a + 2] = c /\ e[a + 3] = d
      BY <2>3, <3>1
    <3>3. /\ a + 1 \in 1..(Len(e) + 1) /\ ~(a + 1 > Len(e)) /\ EscapeAt(e, a + 1)
          /\ (a + 1) + 1 = a + 2 /\ (a + 1) + 2 = a + 3 /\ (a + 1) + 3 = z + 1
      BY <3>2, <2>2, <1>l DEF EscapeAt
    <3>4. e[(a + 1) + 1] = c /\ e[(a + 1) + 2] = d
      BY <3>2, <3>3
    <3>5. f[a + 1] = <<HexByte(c, d)>> \o f[(a + 1) + 3]
      BY <1>1, <3>3, <3>4, <2>5 DEF UrlFrom
    <3> QED
      BY <2>2, <2>5, <3>3, <3>5
  <2> QED
    BY <2>1, <2>4, <2>5, EscapeFacts
<1>4. g[0] = f[1]
  <2>1. 0 \in 0..HashLen /\ p[0] + 1 = 1
    BY <1>l DEF Encodes
  <2> QED
    BY <2>1
<1>5. f[1] \in Seq(Byte) /\ Len(f[1]) = HashLen /\ \A j \in 1..HashLen : f[1][j] = b[j]
  <2> HIDE DEF g
  <2>1. \A k \in 1..HashLen : g[k - 1] = <<b[k]>> \o g[k]
    BY <1>3
  <2>2. g[0] \in Seq(Byte) /\ Len(g[0]) = HashLen /\ \A j \in 1..HashLen : g[0][j] = b[j]
    BY <1>2, <2>1, Spelled
  <2> QED
    BY <1>4, <2>2
<1>6. OutOK(f[1])
  BY <1>1, <1>l
<1> DEFINE h == Hash(destructiveURLDecode(e).buf)
<1>7. h \in [1..HashLen -> Byte] /\ \A k \in 1..HashLen : h[k] = b[k]
  BY <1>1, <1>5, <1>6, <1>l, DecodedFacts
<1> HIDE DEF h
<1>8. h = b
  <2>1. h = [k \in 1..HashLen |-> h[k]] /\ b = [k \in 1..HashLen |-> b[k]]
    BY <1>7
  <2> QED
    BY <1>7, <2>1
<1> QED
  BY <1>8 DEF h

-----------------------------------------------------------------------------
(***************************************************************************)
(* From the hexadecimal hash to the query and back.                        *)
(***************************************************************************)
\* The bytes that a whole hash spells.
Bytes(h) == [k \in 1..HashLen |-> HexByte(h[2 * k - 1], h[2 * k])]

\* A whole hash is decoded to the bytes it spells.
LEMMA HexRoundTrip ==
  ASSUME NEW h \in Seq(Byte), Len(h) = 2 * HashLen, \A k \in 1..Len(h) : IsHex(h[k])
  PROVE  Bytes(h) \in [1..HashLen -> Byte] /\ Hash(destructiveHexDecode(h).buf) = Bytes(h)
<1>l. HashLen \in Nat
  BY HashLenAssumption
<1>0. ASSUME NEW k \in 1..HashLen
      PROVE  2 * k - 1 \in 1..Len(h) /\ 2 * k \in 1..Len(h) /\ HexByte(h[2 * k - 1], h[2 * k]) \in Byte
  <2>1. 2 * k - 1 \in 1..Len(h) /\ 2 * k \in 1..Len(h)
    BY <1>l
  <2>2. IsHex(h[2 * k - 1]) /\ IsHex(h[2 * k])
    BY <2>1
  <2> QED
    BY <2>1, <2>2, HexByteFacts
<1> DEFINE b == Bytes(h)
<1>b. b \in [1..HashLen -> Byte] /\ \A k \in 1..HashLen : b[k] = HexByte(h[2 * k - 1], h[2 * k])
  BY <1>0 DEF Bytes
<1> HIDE DEF b
<1>1. PICK f : /\ destructiveHexDecode(h) = Decoded(h, f[1])
               /\ \A i \in 1..(Len(h) + 1) : f[i] = HexFrom(h, f, i) /\ OutOK(f[i])
  BY HexDecoding
<1> DEFINE g == [k \in 0..HashLen |-> f[2 * k + 1]]
<1>2. g[HashLen] = <<>>
  <2>1. 2 * HashLen + 1 = Len(h) + 1 /\ Len(h) + 1 \in 1..(Len(h) + 1) /\ Len(h) + 1 > Len(h)
    BY <1>l
  <2>2. f[Len(h) + 1] = <<>>
    BY <1>1, <2>1 DEF HexFrom
  <2>3. HashLen \in 0..HashLen
    BY <1>l
  <2> QED
    BY <2>1, <2>2, <2>3
<1>3. \A k \in 1..HashLen : g[k - 1] = <<b[k]>> \o g[k]
  <2> SUFFICES ASSUME NEW k \in 1..HashLen PROVE g[k - 1] = <<b[k]>> \o g[k]
    OBVIOUS
  <2>1. k - 1 \in 0..HashLen /\ k \in 0..HashLen /\ 2 * (k - 1) + 1 = 2 * k - 1
    BY <1>l
  <2>2. g[k - 1] = f[2 * k - 1] /\ g[k] = f[2 * k + 1]
    BY <2>1
  <2> DEFINE a == 2 * k - 1
  <2>3. /\ a \in 1..(Len(h) + 1) /\ ~(a > Len(h)) /\ a < Len(h)
        /\ a + 1 = 2 * k /\ a + 2 = 2 * k + 1
    BY <1>l
  <2>4. IsHex(h[a]) /\ IsHex(h[2 * k])
    BY <1>0
  <2> HIDE DEF g, a
  <2>5. f[a] = <<HexByte(h[a], h[a + 1])>> \o f[a + 2]
    BY <1>1, <2>3, <2>4 DEF HexFrom
  <2>6. b[k] = HexByte(h[a], h[a + 1])
    BY <1>b, <2>3 DEF a
  <2> QED
    BY <2>2, <2>3, <2>5, <2>6 DEF a
<1>4. g[0] = f[1]
  BY <1>l
<1>5. f[1] \in Seq(Byte) /\ Len(f[1]) = HashLen /\ \A j \in 1..HashLen : f[1][j] = b[j]
  <2> HIDE DEF g
  <2>1. g[0] \in Seq(Byte) /\ Len(g[0]) = HashLen /\ \A j \in 1..HashLen : g[0][j] = b[j]
    BY <1>b, <1>2, <1>3, Spelled
  <2> QED
    BY <1>4, <2>1
<1>6. OutOK(f[1])
  BY <1>1, <1>l
<1> DEFINE x == Hash(destructiveHexDecode(h).buf)
<1>7. x \in [1..HashLen -> Byte] /\ \A k \in 1..HashLen : x[k] = b[k]
  BY <1>1, <1>5, <1>6, DecodedFacts
<1> HIDE DEF x
<1>8. x = b
  <2>1. x = [k \in 1..HashLen |-> x[k]] /\ b = [k \in 1..HashLen |-> b[k]]
    BY <1>7, <1>b
  <2> QED
    BY <1>7, <2>1
<1> QED
  BY <1>b, <1>8 DEF x, b

\* A hash is spelled in pairs of digits, and whole.
LEMMA HexSpelling ==
  ASSUME NEW buf, Hash(buf) \in [1..HashLen -> Byte]
  PROVE  /\ hashEncodeHex(buf) \in Seq(Byte) /\ Len(hashEncodeHex(buf)) = 2 * HashLen
         /\ \A k \in 1..(2 * HashLen) : IsHex(hashEncodeHex(buf)[k])
         /\ \A k \in 1..HashLen : HexPair(Hash(buf)[k])
                                     = <<hashEncodeHex(buf)[2 * k - 1], hashEncodeHex(buf)[2 * k]>>
<1>l. HashLen \in Nat
  BY HashLenAssumption
<1> DEFINE b == Hash(buf)
           x == hashEncodeHex(buf)
<1>1. x = [k \in 1..(2 * HashLen) |-> HexPair(b[(k + 1) \div 2])[2 - (k % 2)]]
  BY DEF hashEncodeHex
<1>b. b \in [1..HashLen -> Byte]
  OBVIOUS
<1> HIDE DEF b, x
<1>2. ASSUME NEW k \in 1..HashLen
      PROVE  HexPair(b[k]) = <<x[2 * k - 1], x[2 * k]>>
  <2>1. /\ 2 * k - 1 \in 1..(2 * HashLen) /\ ((2 * k - 1) + 1) \div 2 = k /\ (2 * k - 1) % 2 = 1
        /\ 2 * k \in 1..(2 * HashLen) /\ (2 * k + 1) \div 2 = k /\ (2 * k) % 2 = 0
    BY <1>l
  <2>2. x[2 * k - 1] = HexPair(b[k])[1] /\ x[2 * k] = HexPair(b[k])[2]
    BY <1>1, <2>1
  <2> QED
    BY <2>2 DEF HexPair
<1>3. ASSUME NEW i \in 1..(2 * HashLen) PROVE x[i] \in Byte /\ IsHex(x[i])
  <2> DEFINE k == (i + 1) \div 2
  <2>1. k \in 1..HashLen /\ (i = 2 * k - 1 \/ i = 2 * k)
    BY <1>l
  <2> HIDE DEF k
  <2>2. PICK c, d \in (48..57) \cup (97..102) : HexPair(b[k]) = <<c, d>> /\ IsHex(c) /\ IsHex(d)
    <3>1. b[k] \in Byte
      BY <1>b, <2>1
    <3> QED
      BY <3>1, HexPairFacts
  <2>3. x[2 * k - 1] = c /\ x[2 * k] = d
    <3>1. <<x[2 * k - 1], x[2 * k]>> = <<c, d>>
      BY <1>2, <2>1, <2>2
    <3> QED
      BY <3>1
  <2>4. c \in Byte /\ d \in Byte
    BY DEF Byte
  <2> QED
    BY <2>1, <2>2, <2>3, <2>4
<1>4. x \in [1..(2 * HashLen) -> Byte] /\ 2 * HashLen \in Nat
  BY <1>1, <1>3, <1>l
<1>5. x \in Seq(Byte) /\ Len(x) = 2 * HashLen
  BY <1>4
<1> QED
  BY <1>2, <1>3, <1>5 DEF b, x

\* The bytes that a whole hash spells are spelled as that hash.
LEMMA HexOfBytes ==
  ASSUME NEW h \in Seq(Byte), Len(h) = 2 * HashLen, \A k \in 1..Len(h) : IsHex(h[k]),
         NEW buf, Hash(buf) = Bytes(h)
  PROVE  hashEncodeHex(buf) = h
<1>l. HashLen \in Nat
  BY HashLenAssumption
<1>1. Hash(buf) \in [1..HashLen -> Byte]
  BY HexRoundTrip
<1> DEFINE x == hashEncodeHex(buf)
<1>2. /\ x \in Seq(Byte) /\ Len(x) = 2 * HashLen
      /\ \A k \in 1..HashLen : HexPair(Hash(buf)[k]) = <<x[2 * k - 1], x[2 * k]>>
  BY <1>1, HexSpelling
<1> HIDE DEF x
<1>3. ASSUME NEW k \in 1..HashLen PROVE x[2 * k - 1] = h[2 * k - 1] /\ x[2 * k] = h[2 * k]
  <2>1. 2 * k - 1 \in 1..Len(h) /\ 2 * k \in 1..Len(h)
    BY <1>l
  <2>2. Hash(buf)[k] = HexByte(h[2 * k - 1], h[2 * k])
    BY DEF Bytes
  <2>3. HexPair(Hash(buf)[k]) = <<h[2 * k - 1], h[2 * k]>>
    BY <2>1, <2>2, HexByteFacts
  <2>4. <<x[2 * k - 1], x[2 * k]>> = <<h[2 * k - 1], h[2 * k]>>
    BY <1>2, <2>3
  <2> QED
    BY <2>4
<1>4. ASSUME NEW i \in 1..Len(x) PROVE x[i] = h[i]
  <2> DEFINE k == (i + 1) \div 2
  <2>1. k \in 1..HashLen /\ (i = 2 * k - 1 \/ i = 2 * k)
    BY <1>2, <1>l
  <2> HIDE DEF k
  <2> QED
    BY <1>3, <2>1
<1>5. x = h
  BY <1>2, <1>4, SeqEqual
<1> QED
  BY <1>5 DEF x

-----------------------------------------------------------------------------
(***************************************************************************)
(* The round trips, in terms of the functions of encoding.c and neth.c.    *)
(***************************************************************************)

\* destructiveURLDecode() undoes hashEncodeURL(), whatever the hash: getpeers
\* encodes what the tracker decodes.
THEOREM UrlCodecInverse ==
  ASSUME NEW buf, Hash(buf) \in [1..HashLen -> Byte]
  PROVE  Hash(destructiveURLDecode(hashEncodeURL(buf)).buf) = Hash(buf)
<1>1. PICK p : Encodes(Hash(buf), hashEncodeURL(buf), p)
  BY EncodesHash
<1> QED
  BY <1>1, UrlRoundTrip

\* destructiveHexDecode() undoes hashEncodeHex(), whatever the hash: the text that
\* the tracker files a torrent under stands for that torrent only.
THEOREM HexCodecInverse ==
  ASSUME NEW buf, Hash(buf) \in [1..HashLen -> Byte]
  PROVE  Hash(destructiveHexDecode(hashEncodeHex(buf)).buf) = Hash(buf)
<1> DEFINE h == hashEncodeHex(buf)
           b == Hash(buf)
<1>1. /\ h \in Seq(Byte) /\ Len(h) = 2 * HashLen /\ \A k \in 1..(2 * HashLen) : IsHex(h[k])
      /\ \A k \in 1..HashLen : HexPair(b[k]) = <<h[2 * k - 1], h[2 * k]>>
  BY HexSpelling
<1>2. b = [k \in 1..HashLen |-> b[k]] /\ \A k \in 1..HashLen : b[k] \in Byte
  OBVIOUS
<1> HIDE DEF h, b
<1>3. Hash(destructiveHexDecode(h).buf) = Bytes(h)
  <2>1. \A k \in 1..Len(h) : IsHex(h[k])
    BY <1>1
  <2> QED
    BY <1>1, <2>1, HexRoundTrip
<1>4. ASSUME NEW k \in 1..HashLen PROVE HexByte(h[2 * k - 1], h[2 * k]) = b[k]
  <2>1. PICK c, d \in (48..57) \cup (97..102) : HexPair(b[k]) = <<c, d>> /\ HexByte(c, d) = b[k]
    BY <1>2, HexPairFacts
  <2>2. <<h[2 * k - 1], h[2 * k]>> = <<c, d>>
    BY <1>1, <2>1
  <2> QED
    BY <2>1, <2>2
<1>5. Bytes(h) = b
  BY <1>2, <1>4 DEF Bytes
<1> QED
  BY <1>3, <1>5 DEF h, b

\* parseSocket() measures the parameter that hashEncodeURL() wrote, up to the next
\* delimiter, as one hash: no byte of a hash is written as a delimiter, and every
\* escape counts once.
THEOREM EncodingIsMeasured ==
  ASSUME NEW buf, Hash(buf) \in [1..HashLen -> Byte],
         NEW rest \in Seq(Byte), rest # <<>> => rest[1] \in Delimiters
  PROVE  LET e == hashEncodeURL(buf)
             s == e \o rest
         IN httpParamLength(s) = Len(e) /\ decodedStrlen(s, httpParamLength(s)) = HashLen
<1> DEFINE e == hashEncodeURL(buf)
           s == e \o rest
<1>1. PICK p : Encodes(Hash(buf), e, p)
  BY EncodesHash
<1>2. e \in Seq(SafeChars) /\ \A k \in 1..Len(e) : e[k] \in SafeChars
  BY <1>1, ElementOfSeq DEF Encodes
<1>3. e \in Seq(Byte)
  BY <1>2, SafeFacts, SeqMonotonic
<1> HIDE DEF e
<1>4. /\ Len(e) \in Nat /\ Len(rest) \in Nat /\ Len(s) = Len(e) + Len(rest)
      /\ \A j \in 1..Len(e) : s[j] = e[j]
      /\ \A j \in 1..Len(rest) : s[Len(e) + j] = rest[j]
  BY <1>3, ConcatParts
<1> HIDE DEF s
<1>5. Len(e) < Len(s) => s[Len(e) + 1] \in Delimiters
  <2> SUFFICES ASSUME Len(e) < Len(s) PROVE s[Len(e) + 1] \in Delimiters
    OBVIOUS
  <2>1. 1 \in 1..Len(rest) /\ rest # <<>>
    BY <1>4
  <2> QED
    BY <1>4, <2>1
<1>6. \A k \in 1..Len(e) : s[k] \notin Delimiters
  BY <1>2, <1>4, SafeFacts
<1>7. Len(s) \in Nat /\ Len(e) \in 0..Len(s) /\ Len(e) <= Len(s)
  BY <1>4
<1>8. httpParamLength(s) = Len(e)
  BY <1>5, <1>6, <1>7, ParamLength
<1>9. decodedStrlen(s, Len(e)) = HashLen
  BY <1>1, <1>4, <1>7, StrlenOfEncoding
<1> QED
  BY <1>8, <1>9 DEF e, s
=============================================================================
