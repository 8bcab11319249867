-------------------------------- MODULE Codec --------------------------------
(***************************************************************************)
(* The hash codecs of encoding.c and the query-string helpers of neth.c    *)
(* and comm.c, as functions on character codes.  A buffer is a sequence;   *)
(* the decoders work in place, so what they leave in the buffer is part of *)
(* their result.                                                           *)
(***************************************************************************)
EXTENDS Integers, Sequences

CONSTANT HashLen   \* MAX_HASH_LEN: bytes of an info_hash or a peer_id

ASSUME HashLenAssumption == HashLen \in Nat \ {0}

MAX_URLENC_HASH_LEN == 3 * HashLen

Percent == 37
Delimiters == {38, 32}                        \* '&', ' '
hexdict == <<48, 49, 50, 51, 52, 53, 54, 55, 56, 57, 97, 98, 99, 100, 101, 102>>
nonreserved == (65..90) \cup (97..122) \cup (48..57) \cup {45, 95, 46, 126}

charIndex(hay, needle) ==
  IF \E k \in 1..Len(hay) : hay[k] = needle
    THEN (CHOOSE k \in 1..Len(hay) : hay[k] = needle
                                       /\ \A j \in 1..(k - 1) : hay[j] # needle) - 1
    ELSE -1

IsHex(c) == charIndex(hexdict, c) # -1
HexByte(c, d) == 16 * charIndex(hexdict, c) + charIndex(hexdict, d)

\* str[i]=='%'&&str[i+1]!='\0'&&str[i+2]!='\0'
EscapeAt(s, i) == s[i] = Percent /\ i + 2 <= Len(s)

\* What a decoder leaves behind: its result and the buffer, in which the
\* decoded bytes, and a 0 unless decoding has failed, have overwritten s.
Decoded(s, out) ==
  LET failed == out # <<>> /\ out[Len(out)] = -1
      done == IF failed THEN SubSeq(out, 1, Len(out) - 1) ELSE Append(out, 0)
  IN [ret |-> IF failed THEN -1 ELSE Len(out),
      buf |-> done \o SubSeq(s, Len(done) + 1, Len(s))]

destructiveURLDecode(s) ==
  LET from[i \in 1..(Len(s) + 1)] ==
        IF i > Len(s) THEN <<>>
        ELSE IF ~EscapeAt(s, i) THEN <<s[i]>> \o from[i + 1]
        ELSE IF IsHex(s[i + 1]) /\ IsHex(s[i + 2])
          THEN <<HexByte(s[i + 1], s[i + 2])>> \o from[i + 3]
        ELSE <<Percent, -1>>    \* encoded[c]=encoded[i], then return -1
  IN Decoded(s, from[1])

destructiveHexDecode(s) ==
  LET from[i \in 1..(Len(s) + 1)] ==
        IF i > Len(s) THEN <<>>
        ELSE IF i < Len(s) /\ IsHex(s[i]) /\ IsHex(s[i + 1])
          THEN <<HexByte(s[i], s[i + 1])>> \o from[i + 2]
        ELSE <<-1>>
  IN Decoded(s, from[1])

\* The first MAX_HASH_LEN bytes of a buffer that was cleared before.
Hash(buf) == [k \in 1..HashLen |-> IF k <= Len(buf) THEN buf[k] ELSE 0]

HexPair(b) == <<hexdict[(b \div 16) + 1], hexdict[(b % 16) + 1]>>

hashEncodeHex(buf) ==
  LET hash == Hash(buf)
  IN [k \in 1..(2 * HashLen) |-> HexPair(hash[(k + 1) \div 2])[2 - (k % 2)]]

\* Mutant: a '%' in the hash is sent as it is.
EscapeNoPercent(b) ==
  IF b \in nonreserved \cup {Percent} THEN <<b>> ELSE <<Percent>> \o HexPair(b)

Escape(b) == IF b \in nonreserved THEN <<b>> ELSE <<Percent>> \o HexPair(b)

hashEncodeURL(buf) ==
  LET hash == Hash(buf)
      upto[k \in 0..HashLen] ==
        IF k = 0 THEN <<>> ELSE upto[k - 1] \o Escape(hash[k])
  IN upto[HashLen]

\* Characters up to the end, '&' or ' '.
httpParamLength(s) ==
  CHOOSE n \in 0..Len(s) : /\ n < Len(s) => s[n + 1] \in Delimiters
                           /\ \A k \in 1..n : s[k] \notin Delimiters

\* Decoded characters among the first mlen; an escape may reach beyond them.
decodedStrlen(s, mlen) ==
  LET from[i \in 1..(Len(s) + 1)] ==
        IF i > Len(s) \/ i > mlen THEN 0
        ELSE 1 + from[IF EscapeAt(s, i) THEN i + 3 ELSE i + 1]
  IN from[1]
=============================================================================
