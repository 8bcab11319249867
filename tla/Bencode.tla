------------------------------- MODULE Bencode -------------------------------
(***************************************************************************)
(* The accessors of benc.c on bencoded text.  A buffer s is a sequence of  *)
(* characters, and the pointer buf is s with an offset i into it; the      *)
(* empty character past its end is the terminating 0.                      *)
(*                                                                         *)
(* What the accessors make of text that breaks off inside a list or a      *)
(* dictionary, where the code's walks lose their place, is not modelled,   *)
(* and neither are numbers that an int does not hold.                      *)
(***************************************************************************)
EXTENDS Integers, Sequences

CONSTANT Char   \* the characters of a file

Digits == <<"0", "1", "2", "3", "4", "5", "6", "7", "8", "9">>
Digit == {Digits[d + 1] : d \in 0..9}

ASSUME CharAssumption == Digit \cup {"d", "l", "i", "e", ":", "-"} \subseteq Char

At(s, i) == IF i \in 0..(Len(s) - 1) THEN s[i + 1] ELSE ""

DigitValue(c) == CHOOSE d \in 0..9 : Digits[d + 1] = c

DigitsAt(s, i) ==
  CHOOSE n \in 0..Len(s) : /\ At(s, i + n) \notin Digit
                           /\ \A k \in 0..(n - 1) : At(s, i + k) \in Digit

\* strtol() of the digits at i, without a sign.
Number(s, i) ==
  LET upto[n \in 0..Len(s)] ==
        IF n = 0 THEN 0 ELSE 10 * upto[n - 1] + DigitValue(At(s, i + n - 1))
  IN upto[DigitsAt(s, i)]

benc_entity_type(s, i) ==
  CASE At(s, i) = "d" -> "T_DICT"
    [] At(s, i) = "l" -> "T_LIST"
    [] At(s, i) = "i" -> "T_INT"
    [] OTHER -> IF DigitsAt(s, i) > 0 /\ At(s, i + DigitsAt(s, i)) = ":"
                  THEN "T_STRING" ELSE "T_FAIL"

IsKey(s, i) == benc_entity_type(s, i) = "T_STRING"

benc_string_length(s, i) == IF IsKey(s, i) THEN Number(s, i) ELSE -1
benc_string_data_offset(s, i) == IF IsKey(s, i) THEN DigitsAt(s, i) + 1 ELSE -1

StringData(s, i) ==
  LET data == i + benc_string_data_offset(s, i)
  IN SubSeq(s, data + 1, data + benc_string_length(s, i))

\* The length of the list or dictionary at i whose walk stops at these offsets, the
\* last of them behind its items; an end that is not there has no length.
CompoundLength(s, i, stops) ==
  LET n == Len(stops) - 1
      pairs == n % 2 = 0 /\ \A k \in 1..n : k % 2 = 1 => IsKey(s, stops[k])
  IN IF At(s, stops[n + 1]) = "e" /\ (benc_entity_type(s, i) = "T_DICT" => pairs)
       THEN stops[n + 1] + 1 - i ELSE -1

IntLength(s, i) ==
  LET sign == IF At(s, i + 1) = "-" THEN 1 ELSE 0
      n == 1 + sign + DigitsAt(s, i + 1 + sign)
  IN IF At(s, i + n) = "e" THEN n + 1 ELSE -1

\* What is at each offset: the length of the entity there, and the offsets at which
\* a walk from there stops, up to the end of what it is in, or -1 after an entity
\* without a length.
Entities(s) ==
  LET at[i \in 0..Len(s)] ==
        LET len == CASE benc_entity_type(s, i) \in {"T_DICT", "T_LIST"} ->
                          CompoundLength(s, i, at[i + 1].stops)
                     [] benc_entity_type(s, i) = "T_INT" -> IntLength(s, i)
                     [] benc_entity_type(s, i) = "T_STRING" ->
                          benc_string_data_offset(s, i) + Number(s, i)
                     [] OTHER -> -1
        IN [len |-> len,
            stops |-> IF At(s, i) \in {"e", ""} THEN <<i>>
                      ELSE IF len = -1 THEN <<i, -1>>
                      ELSE IF i + len \notin (i + 1)..Len(s) THEN <<i, i + len>>
                      ELSE <<i>> \o at[i + len].stops]
  IN at

benc_entity_length(s, i) == Entities(s)[i].len

\* Where the items of the list or dictionary at i are, and how many.
Items(s, i) == Entities(s)[i + 1].stops
Counted(s, i) == Len(Items(s, i)) - 1

benc_list_item_offset(s, i, item) ==
  IF benc_entity_type(s, i) # "T_LIST" \/ item \notin 0..(Counted(s, i) - 1) THEN -1
  ELSE Items(s, i)[item + 1] - i

\* The keys among these items; a key that is no string ends the walk.
KeysAmong(s, all) ==
  LET n == Len(all) - 1
      sound == {m \in 0..n : \A k \in 1..m : k % 2 = 1 => IsKey(s, all[k])}
      last == CHOOSE m \in sound : \A j \in sound : j <= m
  IN [c \in 1..((last + 1) \div 2) |-> all[2 * c - 1]]

\* Offsets of the keys in turn.
Keys(s, i) == KeysAmong(s, Items(s, i))

benc_dict_key_offset(s, i, index) ==
  IF benc_entity_type(s, i) # "T_DICT" \/ index \notin 0..(Len(Keys(s, i)) - 1) THEN -1
  ELSE Keys(s, i)[index + 1] - i

\* The end of the first of these keys with this text, seen from i.
EndOfMatch(s, i, keys, key) ==
  LET hits == {c \in 1..Len(keys) : StringData(s, keys[c]) = key}
      first == keys[CHOOSE c \in hits : \A d \in hits : c <= d]
  IN IF hits = {} THEN -1 ELSE first + benc_entity_length(s, first) - i

benc_dict_value_offset(s, i, key) ==
  IF benc_entity_type(s, i) # "T_DICT" THEN -1 ELSE EndOfMatch(s, i, Keys(s, i), key)

\* i<=1: at least two characters, counting the sign, are asked for.
benc_int_value(s, i, defval) ==
  LET sign == IF At(s, i + 1) = "-" THEN 1 ELSE 0
      n == sign + DigitsAt(s, i + 1 + sign)
  IN IF benc_entity_type(s, i) # "T_INT" \/ n <= 1 \/ At(s, i + n + 1) # "e" THEN defval
     ELSE (IF sign = 1 THEN -1 ELSE 1) * Number(s, i + 1 + sign)
=============================================================================
