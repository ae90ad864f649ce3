------------------------------ MODULE TextCodec ------------------------------
(***************************************************************************)
(* Two algorithms on bytes: the check of UTF-8 text (utf-8.c), which       *)
(* every client id, topic, will and user name passes, and Base64           *)
(* (Base64.c, as built without OpenSSL), in which the proxy password and   *)
(* the WebSocket key are sent.  A text is built byte by byte.              *)
(***************************************************************************)
EXTENDS Integers, Sequences, SequencesExt

CONSTANTS TextBytes,  \* the bytes texts are made of: the edges of the ranges
          MaxText     \* bound on the length of a text

ASSUME TextAssumption == TextBytes \subseteq 0..255

VARIABLE text

(***************************************************************************)
(* utf-8.c.  char is signed: bytes and limits above 127 are negative.      *)
(***************************************************************************)
Signed(b) == IF b > 127 THEN b - 256 ELSE b
ByteRange(lo, hi) == Signed(lo) .. Signed(hi)
TailRange == ByteRange(128, 191)

valid_ranges == {
  << ByteRange(0, 127) >>,
  << ByteRange(194, 223), TailRange >>,
  << ByteRange(224, 224), ByteRange(160, 191), TailRange >>,
  << ByteRange(225, 236), TailRange, TailRange >>,
  << ByteRange(237, 237), ByteRange(128, 159), TailRange >>,
  << ByteRange(238, 239), TailRange, TailRange >>,
  << ByteRange(240, 240), ByteRange(144, 191), TailRange, TailRange >>,
  << ByteRange(241, 243), TailRange, TailRange, TailRange >>,
  << ByteRange(244, 244), ByteRange(128, 143), TailRange, TailRange >> }

\* what is left when k bytes are left
LastBytes(data, k) == SubSeq(data, Len(data) - k + 1, Len(data))

CharLen(b) == IF b < 128 THEN 1 ELSE IF b >= 240 THEN 4 ELSE IF b >= 224 THEN 3 ELSE 2

\* A check that looks at the first byte and the number of the others only.
CharValidateFirst(data) ==
  IF CharLen(data[1]) > Len(data) THEN 0
  ELSE IF \E row \in valid_ranges : Len(row) = CharLen(data[1]) /\ Signed(data[1]) \in row[1]
       THEN CharLen(data[1]) ELSE 0

\* UTF8_char_validate: the length of the character at the start of data, 0 if it is none
CharValidate(data) ==
  LET n == CharLen(data[1])
  IN IF n > Len(data) THEN 0
     ELSE IF \E row \in valid_ranges :
               Len(row) = n /\ \A j \in 1..n : Signed(data[j]) \in row[j]
          THEN n ELSE 0

\* the loop over the characters: valid[k] says whether the last k bytes are valid
UTF8_validate(data) ==
  LET valid[k \in 0..Len(data)] ==
        k = 0 \/ LET n == CharValidate(LastBytes(data, k)) IN n # 0 /\ valid[k - n]
  IN valid[Len(data)]

(***************************************************************************)
(* Base64.c.  A character is its index in the table; 64 is the padding.    *)
(* Three bytes make a group of four characters.                            *)
(***************************************************************************)
\* character j of the group that follows g bytes
EncodedChar(in, g, j) ==
  LET has(k) == g + k <= Len(in)
      byte(k) == IF has(k) THEN in[g + k] ELSE 0
  IN CASE j = 0 -> byte(1) \div 4
       [] j = 1 -> (byte(1) % 4) * 16 + byte(2) \div 16
       [] j = 2 -> IF has(2) THEN (byte(2) % 16) * 4 + byte(3) \div 64 ELSE 64
       [] j = 3 -> IF has(3) THEN byte(3) % 64 ELSE 64

Base64_encode(in) ==
  [i \in 1 .. 4 * ((Len(in) + 2) \div 3) |-> EncodedChar(in, 3 * ((i - 1) \div 4), (i - 1) % 4)]

\* byte j of the group that follows g characters
DecodedByte(in, g, j) ==
  CASE j = 0 -> ((in[g + 1] * 4) % 256) + in[g + 2] \div 16
    [] j = 1 -> (in[g + 2] % 16) * 16 + in[g + 3] \div 4
    [] j = 2 -> (in[g + 3] % 4) * 64 + in[g + 4]

\* the first group with padding ends it
Base64_decode(in) ==
  LET groups == Len(in) \div 4
      padded == {g \in 1..groups : in[4 * g - 1] = 64 \/ in[4 * g] = 64}
      last == Min(padded)
      len == IF padded = {} THEN 3 * groups ELSE 3 * last - (IF in[4 * last - 1] = 64 THEN 2 ELSE 1)
  IN [i \in 1..len |-> DecodedByte(in, 4 * ((i - 1) \div 3), (i - 1) % 3)]

\* what the callers allocate
Base64_encodeLength(n) == (((4 * n) \div 3 + 3) \div 4) * 4
Base64_decodeLength(in) ==
  LET pad(i) == IF i >= 1 /\ in[i] = 64 THEN 1 ELSE 0
  IN (Len(in) \div 4) * 3 - pad(Len(in) - 1) - pad(Len(in))

TextInit == text = <<>>
TextNext == Len(text) < MaxText /\ \E b \in TextBytes : text' = Append(text, b)
TextSpec == TextInit /\ [][TextNext]_text

(***************************************************************************)
(* What must hold.                                                         *)
(***************************************************************************)
\* The code point the first n bytes of data stand for by their low bits.
CodePoint(data, n) ==
  LET low(i) == data[i] % 64
  IN CASE n = 1 -> data[1]
       [] n = 2 -> 64 * (data[1] % 32) + low(2)
       [] n = 3 -> 4096 * (data[1] % 16) + 64 * low(2) + low(3)
       [] n = 4 -> 262144 * (data[1] % 8) + 4096 * low(2) + 64 * low(3) + low(4)

\* The definition of UTF-8: the shortest form of a Unicode scalar value.
ScalarValue(data, n) ==
  /\ CASE n = 1 -> data[1] \in 0..127 [] n = 2 -> data[1] \in 192..223
       [] n = 3 -> data[1] \in 224..239 [] n = 4 -> data[1] \in 240..247
  /\ \A i \in 2..n : data[i] \in 128..191
  /\ LET c == CodePoint(data, n)
     IN /\ c >= <<0, 128, 2048, 65536>>[n] /\ c <= 1114111
        /\ c \notin 55296..57343

IsUTF8(data) ==
  LET is[k \in 0..Len(data)] ==
        k = 0 \/ \E n \in 1..4 : n <= k /\ ScalarValue(LastBytes(data, k), n) /\ is[k - n]
  IN is[Len(data)]

\* UTF8_validate accepts exactly the sequences of Unicode scalar values in
\* their shortest form: no surrogate, no overlong form, nothing cut off or
\* out of range, at every edge of the table of ranges (utf-8.c:44-147).  And
\* Base64_decode undoes Base64_encode for every length modulo 3, both of them
\* producing as many bytes as the length functions announce to the callers,
\* who allocate that much (Base64.c:100-253).
TextExact ==
  LET e == Base64_encode(text)
  IN /\ UTF8_validate(text) <=> IsUTF8(text)
     /\ Base64_decode(e) = text
     /\ Len(e) = Base64_encodeLength(Len(text)) /\ Base64_decodeLength(e) = Len(text)
=============================================================================
