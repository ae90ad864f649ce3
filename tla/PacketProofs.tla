---------------------------- MODULE PacketProofs ----------------------------
(***************************************************************************)
(* A packet has the length that was computed for it, and is read back as   *)
(* it was sent, for any packets within the limits of MQTT: any text, any   *)
(* numbers and property lists of any length.                               *)
(***************************************************************************)
EXTENDS PacketCodec, WellFoundedInduction, TLAPS

LEMMA LeastOf ==
  ASSUME NEW S \in SUBSET Nat, S # {}
  PROVE  \E i \in S : \A j \in S : i <= j
<1> DEFINE R == OpToRel(<, Nat)
<1>1. IsWellFoundedOn(R, Nat)
  BY NatLessThanWellFounded
<1>2. \A x, y \in Nat : y < x => <<y, x>> \in R
  BY DEF OpToRel
<1> HIDE DEF R
<1>3. PICK i \in S : \A j \in S : ~(<<j, i>> \in R)
  BY <1>1, WFMin
<1>4. ASSUME NEW j \in S
      PROVE  i <= j
  <2>1. i \in Nat /\ j \in Nat
    OBVIOUS
  <2>2. ~(j < i)
    BY <1>2, <1>3, <2>1
  <2> QED BY <2>1, <2>2
<1> QED BY <1>4

----------------------------------------------------------------------------
(* Building packets *)

\* s is a sequence of n elements
HasLen(s, n) == (\E S : s \in Seq(S)) /\ Len(s) = n /\ n \in Nat

LEMMA SeqLen ==
  ASSUME NEW S, NEW s \in Seq(S)
  PROVE  HasLen(s, Len(s))
BY DEF HasLen

LEMMA ConcatLen ==
  ASSUME NEW s, NEW t, NEW m, NEW n, HasLen(s, m), HasLen(t, n)
  PROVE  HasLen(s \o t, m + n)
<1>1. PICK S : s \in Seq(S)
  BY DEF HasLen
<1>2. PICK T : t \in Seq(T)
  BY DEF HasLen
<1> DEFINE U == S \cup T
<1>3. s \in Seq(U) /\ t \in Seq(U)
  BY <1>1, <1>2
<1> HIDE DEF U
<1>4. s \o t \in Seq(U) /\ Len(s \o t) = Len(s) + Len(t)
  BY <1>3
<1>5. Len(s) = m /\ Len(t) = n /\ m \in Nat /\ n \in Nat
  BY DEF HasLen
<1> QED BY <1>4, <1>5 DEF HasLen

LEMMA EmptyLen == HasLen(<<>>, 0)
<1>1. <<>> \in Seq({}) /\ Len(<<>>) = 0
  OBVIOUS
<1> QED BY <1>1 DEF HasLen

LEMMA FunctionLen ==
  ASSUME NEW n \in Nat, NEW s, s = [i \in 1..n |-> s[i]]
  PROVE  HasLen(s, n)
<1> DEFINE S == {s[i] : i \in 1..n}
<1>1. s \in [1..n -> S]
  OBVIOUS
<1> HIDE DEF S
<1>2. s \in Seq(S) /\ Len(s) = n
  BY <1>1
<1> QED BY <1>2 DEF HasLen

LEMMA OneLen == ASSUME NEW a PROVE HasLen(<<a>>, 1)
<1>1. <<a>> \in Seq({a}) /\ Len(<<a>>) = 1
  OBVIOUS
<1> QED BY <1>1 DEF HasLen

LEMMA TwoLen == ASSUME NEW a, NEW b PROVE HasLen(<<a, b>>, 2)
<1>1. <<a, b>> \in Seq({a, b}) /\ Len(<<a, b>>) = 2
  OBVIOUS
<1> QED BY <1>1 DEF HasLen

LEMMA FourLen == ASSUME NEW a, NEW b, NEW c, NEW d PROVE HasLen(<<a, b, c, d>>, 4)
<1>1. <<a, b, c, d>> \in Seq({a, b, c, d}) /\ Len(<<a, b, c, d>>) = 4
  OBVIOUS
<1> QED BY <1>1 DEF HasLen

LEMMA UTFLen ==
  ASSUME NEW S, NEW s \in Seq(S)
  PROVE  HasLen(writeUTF(s), 2 + Len(s))
<1>1. HasLen(writeInt(Len(s)), 2)
  BY TwoLen DEF writeInt
<1> QED BY <1>1, SeqLen, ConcatLen DEF writeUTF

\* g encodes every number up to n
Digits(g, n) == g = [m \in 0..n |-> IF m < 128 THEN <<m>> ELSE <<(m % 128) + 128>> \o g[m \div 128]]

LEMMA DigitsExist ==
  ASSUME NEW n \in Nat
  PROVE  \E g : Digits(g, n)
<1> DEFINE Bad == {k \in Nat : ~ \E g : Digits(g, k)}
<1> SUFFICES ASSUME Bad # {} PROVE FALSE
  OBVIOUS
<1>1. PICK k \in Bad : \A j \in Bad : k <= j
  BY LeastOf
<1>2. CASE k = 0
  <2> DEFINE g == [m \in 0..0 |-> <<m>>]
  <2>1. g = [m \in 0..0 |-> IF m < 128 THEN <<m>> ELSE <<(m % 128) + 128>> \o g[m \div 128]]
    OBVIOUS
  <2>2. Digits(g, 0)
    BY <2>1 DEF Digits
  <2> QED BY <1>2, <2>2
<1>3. CASE k # 0
  <2>1. k - 1 \in Nat /\ k - 1 \notin Bad /\ k \in Nat
    BY <1>1, <1>3
  <2>2. PICK g : Digits(g, k - 1)
    BY <2>1
  <2> HIDE DEF Bad
  <2> DEFINE Step(f, m) == IF m < 128 THEN <<m>> ELSE <<(m % 128) + 128>> \o f[m \div 128]
             h == [m \in 0..k |-> IF m = k THEN Step(g, m) ELSE g[m]]
  <2>3. \A m \in 0 .. k - 1 : g[m] = Step(g, m)
    BY <2>2, ZenonT(60) DEF Digits
  <2>4. ASSUME NEW m \in 0..k
        PROVE  h[m] = Step(h, m)
    <3>1. h[m] = Step(g, m)
      BY <2>1, <2>3
    <3>2. CASE m < 128
      BY <3>1, <3>2
    <3>3. CASE ~(m < 128)
      <4>1. m \div 128 \in 0..k /\ m \div 128 # k
        BY <2>1, <3>3
      <4>2. h[m \div 128] = g[m \div 128]
        BY <4>1
      <4> QED BY <3>1, <3>3, <4>2, ZenonT(60)
    <3> QED BY <3>2, <3>3
  <2>5. h = [m \in 0..k |-> h[m]]
    OBVIOUS
  <2> HIDE DEF h
  <2>6. h = [m \in 0..k |-> Step(h, m)]
    BY <2>4, <2>5, ZenonT(60)
  <2>7. Digits(h, k)
    BY <2>6 DEF Digits
  <2> QED BY <2>7 DEF Bad
<1> QED BY <1>2, <1>3

\* MQTTPacket_VBIlen is the number of bytes that MQTTPacket_encode writes.
LEMMA EncodeLen ==
  ASSUME NEW n \in Nat, n <= MaxLength
  PROVE  HasLen(MQTTPacket_encode(n), MQTTPacket_VBIlen(n))
<1> DEFINE W(g) == [m \in 0..n |-> IF m < 128 THEN <<m>> ELSE <<(m % 128) + 128>> \o g[m \div 128]]
           digits == CHOOSE g : g = W(g)
<1>1. n \in Nat
  OBVIOUS
<1>2. \E g : g = W(g)
  <2>1. PICK g : Digits(g, n)
    BY <1>1, DigitsExist
  <2> QED BY <2>1, ZenonT(60) DEF Digits
<1>3. digits = W(digits)
  BY <1>2, ZenonT(60)
<1>4. MQTTPacket_encode(n) = digits[n]
  BY DEF MQTTPacket_encode
<1> HIDE DEF digits
<1>5. \A m \in 0..n : digits[m] = IF m < 128 THEN <<m>> ELSE <<(m % 128) + 128>> \o digits[m \div 128]
  BY <1>3, ZenonT(60)
<1> HIDE DEF W
<1>6. ASSUME NEW m \in 0..n, m < 128 PROVE HasLen(digits[m], 1)
  BY <1>5, <1>6, OneLen
<1>7. ASSUME NEW m \in 0..n, NEW k, m >= 128, HasLen(digits[m \div 128], k)
      PROVE  HasLen(digits[m], 1 + k)
  <2>1. digits[m] = <<(m % 128) + 128>> \o digits[m \div 128]
    <3>1. ~(m < 128)
      BY <1>1, <1>7
    <3> QED BY <1>5, <3>1
  <2>2. HasLen(<<(m % 128) + 128>>, 1)
    BY OneLen
  <2> QED BY <1>7, <2>1, <2>2, ConcatLen
<1>17. n < 268435456
  BY SMT DEF MaxLength
<1>8. \A m \in 0..n : m \div 128 \in 0..n /\ (m < 16384 => m \div 128 < 128)
                      /\ (m < 2097152 => m \div 128 < 16384) /\ (m < 268435456 => m \div 128 < 2097152)
                      /\ (m >= 16384 => m \div 128 >= 128) /\ (m >= 2097152 => m \div 128 >= 16384)
  BY <1>1, SMT
<1>9. ASSUME NEW m \in 0..n, 128 <= m, m < 16384 PROVE HasLen(digits[m], 2)
  <2>1. HasLen(digits[m \div 128], 1)
    BY <1>6, <1>8, <1>9, SMT
  <2>2. HasLen(digits[m], 1 + 1)
    BY <1>7, <1>9, <2>1, SMT
  <2> QED BY <2>2, SMT
<1>10. ASSUME NEW m \in 0..n, 16384 <= m, m < 2097152 PROVE HasLen(digits[m], 3)
  <2>1. HasLen(digits[m \div 128], 2)
    BY <1>8, <1>9, <1>10, SMT
  <2>2. HasLen(digits[m], 1 + 2)
    BY <1>1, <1>7, <1>10, <2>1, SMT
  <2> QED BY <2>2, SMT
<1>11. ASSUME 2097152 <= n PROVE HasLen(digits[n], 4)
  <2>1. HasLen(digits[n \div 128], 3)
    BY <1>1, <1>17, <1>8, <1>10, <1>11, SMT
  <2>2. HasLen(digits[n], 1 + 3)
    BY <1>1, <1>7, <1>11, <2>1, SMT
  <2> QED BY <2>2, SMT
<1>12. n \in 0..n
  BY <1>1, SMT
<1>13. CASE n < 128
  BY <1>4, <1>6, <1>12, <1>13, SMT DEF MQTTPacket_VBIlen
<1>14. CASE 128 <= n /\ n < 16384
  BY <1>1, <1>4, <1>9, <1>12, <1>14, SMT DEF MQTTPacket_VBIlen
<1>15. CASE 16384 <= n /\ n < 2097152
  BY <1>1, <1>4, <1>10, <1>12, <1>15, SMT DEF MQTTPacket_VBIlen
<1>16. CASE 2097152 <= n
  BY <1>1, <1>4, <1>11, <1>16, SMT DEF MQTTPacket_VBIlen
<1> QED BY <1>1, <1>13, <1>14, <1>15, <1>16, SMT

LEMMA TypesAre ==
  ASSUME NEW id \in 0..255
  PROVE  MQTTProperty_getType(id) \in {"byte", "int2", "int4", "vbi", "data", "utf", "pair", "invalid"}
BY DEF MQTTProperty_getType

\* The length that is added up for a property is the one it is written with.
LEMMA PropertyWritten ==
  ASSUME NEW p \in Properties, MQTTProperty_getType(p.id) # "invalid"
  PROVE  HasLen(MQTTProperty_write(p), PropertyLen(p))
<1> DEFINE type == MQTTProperty_getType(p.id)
<1>1. /\ p.id \in 0..255 /\ p.data \in Seq(0..255) /\ p.value \in Seq(0..255)
      /\ type = "vbi" => p.num \in Nat /\ p.num <= MaxLength
  BY DEF Properties, ByteText
<1>2. type \in {"byte", "int2", "int4", "vbi", "data", "utf", "pair"}
  BY <1>1, TypesAre
<1>3. HasLen(writeChar(p.id), 1) /\ Len(p.data) \in Nat /\ Len(p.value) \in Nat
  BY <1>1, OneLen DEF writeChar
<1> DEFINE value == IF type = "byte" THEN writeChar(p.num) ELSE IF type = "int2" THEN writeInt(p.num)
                    ELSE IF type = "int4" THEN writeInt4(p.num) ELSE IF type = "vbi" THEN MQTTPacket_encode(p.num)
                    ELSE IF type \in {"data", "utf"} THEN writeUTF(p.data) ELSE writeUTF(p.data) \o writeUTF(p.value)
<1> HIDE DEF type
<1>4. MQTTProperty_write(p) = writeChar(p.id) \o value
  BY <1>2 DEF MQTTProperty_write, type
<1>5. HasLen(value, ValueLen(p))
  <2>1. CASE type = "byte"
    BY <2>1, OneLen DEF ValueLen, writeChar, type
  <2>2. CASE type = "int2"
    BY <2>2, TwoLen DEF ValueLen, writeInt, type
  <2>3. CASE type = "int4"
    <3>1. HasLen(writeInt4(p.num), 4)
      BY FourLen DEF writeInt4
    <3> QED BY <2>3, <3>1 DEF ValueLen, type
  <2>4. CASE type = "vbi"
    <3>1. HasLen(MQTTPacket_encode(p.num), MQTTPacket_VBIlen(p.num))
      BY <1>1, <2>4, EncodeLen
    <3> QED BY <2>4, <3>1 DEF ValueLen, type
  <2>5. CASE type \in {"data", "utf"}
    <3>1. HasLen(writeUTF(p.data), 2 + Len(p.data))
      BY <1>1, UTFLen
    <3> QED BY <2>5, <3>1 DEF ValueLen, type
  <2>6. CASE type = "pair"
    <3>1. HasLen(writeUTF(p.data), 2 + Len(p.data)) /\ HasLen(writeUTF(p.value), 2 + Len(p.value))
      BY <1>1, UTFLen
    <3>2. HasLen(writeUTF(p.data) \o writeUTF(p.value), (2 + Len(p.data)) + (2 + Len(p.value)))
      BY <3>1, ConcatLen
    <3>3. ValueLen(p) = 2 + Len(p.data) + 2 + Len(p.value)
      BY <2>6 DEF ValueLen, type
    <3>4. ValueLen(p) = (2 + Len(p.data)) + (2 + Len(p.value))
      <4>1. \A a, b \in Nat : 2 + a + 2 + b = (2 + a) + (2 + b)
        OBVIOUS
      <4> QED BY <1>3, <3>3, <4>1
    <3> QED BY <2>6, <3>2, <3>4
  <2> QED BY <1>2, <2>1, <2>2, <2>3, <2>4, <2>5, <2>6
<1>6. HasLen(writeChar(p.id) \o value, 1 + ValueLen(p))
  BY <1>3, <1>5, ConcatLen
<1>7. ValueLen(p) \in Nat
  BY <1>5 DEF HasLen
<1> QED BY <1>4, <1>6, <1>7 DEF PropertyLen

\* lens has the length of what the first i parts are together
Lengths(lens, parts, n) ==
  /\ lens \in [0..n -> Nat] /\ lens[0] = 0
  /\ \A i \in 1..n : \E k : HasLen(parts[i], k) /\ lens[i] = lens[i - 1] + k

Flattened(g, parts, n) == g = [i \in 1..n |-> IF i = 1 THEN parts[i] ELSE g[i - 1] \o parts[i]]

LEMMA FlattenedExist ==
  ASSUME NEW parts, NEW n \in Nat
  PROVE  \E g : Flattened(g, parts, n)
<1> DEFINE Bad == {k \in Nat : ~ \E g : Flattened(g, parts, k)}
<1> SUFFICES ASSUME Bad # {} PROVE FALSE
  OBVIOUS
<1>1. PICK k \in Bad : \A j \in Bad : k <= j
  BY LeastOf
<1>2. CASE k = 0
  <2> DEFINE g == [i \in 1..0 |-> 0]
  <2>1. g = [i \in 1..0 |-> IF i = 1 THEN parts[i] ELSE g[i - 1] \o parts[i]]
    OBVIOUS
  <2>2. Flattened(g, parts, 0)
    BY <2>1 DEF Flattened
  <2> QED BY <1>2, <2>2
<1>3. CASE k # 0
  <2>1. k - 1 \in Nat /\ k - 1 \notin Bad /\ k \in Nat
    BY <1>1, <1>3
  <2>2. PICK g : Flattened(g, parts, k - 1)
    BY <2>1
  <2> HIDE DEF Bad
  <2> DEFINE Step(f, i) == IF i = 1 THEN parts[i] ELSE f[i - 1] \o parts[i]
             h == [i \in 1..k |-> IF i = k THEN Step(g, i) ELSE g[i]]
  <2>3. \A i \in 1 .. k - 1 : g[i] = Step(g, i)
    BY <2>2 DEF Flattened
  <2>4. ASSUME NEW i \in 1..k
        PROVE  h[i] = Step(h, i)
    <3>1. h[i] = Step(g, i)
      BY <2>1, <2>3
    <3>2. CASE i = 1
      BY <3>1, <3>2
    <3>3. CASE i # 1
      <4>1. i - 1 \in 1..k /\ i - 1 # k
        BY <2>1, <3>3
      <4>2. h[i - 1] = g[i - 1]
        BY <4>1
      <4> QED BY <3>1, <3>3, <4>2
    <3> QED BY <3>2, <3>3
  <2>5. h = [i \in 1..k |-> h[i]]
    OBVIOUS
  <2> HIDE DEF h
  <2>6. h = [i \in 1..k |-> Step(h, i)]
    BY <2>4, <2>5
  <2>7. Flattened(h, parts, k)
    BY <2>6 DEF Flattened
  <2> QED BY <2>7 DEF Bad
<1> QED BY <1>2, <1>3

LEMMA FlattenLen ==
  ASSUME NEW parts, NEW n, NEW lens, HasLen(parts, n), Lengths(lens, parts, n)
  PROVE  HasLen(FlattenSeq(parts), lens[n])
<1>1. n \in Nat /\ Len(parts) = n /\ lens \in [0..n -> Nat] /\ lens[0] = 0
  BY DEF HasLen, Lengths
<1>2. CASE n = 0
  BY <1>1, <1>2 DEF FlattenSeq
<1>3. CASE n # 0
  <2> DEFINE W(g) == [i \in 1..n |-> IF i = 1 THEN parts[i] ELSE g[i - 1] \o parts[i]]
             flatten == CHOOSE g : g = W(g)
  <2>1. \E g : g = W(g)
    <3>1. PICK g : Flattened(g, parts, n)
      BY <1>1, FlattenedExist
    <3> QED BY <3>1 DEF Flattened
  <2>2. flatten = W(flatten)
    BY <2>1, ZenonT(60)
  <2>3. FlattenSeq(parts) = flatten[n]
    BY <1>1, <1>3 DEF FlattenSeq
  <2> HIDE DEF flatten
  <2>4. \A i \in 1..n : flatten[i] = IF i = 1 THEN parts[i] ELSE flatten[i - 1] \o parts[i]
    BY <2>2
  <2> HIDE DEF W
  <2> DEFINE Bad == {i \in 1..n : ~HasLen(flatten[i], lens[i])}
  <2>5. ASSUME Bad # {} PROVE FALSE
    <3>1. PICK m \in Bad : \A j \in Bad : m <= j
      <4>1. Bad \in SUBSET Nat
        OBVIOUS
      <4> HIDE DEF Bad
      <4> QED BY <2>5, <4>1, LeastOf
    <3>2. m \in 1..n /\ ~HasLen(flatten[m], lens[m])
      OBVIOUS
    <3>3. PICK k : HasLen(parts[m], k) /\ lens[m] = lens[m - 1] + k
      BY <3>2 DEF Lengths
    <3>4. CASE m = 1
      <4>1. flatten[m] = parts[m] /\ lens[m] = k
        <5>1. k \in Nat
          BY <3>3 DEF HasLen
        <5> QED BY <1>1, <2>4, <3>2, <3>3, <3>4, <5>1
      <4> QED BY <3>2, <3>3, <4>1
    <3>5. CASE m # 1
      <4>1. m - 1 \in 1..n /\ m - 1 \notin Bad
        BY <1>1, <3>1, <3>2, <3>5
      <4>2. HasLen(flatten[m - 1], lens[m - 1])
        BY <4>1
      <4>3. flatten[m] = flatten[m - 1] \o parts[m]
        BY <2>4, <3>2, <3>5
      <4> QED BY <3>2, <3>3, <4>2, <4>3, ConcatLen
    <3> QED BY <3>4, <3>5
  <2>6. n \in 1..n
    BY <1>1, <1>3
  <2> QED BY <2>3, <2>5, <2>6
<1> QED BY <1>2, <1>3

\* what the properties of a list are written as
Written(array) == [i \in DOMAIN array |-> MQTTProperty_write(array[i])]

\* the length that a list keeps is the one its properties are written with
WellKept(props) ==
  /\ props.array \in Seq(Properties)
  /\ \E lens : Lengths(lens, Written(props.array), Len(props.array)) /\ props.length = lens[Len(props.array)]

LEMMA AddKeeps ==
  ASSUME NEW props, NEW p \in Properties, WellKept(props)
  PROVE  WellKept(MQTTProperties_add(props, p))
<1>1. CASE MQTTProperty_getType(p.id) = "invalid"
  BY <1>1 DEF MQTTProperties_add
<1>2. CASE MQTTProperty_getType(p.id) # "invalid"
  <2> DEFINE array == props.array
             n == Len(array)
             next == Append(array, p)
  <2>1. array \in Seq(Properties) /\ n \in Nat
    BY DEF WellKept
  <2>2. PICK lens : Lengths(lens, Written(array), n) /\ props.length = lens[n]
    BY DEF WellKept
  <2>3. MQTTProperties_add(props, p).array = next /\ MQTTProperties_add(props, p).length = props.length + PropertyLen(p)
    BY <1>2 DEF MQTTProperties_add
  <2>4. /\ next \in Seq(Properties) /\ Len(next) = n + 1 /\ next[n + 1] = p
        /\ DOMAIN next = 1 .. n + 1 /\ DOMAIN array = 1..n /\ \A i \in 1..n : next[i] = array[i]
    BY <2>1
  <2> HIDE DEF next, n, array
  <2>5. HasLen(MQTTProperty_write(p), PropertyLen(p)) /\ PropertyLen(p) \in Nat
    BY <1>2, PropertyWritten DEF HasLen
  <2> DEFINE L == [i \in 0 .. n + 1 |-> IF i = n + 1 THEN lens[n] + PropertyLen(p) ELSE lens[i]]
  <2>6. /\ lens \in [0..n -> Nat] /\ lens[0] = 0
        /\ \A i \in 1..n : \E k : HasLen(Written(array)[i], k) /\ lens[i] = lens[i - 1] + k
    BY <2>2 DEF Lengths
  <2>7. lens[n] \in Nat
    BY <2>1, <2>6
  <2>8. L \in [0 .. n + 1 -> Nat] /\ L[0] = 0 /\ L[n + 1] = lens[n] + PropertyLen(p) /\ \A i \in 0..n : L[i] = lens[i]
    BY <2>1, <2>5, <2>6, <2>7
  <2> HIDE DEF L
  <2>9. ASSUME NEW i \in 1 .. n + 1
        PROVE  \E k : HasLen(Written(next)[i], k) /\ L[i] = L[i - 1] + k
    <3>1. Written(next)[i] = MQTTProperty_write(next[i])
      BY <2>4 DEF Written
    <3>2. CASE i = n + 1
      <4>1. L[i - 1] = lens[n]
        BY <2>1, <2>8, <3>2
      <4> QED BY <2>4, <2>5, <2>8, <3>1, <3>2, <4>1
    <3>3. CASE i # n + 1
      <4>1. i \in 1..n /\ i \in 0..n /\ i - 1 \in 0..n
        BY <2>1, <3>3
      <4>2. Written(array)[i] = MQTTProperty_write(array[i])
        BY <2>4, <4>1 DEF Written
      <4>3. Written(next)[i] = Written(array)[i]
        BY <2>4, <3>1, <4>1, <4>2
      <4>4. L[i] = lens[i] /\ L[i - 1] = lens[i - 1]
        BY <2>8, <4>1
      <4> QED BY <2>6, <4>1, <4>3, <4>4
    <3> QED BY <3>2, <3>3
  <2>10. Lengths(L, Written(next), n + 1)
    BY <2>8, <2>9 DEF Lengths
  <2>11. props.length + PropertyLen(p) = L[Len(next)]
    BY <2>2, <2>4, <2>8
  <2>12. Lengths(L, Written(next), Len(next))
    BY <2>4, <2>10
  <2> QED BY <2>3, <2>4, <2>11, <2>12 DEF WellKept
<1> QED BY <1>1, <1>2

Copied(g, entries, n) == g = [k \in 0..n |-> IF k = 0 THEN NoProperties ELSE MQTTProperties_add(g[k - 1], entries[k])]

LEMMA CopiedExist ==
  ASSUME NEW entries, NEW n \in Nat
  PROVE  \E g : Copied(g, entries, n)
<1> DEFINE Bad == {k \in Nat : ~ \E g : Copied(g, entries, k)}
<1> SUFFICES ASSUME Bad # {} PROVE FALSE
  OBVIOUS
<1>1. PICK k \in Bad : \A j \in Bad : k <= j
  BY LeastOf
<1>2. CASE k = 0
  <2> DEFINE g == [i \in 0..0 |-> NoProperties]
  <2>1. g = [i \in 0..0 |-> IF i = 0 THEN NoProperties ELSE MQTTProperties_add(g[i - 1], entries[i])]
    OBVIOUS
  <2>2. Copied(g, entries, 0)
    BY <2>1 DEF Copied
  <2> QED BY <1>2, <2>2
<1>3. CASE k # 0
  <2>1. k - 1 \in Nat /\ k - 1 \notin Bad /\ k \in Nat
    BY <1>1, <1>3
  <2>2. PICK g : Copied(g, entries, k - 1)
    BY <2>1
  <2> HIDE DEF Bad
  <2> DEFINE Step(f, i) == IF i = 0 THEN NoProperties ELSE MQTTProperties_add(f[i - 1], entries[i])
             h == [i \in 0..k |-> IF i = k THEN Step(g, i) ELSE g[i]]
  <2>3. \A i \in 0 .. k - 1 : g[i] = Step(g, i)
    BY <2>2 DEF Copied
  <2>4. ASSUME NEW i \in 0..k
        PROVE  h[i] = Step(h, i)
    <3>1. h[i] = Step(g, i)
      BY <2>1, <2>3
    <3>2. CASE i = 0
      BY <3>1, <3>2
    <3>3. CASE i # 0
      <4>1. i - 1 \in 0..k /\ i - 1 # k
        BY <2>1, <3>3
      <4>2. h[i - 1] = g[i - 1]
        BY <4>1
      <4> QED BY <3>1, <3>3, <4>2
    <3> QED BY <3>2, <3>3
  <2>5. h = [i \in 0..k |-> h[i]]
    OBVIOUS
  <2> HIDE DEF h
  <2>6. h = [i \in 0..k |-> Step(h, i)]
    BY <2>4, <2>5
  <2>7. Copied(h, entries, k)
    BY <2>6 DEF Copied
  <2> QED BY <2>7 DEF Bad
<1> QED BY <1>2, <1>3

LEMMA CopyKeeps ==
  ASSUME NEW entries \in PropertyLists
  PROVE  WellKept(PropertiesOf(entries))
<1> DEFINE n == Len(entries)
           W(g) == [k \in 0..n |-> IF k = 0 THEN NoProperties ELSE MQTTProperties_add(g[k - 1], entries[k])]
           copied == CHOOSE g : g = W(g)
<1>1. n \in Nat /\ \A i \in 1..n : entries[i] \in Properties
  BY DEF PropertyLists
<1>2. \E g : g = W(g)
  <2>1. PICK g : Copied(g, entries, n)
    BY <1>1, CopiedExist
  <2> QED BY <2>1 DEF Copied
<1>3. copied = W(copied)
  BY <1>2
<1>4. PropertiesOf(entries) = copied[n]
  BY DEF PropertiesOf, MQTTProperties_copy
<1> HIDE DEF copied, n
<1>5. \A k \in 0..n : copied[k] = IF k = 0 THEN NoProperties ELSE MQTTProperties_add(copied[k - 1], entries[k])
  BY <1>3
<1> HIDE DEF W
<1> DEFINE Bad == {k \in 0..n : ~WellKept(copied[k])}
<1>6. ASSUME Bad # {} PROVE FALSE
  <2>1. PICK m \in Bad : \A j \in Bad : m <= j
    <3>1. Bad \in SUBSET Nat
      OBVIOUS
    <3> HIDE DEF Bad
    <3> QED BY <1>6, <3>1, LeastOf
  <2>2. m \in 0..n /\ ~WellKept(copied[m])
    OBVIOUS
  <2>3. CASE m = 0
    <3> DEFINE L == [i \in 0..0 |-> 0]
    <3>1. NoProperties.array = <<>> /\ NoProperties.length = 0 /\ Len(<<>>) = 0 /\ <<>> \in Seq(Properties)
      BY DEF NoProperties
    <3>2. Lengths(L, Written(<<>>), 0) /\ L[0] = 0
      BY DEF Lengths
    <3>3. WellKept(NoProperties)
      BY <3>1, <3>2 DEF WellKept
    <3>4. copied[m] = NoProperties
      BY <1>5, <2>2, <2>3
    <3> QED BY <2>2, <3>3, <3>4
  <2>4. CASE m # 0
    <3>1. m - 1 \in 0..n /\ m - 1 \notin Bad /\ m \in 1..n
      BY <1>1, <2>1, <2>2, <2>4
    <3>2. WellKept(copied[m - 1]) /\ entries[m] \in Properties
      BY <1>1, <3>1
    <3>3. copied[m] = MQTTProperties_add(copied[m - 1], entries[m])
      BY <1>5, <2>2, <2>4
    <3> QED BY <2>2, <3>2, <3>3, AddKeeps
  <2> QED BY <2>3, <2>4
<1>7. n \in 0..n
  BY <1>1
<1> QED BY <1>4, <1>6, <1>7

\* The length of a property list is the one it is written with.
LEMMA PropertiesLen ==
  ASSUME NEW entries \in PropertyLists, MQTTProperties_len(PropertiesOf(entries)) <= MaxLength
  PROVE  HasLen(MQTTProperties_write(PropertiesOf(entries)), MQTTProperties_len(PropertiesOf(entries)))
<1> DEFINE props == PropertiesOf(entries)
           n == Len(props.array)
<1>1. WellKept(props)
  BY CopyKeeps
<1> HIDE DEF props
<1>2. PICK lens : Lengths(lens, Written(props.array), n) /\ props.length = lens[n]
  BY <1>1 DEF WellKept
<1>3. n \in Nat /\ DOMAIN props.array = 1..n
  BY <1>1 DEF WellKept
<1>4. Written(props.array) = [i \in 1..n |-> MQTTProperty_write(props.array[i])]
  BY <1>3 DEF Written
<1>5. HasLen(Written(props.array), n)
  <2>1. Written(props.array) = [i \in 1..n |-> Written(props.array)[i]]
    BY <1>4
  <2> QED BY <1>3, <2>1, FunctionLen
<1>6. HasLen(FlattenSeq(Written(props.array)), props.length)
  BY <1>2, <1>5, FlattenLen
<1>7. props.length \in Nat
  BY <1>6 DEF HasLen
<1>8. props.length <= MaxLength
  <2>1. MQTTPacket_VBIlen(props.length) \in Nat
    BY <1>7, SMT DEF MQTTPacket_VBIlen
  <2>2. MQTTProperties_len(props) = props.length + MQTTPacket_VBIlen(props.length)
    BY DEF MQTTProperties_len
  <2>3. MQTTProperties_len(props) <= MaxLength
    BY DEF props
  <2> QED BY <1>7, <2>1, <2>2, <2>3, SMT DEF MaxLength
<1>9. HasLen(MQTTPacket_encode(props.length), MQTTPacket_VBIlen(props.length))
  BY <1>7, <1>8, EncodeLen
<1>10. HasLen(MQTTPacket_encode(props.length) \o FlattenSeq(Written(props.array)), MQTTPacket_VBIlen(props.length) + props.length)
  BY <1>6, <1>9, ConcatLen
<1>11. MQTTProperties_write(props) = MQTTPacket_encode(props.length) \o FlattenSeq(Written(props.array))
  BY DEF MQTTProperties_write, Written
<1>12. MQTTPacket_VBIlen(props.length) + props.length = MQTTProperties_len(props)
  <2>1. \A a, b \in Nat : a + b = b + a
    OBVIOUS
  <2>2. MQTTPacket_VBIlen(props.length) \in Nat
    BY <1>9 DEF HasLen
  <2> QED BY <1>7, <2>1, <2>2 DEF MQTTProperties_len
<1>13. HasLen(MQTTProperties_write(props), MQTTProperties_len(props))
  BY <1>10, <1>11, <1>12
<1> QED BY <1>13 DEF props

LEMMA PropertiesNat ==
  ASSUME NEW entries \in PropertyLists
  PROVE  MQTTProperties_len(PropertiesOf(entries)) \in Nat
<1> DEFINE props == PropertiesOf(entries)
           n == Len(props.array)
<1>1. WellKept(props)
  BY CopyKeeps
<1> HIDE DEF props
<1>2. PICK lens : lens \in [0..n -> Nat] /\ props.length = lens[n]
  BY <1>1 DEF WellKept, Lengths
<1>3. n \in Nat
  BY <1>1 DEF WellKept
<1>4. props.length \in Nat
  BY <1>2, <1>3
<1>5. MQTTPacket_VBIlen(props.length) \in Nat
  BY <1>4, SMT DEF MQTTPacket_VBIlen
<1>6. MQTTProperties_len(props) \in Nat
  BY <1>4, <1>5 DEF MQTTProperties_len
<1> QED BY <1>6 DEF props

\* the properties of a packet, which only version 5 has, and their length
Optional(b, entries) == IF b THEN MQTTProperties_write(PropertiesOf(entries)) ELSE <<>>
OptionalLen(b, entries) == IF b THEN MQTTProperties_len(PropertiesOf(entries)) ELSE 0

LEMMA OptionalWritten ==
  ASSUME NEW b \in BOOLEAN, NEW entries \in PropertyLists
  PROVE  /\ OptionalLen(b, entries) \in Nat
         /\ OptionalLen(b, entries) <= MaxLength => HasLen(Optional(b, entries), OptionalLen(b, entries))
<1>1. CASE b
  <2>1. /\ OptionalLen(b, entries) = MQTTProperties_len(PropertiesOf(entries))
        /\ Optional(b, entries) = MQTTProperties_write(PropertiesOf(entries))
    BY <1>1 DEF OptionalLen, Optional
  <2> QED BY <2>1, PropertiesNat, PropertiesLen
<1>2. CASE ~b
  <2>1. OptionalLen(b, entries) = 0 /\ Optional(b, entries) = <<>>
    BY <1>2 DEF OptionalLen, Optional
  <2> QED BY <2>1, EmptyLen
<1> QED BY <1>1, <1>2

Summed(g, strings, n) == g = [k \in 0..n |-> IF k = 0 THEN 0 ELSE g[k - 1] + Len(strings[k])]

LEMMA SummedExist ==
  ASSUME NEW strings, NEW n \in Nat
  PROVE  \E g : Summed(g, strings, n)
<1> DEFINE Bad == {k \in Nat : ~ \E g : Summed(g, strings, k)}
<1> SUFFICES ASSUME Bad # {} PROVE FALSE
  OBVIOUS
<1>1. PICK k \in Bad : \A j \in Bad : k <= j
  BY LeastOf
<1>2. CASE k = 0
  <2> DEFINE g == [i \in 0..0 |-> 0]
  <2>1. g = [i \in 0..0 |-> IF i = 0 THEN 0 ELSE g[i - 1] + Len(strings[i])]
    OBVIOUS
  <2>2. Summed(g, strings, 0)
    BY <2>1 DEF Summed
  <2> QED BY <1>2, <2>2
<1>3. CASE k # 0
  <2>1. k - 1 \in Nat /\ k - 1 \notin Bad /\ k \in Nat
    BY <1>1, <1>3
  <2>2. PICK g : Summed(g, strings, k - 1)
    BY <2>1
  <2> HIDE DEF Bad
  <2> DEFINE Step(f, i) == IF i = 0 THEN 0 ELSE f[i - 1] + Len(strings[i])
             h == [i \in 0..k |-> IF i = k THEN Step(g, i) ELSE g[i]]
  <2>3. \A i \in 0 .. k - 1 : g[i] = Step(g, i)
    BY <2>2 DEF Summed
  <2>4. ASSUME NEW i \in 0..k
        PROVE  h[i] = Step(h, i)
    <3>1. h[i] = Step(g, i)
      BY <2>1, <2>3
    <3>2. CASE i = 0
      BY <3>1, <3>2
    <3>3. CASE i # 0
      <4>1. i - 1 \in 0..k /\ i - 1 # k
        BY <2>1, <3>3
      <4>2. h[i - 1] = g[i - 1]
        BY <4>1
      <4> QED BY <3>1, <3>3, <4>2
    <3> QED BY <3>2, <3>3
  <2>5. h = [i \in 0..k |-> h[i]]
    OBVIOUS
  <2> HIDE DEF h
  <2>6. h = [i \in 0..k |-> Step(h, i)]
    BY <2>4, <2>5
  <2>7. Summed(h, strings, k)
    BY <2>6 DEF Summed
  <2> QED BY <2>7 DEF Bad
<1> QED BY <1>2, <1>3

\* Topics that are each written with extra bytes.
LEMMA TopicsLen ==
  ASSUME NEW topics \in Seq(ByteText), NEW extra \in {2, 3}, NEW parts, HasLen(parts, Len(topics)),
         \A i \in 1 .. Len(topics) : HasLen(parts[i], extra + Len(topics[i]))
  PROVE  SumLens(topics) \in Nat /\ HasLen(FlattenSeq(parts), Len(topics) * extra + SumLens(topics))
<1> DEFINE n == Len(topics)
           W(g) == [k \in 0..n |-> IF k = 0 THEN 0 ELSE g[k - 1] + Len(topics[k])]
           sum == CHOOSE g : g = W(g)
<1>1. n \in Nat /\ \A i \in 1..n : Len(topics[i]) \in Nat
  BY DEF ByteText
<1>2. \E g : g = W(g)
  <2>1. PICK g : Summed(g, topics, n)
    BY <1>1, SummedExist
  <2> QED BY <2>1 DEF Summed
<1>3. sum = W(sum)
  BY <1>2
<1>4. SumLens(topics) = sum[n]
  BY DEF SumLens
<1> HIDE DEF sum, n
<1>5. \A k \in 0..n : sum[k] = IF k = 0 THEN 0 ELSE sum[k - 1] + Len(topics[k])
  BY <1>3
<1> HIDE DEF W
<1> DEFINE Bad == {k \in 0..n : sum[k] \notin Nat}
<1>6. ASSUME Bad # {} PROVE FALSE
  <2>1. PICK m \in Bad : \A j \in Bad : m <= j
    <3>1. Bad \in SUBSET Nat
      OBVIOUS
    <3> HIDE DEF Bad
    <3> QED BY <1>6, <3>1, LeastOf
  <2>2. m \in 0..n /\ sum[m] \notin Nat
    OBVIOUS
  <2>3. m # 0
    BY <1>5, <2>2
  <2>4. m - 1 \in 0..n /\ m - 1 \notin Bad /\ m \in 1..n
    BY <1>1, <2>1, <2>2, <2>3
  <2>5. sum[m - 1] \in Nat /\ sum[m] = sum[m - 1] + Len(topics[m])
    BY <1>5, <2>2, <2>3, <2>4
  <2> QED BY <1>1, <2>2, <2>4, <2>5
<1>7. \A k \in 0..n : sum[k] \in Nat
  BY <1>6
<1> HIDE DEF Bad
<1> DEFINE L == [k \in 0..n |-> k * extra + sum[k]]
<1>14. \A k \in 0..n : k * extra \in Nat
  BY <1>1
<1>8. L \in [0..n -> Nat] /\ L[0] = 0 /\ L[n] = n * extra + sum[n] /\ sum[n] \in Nat
  <2>1. 0 \in 0..n /\ n \in 0..n
    BY <1>1
  <2>2. sum[0] = 0 /\ 0 * extra = 0
    BY <1>5, <2>1
  <2>3. \A k \in 0..n : k * extra + sum[k] \in Nat
    BY <1>7, <1>14
  <2>4. L \in [0..n -> Nat]
    BY <2>3
  <2>5. L[0] = 0 * extra + sum[0] /\ L[n] = n * extra + sum[n]
    BY <2>1
  <2> HIDE DEF L
  <2>6. L[0] = 0
    BY <2>2, <2>5
  <2>7. sum[n] \in Nat
    BY <1>7, <2>1
  <2> QED BY <2>4, <2>5, <2>6, <2>7
<1>9. ASSUME NEW k \in 1..n
      PROVE  L[k] = L[k - 1] + (extra + Len(topics[k]))
  <2>1. k \in 0..n /\ k - 1 \in 0..n /\ k # 0
    BY <1>1
  <2>2. sum[k] = sum[k - 1] + Len(topics[k]) /\ sum[k - 1] \in Nat /\ Len(topics[k]) \in Nat
    BY <1>1, <1>5, <1>7, <2>1
  <2>3. L[k] = k * extra + sum[k] /\ L[k - 1] = (k - 1) * extra + sum[k - 1]
    BY <2>1
  <2> HIDE DEF L
  <2>4. CASE extra = 2
    <3>1. \A s, t \in Nat : k * 2 + (s + t) = ((k - 1) * 2 + s) + (2 + t)
      BY <2>1
    <3> QED BY <2>2, <2>3, <2>4, <3>1
  <2>5. CASE extra = 3
    <3>1. \A s, t \in Nat : k * 3 + (s + t) = ((k - 1) * 3 + s) + (3 + t)
      BY <2>1
    <3> QED BY <2>2, <2>3, <2>5, <3>1
  <2> QED BY <2>4, <2>5
<1> HIDE DEF L
<1>10. \A i \in 1..n : HasLen(parts[i], extra + Len(topics[i]))
  BY DEF n
<1>11. Lengths(L, parts, n)
  BY <1>8, <1>9, <1>10 DEF Lengths
<1>12. HasLen(parts, n)
  BY DEF n
<1>13. HasLen(FlattenSeq(parts), L[n])
  BY <1>11, <1>12, FlattenLen
<1> QED BY <1>4, <1>8, <1>13 DEF n

LEMMA IntLen == ASSUME NEW n PROVE HasLen(writeInt(n), 2)
BY TwoLen DEF writeInt

LEMMA WriteCharLen == ASSUME NEW c PROVE HasLen(writeChar(c), 1)
BY OneLen DEF writeChar

LEMMA VersionIs == ASSUME NEW p, p.version \in 3..5 PROVE V5(p) \in BOOLEAN
BY DEF V5

LEMMA SubscribeWritten ==
  ASSUME NEW p, p.version \in 3..5, TopicsPacket(p), SubscribeLen(p) <= MaxLength
  PROVE  HasLen(MQTTPacket_send_subscribe(p), SubscribeLen(p))
<1> DEFINE n == Len(p.topics)
           b == V5(p)
           subopts(i) == p.qoss[i] + (IF b THEN Flag(p.opts[i].noLocal, 4) + Flag(p.opts[i].retainAsPublished, 8)
                                                + 16 * p.opts[i].retainHandling ELSE 0)
           parts == [i \in DOMAIN p.topics |-> writeUTF(p.topics[i]) \o writeChar(subopts(i))]
           props == Optional(b, p.props)
           plen == OptionalLen(b, p.props)
<1>1. p.topics \in Seq(ByteText) /\ n \in Nat /\ DOMAIN p.topics = 1..n /\ p.props \in PropertyLists /\ b \in BOOLEAN
  BY VersionIs DEF TopicsPacket
<1>2. MQTTPacket_send_subscribe(p) = (writeInt(p.msgId) \o props) \o FlattenSeq(parts)
  BY DEF MQTTPacket_send_subscribe, Optional
<1>3. SubscribeLen(p) = 2 + n * 3 + SumLens(p.topics) + plen
  BY DEF SubscribeLen, OptionalLen
<1> HIDE DEF subopts, b
<1>4. parts = [i \in 1..n |-> parts[i]] /\ \A i \in 1..n : parts[i] = writeUTF(p.topics[i]) \o writeChar(subopts(i))
  BY <1>1
<1> HIDE DEF parts, n
<1>5. HasLen(parts, n)
  BY <1>1, <1>4, FunctionLen
<1>6. ASSUME NEW i \in 1..n PROVE HasLen(parts[i], 3 + Len(p.topics[i]))
  <2>1. p.topics[i] \in Seq(0..255) /\ Len(p.topics[i]) \in Nat
    BY <1>1 DEF ByteText, n
  <2>2. HasLen(parts[i], (2 + Len(p.topics[i])) + 1)
    BY <1>4, <2>1, UTFLen, WriteCharLen, ConcatLen
  <2> QED BY <2>1, <2>2
<1>7. SumLens(p.topics) \in Nat /\ HasLen(FlattenSeq(parts), n * 3 + SumLens(p.topics))
  BY <1>1, <1>5, <1>6, TopicsLen DEF n
<1>8. plen \in Nat /\ (plen <= MaxLength => HasLen(props, plen))
  BY <1>1, OptionalWritten
<1> HIDE DEF plen, props
<1>9. plen <= MaxLength
  <2>1. n * 3 \in Nat
    BY <1>1
  <2> QED BY <1>3, <1>7, <1>8, <2>1, SMT DEF MaxLength
<1>10. HasLen((writeInt(p.msgId) \o props) \o FlattenSeq(parts), (2 + plen) + (n * 3 + SumLens(p.topics)))
  BY <1>7, <1>8, <1>9, IntLen, ConcatLen
<1>11. (2 + plen) + (n * 3 + SumLens(p.topics)) = SubscribeLen(p)
  <2>1. \A a, c, d \in Nat : (2 + a) + (c + d) = 2 + c + d + a
    OBVIOUS
  <2>2. n * 3 \in Nat
    BY <1>1
  <2> QED BY <1>3, <1>7, <1>8, <2>1, <2>2
<1> QED BY <1>2, <1>10, <1>11

LEMMA UnsubscribeWritten ==
  ASSUME NEW p, p.version \in 3..5, TopicsPacket(p), UnsubscribeLen(p) <= MaxLength
  PROVE  HasLen(MQTTPacket_send_unsubscribe(p), UnsubscribeLen(p))
<1> DEFINE n == Len(p.topics)
           b == V5(p)
           parts == [i \in DOMAIN p.topics |-> writeUTF(p.topics[i])]
           props == Optional(b, p.props)
           plen == OptionalLen(b, p.props)
<1>1. p.topics \in Seq(ByteText) /\ n \in Nat /\ DOMAIN p.topics = 1..n /\ p.props \in PropertyLists /\ b \in BOOLEAN
  BY VersionIs DEF TopicsPacket
<1>2. MQTTPacket_send_unsubscribe(p) = (writeInt(p.msgId) \o props) \o FlattenSeq(parts)
  BY DEF MQTTPacket_send_unsubscribe, Optional
<1>3. UnsubscribeLen(p) = 2 + n * 2 + SumLens(p.topics) + plen
  BY DEF UnsubscribeLen, OptionalLen
<1> HIDE DEF b
<1>4. parts = [i \in 1..n |-> parts[i]] /\ \A i \in 1..n : parts[i] = writeUTF(p.topics[i])
  BY <1>1
<1> HIDE DEF parts, n
<1>5. HasLen(parts, n)
  BY <1>1, <1>4, FunctionLen
<1>6. ASSUME NEW i \in 1..n PROVE HasLen(parts[i], 2 + Len(p.topics[i]))
  <2>1. p.topics[i] \in Seq(0..255)
    BY <1>1 DEF ByteText, n
  <2> QED BY <1>4, <2>1, UTFLen
<1>7. SumLens(p.topics) \in Nat /\ HasLen(FlattenSeq(parts), n * 2 + SumLens(p.topics))
  BY <1>1, <1>5, <1>6, TopicsLen DEF n
<1>8. plen \in Nat /\ (plen <= MaxLength => HasLen(props, plen))
  BY <1>1, OptionalWritten
<1> HIDE DEF plen, props
<1>9. plen <= MaxLength
  <2>1. n * 2 \in Nat
    BY <1>1
  <2> QED BY <1>3, <1>7, <1>8, <2>1, SMT DEF MaxLength
<1>10. HasLen((writeInt(p.msgId) \o props) \o FlattenSeq(parts), (2 + plen) + (n * 2 + SumLens(p.topics)))
  BY <1>7, <1>8, <1>9, IntLen, ConcatLen
<1>11. (2 + plen) + (n * 2 + SumLens(p.topics)) = UnsubscribeLen(p)
  <2>1. \A a, c, d \in Nat : (2 + a) + (c + d) = 2 + c + d + a
    OBVIOUS
  <2>2. n * 2 \in Nat
    BY <1>1
  <2> QED BY <1>3, <1>7, <1>8, <2>1, <2>2
<1> QED BY <1>2, <1>10, <1>11

LEMMA PublishWritten ==
  ASSUME NEW p, p.version \in 3..5, PublishPacket(p), PublishLen(p) <= MaxLength
  PROVE  HasLen(MQTTPacket_send_publish(p), PublishLen(p))
<1> DEFINE b == V5(p)
           t == Len(p.topic)
           l == Len(p.payload)
           id == IF p.qos > 0 THEN writeInt(p.msgId) ELSE <<>>
           idlen == IF p.qos > 0 THEN 2 ELSE 0
           props == Optional(b, p.props)
           plen == OptionalLen(b, p.props)
<1>1. p.topic \in Seq(0..255) /\ p.payload \in Seq(0..255) /\ p.qos \in 0..2 /\ p.props \in PropertyLists /\ b \in BOOLEAN
  BY VersionIs DEF PublishPacket, ByteText
<1>2. MQTTPacket_send_publish(p) = (((writeInt(t) \o p.topic) \o id) \o props) \o p.payload
  BY DEF MQTTPacket_send_publish, Optional
<1>3. PublishLen(p) = 2 + t + idlen + plen + l
  BY DEF PublishLen, OptionalLen
<1>4. HasLen(p.topic, t) /\ HasLen(p.payload, l) /\ t \in Nat /\ l \in Nat /\ HasLen(writeInt(t), 2)
  BY <1>1, SeqLen, IntLen
<1>5. HasLen(id, idlen) /\ idlen \in Nat
  BY <1>1, IntLen, EmptyLen
<1>6. plen \in Nat /\ (plen <= MaxLength => HasLen(props, plen))
  BY <1>1, OptionalWritten
<1> HIDE DEF b, t, l, id, idlen, props, plen
<1>7. plen <= MaxLength
  BY <1>3, <1>4, <1>5, <1>6, SMT DEF MaxLength
<1>8. HasLen(writeInt(t) \o p.topic, 2 + t)
  BY <1>4, ConcatLen
<1>9. HasLen((writeInt(t) \o p.topic) \o id, (2 + t) + idlen)
  BY <1>5, <1>8, ConcatLen
<1>10. HasLen(((writeInt(t) \o p.topic) \o id) \o props, ((2 + t) + idlen) + plen)
  BY <1>6, <1>7, <1>9, ConcatLen
<1>11. HasLen((((writeInt(t) \o p.topic) \o id) \o props) \o p.payload, (((2 + t) + idlen) + plen) + l)
  BY <1>4, <1>10, ConcatLen
<1> QED BY <1>2, <1>3, <1>11

LEMMA DisconnectWritten ==
  ASSUME NEW p, p.version \in 3..5, DisconnectPacket(p), DisconnectLen(p) <= MaxLength
  PROVE  HasLen(MQTTPacket_send_disconnect(p), DisconnectLen(p))
<1>1. CASE V5(p) /\ (p.props # <<>> \/ p.rc # 0)
  <2>1. CASE p.props = <<>>
    <3>1. MQTTPacket_send_disconnect(p) = writeChar(p.rc) \o <<>> /\ DisconnectLen(p) = 1 + 0
      BY <1>1, <2>1 DEF MQTTPacket_send_disconnect, DisconnectLen
    <3> QED BY <3>1, WriteCharLen, EmptyLen, ConcatLen
  <2>2. CASE p.props # <<>>
    <3> DEFINE plen == MQTTProperties_len(PropertiesOf(p.props))
    <3>1. MQTTPacket_send_disconnect(p) = writeChar(p.rc) \o MQTTProperties_write(PropertiesOf(p.props))
          /\ DisconnectLen(p) = 1 + plen
      BY <1>1, <2>2 DEF MQTTPacket_send_disconnect, DisconnectLen
    <3>2. p.props \in PropertyLists
      BY DEF DisconnectPacket
    <3>3. plen \in Nat
      BY <3>2, PropertiesNat
    <3>4. plen <= MaxLength
      <4> HIDE DEF plen
      <4> QED BY <3>1, <3>3, SMT DEF MaxLength
    <3>5. HasLen(MQTTProperties_write(PropertiesOf(p.props)), plen)
      BY <3>2, <3>4, PropertiesLen
    <3> QED BY <3>1, <3>5, WriteCharLen, ConcatLen
  <2> QED BY <2>1, <2>2
<1>2. CASE ~(V5(p) /\ (p.props # <<>> \/ p.rc # 0))
  <2>1. MQTTPacket_send_disconnect(p) = <<>> /\ DisconnectLen(p) = 0
    BY <1>2 DEF MQTTPacket_send_disconnect, DisconnectLen
  <2> QED BY <2>1, EmptyLen
<1> QED BY <1>1, <1>2

LEMMA OnlyIs == ASSUME NEW set, set # {} PROVE Only(set) \in set
BY DEF Only

\* a string that is written when it is set
TextPart(set) == IF set = {} THEN <<>> ELSE writeUTF(Only(set))
TextPartLen(set) == IF set # {} THEN 2 + Len(Only(set)) ELSE 0

LEMMA TextPartWritten ==
  ASSUME NEW set \in SUBSET ByteText
  PROVE  HasLen(TextPart(set), TextPartLen(set))
<1>1. CASE set = {}
  BY <1>1, EmptyLen DEF TextPart, TextPartLen
<1>2. CASE set # {}
  <2>1. Only(set) \in Seq(0..255)
    BY <1>2, OnlyIs DEF ByteText
  <2> QED BY <1>2, <2>1, UTFLen DEF TextPart, TextPartLen
<1> QED BY <1>1, <1>2

WillPart(p) ==
  IF p.will = {} THEN <<>>
  ELSE (IF V5(p) THEN MQTTProperties_write(PropertiesOf(p.willProps)) ELSE <<>>)
       \o writeUTF(Only(p.will)[1]) \o writeUTF(Only(p.will)[2])
WillLen(p) == IF p.will # {} THEN 2 + 2 + Len(Only(p.will)[1]) + Len(Only(p.will)[2]) ELSE 0
WillPropsLen(p) == OptionalLen(V5(p) /\ p.will # {}, p.willProps)

LEMMA WillWritten ==
  ASSUME NEW p, p.version \in 3..5, p.will \subseteq ByteText \X ByteText, p.willProps \in PropertyLists
  PROVE  /\ WillLen(p) \in Nat /\ WillPropsLen(p) \in Nat
         /\ WillPropsLen(p) <= MaxLength => HasLen(WillPart(p), WillPropsLen(p) + WillLen(p))
<1>0. V5(p) \in BOOLEAN
  BY VersionIs
<1>1. CASE p.will = {}
  <2>1. WillPart(p) = <<>> /\ WillLen(p) = 0 /\ WillPropsLen(p) = 0
    BY <1>1 DEF WillPart, WillLen, WillPropsLen, OptionalLen
  <2> QED BY <2>1, EmptyLen
<1>2. CASE p.will # {}
  <2> DEFINE topic == Only(p.will)[1]
             payload == Only(p.will)[2]
             props == Optional(V5(p), p.willProps)
             plen == OptionalLen(V5(p), p.willProps)
  <2>1. topic \in Seq(0..255) /\ payload \in Seq(0..255) /\ Len(topic) \in Nat /\ Len(payload) \in Nat
    <3>1. Only(p.will) \in ByteText \X ByteText
      BY <1>2, OnlyIs
    <3>2. topic \in Seq(0..255) /\ payload \in Seq(0..255)
      BY <3>1 DEF ByteText
    <3> QED BY <3>2
  <2>2. /\ WillPart(p) = (props \o writeUTF(topic)) \o writeUTF(payload)
        /\ WillLen(p) = 2 + 2 + Len(topic) + Len(payload)
    BY <1>2 DEF WillPart, WillLen, Optional
  <2>3. WillPropsLen(p) = plen
    BY <1>2 DEF WillPropsLen, OptionalLen
  <2>4. plen \in Nat /\ (plen <= MaxLength => HasLen(props, plen))
    BY <1>0, OptionalWritten
  <2>5. HasLen(writeUTF(topic), 2 + Len(topic)) /\ HasLen(writeUTF(payload), 2 + Len(payload))
    BY <2>1, UTFLen
  <2> HIDE DEF topic, payload, props, plen
  <2>6. ASSUME plen <= MaxLength PROVE HasLen(WillPart(p), plen + WillLen(p))
    <3>1. HasLen((props \o writeUTF(topic)) \o writeUTF(payload), (plen + (2 + Len(topic))) + (2 + Len(payload)))
      BY <2>4, <2>5, <2>6, ConcatLen
    <3>2. \A a, c, d \in Nat : (a + (2 + c)) + (2 + d) = a + (2 + 2 + c + d)
      OBVIOUS
    <3>3. (plen + (2 + Len(topic))) + (2 + Len(payload)) = plen + WillLen(p)
      BY <2>1, <2>2, <2>4, <3>2
    <3> QED BY <2>2, <3>1, <3>3
  <2>7. WillLen(p) \in Nat
    <3>1. \A c, d \in Nat : 2 + 2 + c + d \in Nat
      OBVIOUS
    <3> QED BY <2>1, <2>2, <3>1
  <2> QED BY <2>3, <2>4, <2>6, <2>7
<1> QED BY <1>1, <1>2

LEMMA ConnectWritten ==
  ASSUME NEW p, p.version \in 3..5, ConnectPacket(p), ConnectLen(p) <= MaxLength
  PROVE  HasLen(MQTTPacket_send_connect(p), ConnectLen(p))
<1> DEFINE name == IF p.version = 3 THEN 6 ELSE 4
           flags == Flag(p.clean, 2) + Flag(p.will # {}, 4 + 8 * p.willQoS + Flag(p.willRetain, 32))
                    + Flag(p.password # {}, 64) + Flag(p.username # {}, 128)
           protocol == writeUTF([i \in 1..name |-> 77])
           head == ((protocol \o writeChar(p.version)) \o writeChar(flags)) \o writeInt(p.keepAlive)
           hlen == IF p.version = 3 THEN 12 ELSE 10
           props == Optional(V5(p), p.props)
           plen == OptionalLen(V5(p), p.props)
           id == writeUTF(p.clientID)
           ilen == Len(p.clientID)
           will == WillPart(p)
           wlen == WillLen(p)
           wplen == WillPropsLen(p)
           user == TextPart(p.username)
           ulen == TextPartLen(p.username)
           pass == TextPart(p.password)
           slen == TextPartLen(p.password)
<1>1. /\ p.clientID \in Seq(0..255) /\ p.username \in SUBSET ByteText /\ p.password \in SUBSET ByteText
      /\ p.will \subseteq ByteText \X ByteText /\ p.props \in PropertyLists /\ p.willProps \in PropertyLists /\ V5(p) \in BOOLEAN
  BY VersionIs DEF ConnectPacket, ByteText
<1>2. MQTTPacket_send_connect(p) = ((((head \o props) \o id) \o will) \o user) \o pass
  BY DEF MQTTPacket_send_connect, Optional, WillPart, TextPart
<1>3. HasLen(head, hlen) /\ hlen \in Nat
  <2>1. name \in Nat
    OBVIOUS
  <2>2. [i \in 1..name |-> 77] \in Seq({77}) /\ Len([i \in 1..name |-> 77]) = name
    <3> HIDE DEF name
    <3>1. [i \in 1..name |-> 77] \in [1..name -> {77}]
      OBVIOUS
    <3> QED BY <2>1, <3>1
  <2>3. HasLen(protocol, 2 + name)
    BY <2>2, UTFLen
  <2> HIDE DEF protocol, name, flags
  <2>4. HasLen(protocol \o writeChar(p.version), (2 + name) + 1)
    BY <2>3, WriteCharLen, ConcatLen
  <2>5. HasLen((protocol \o writeChar(p.version)) \o writeChar(flags), ((2 + name) + 1) + 1)
    BY <2>4, WriteCharLen, ConcatLen
  <2>6. HasLen(head, (((2 + name) + 1) + 1) + 2)
    BY <2>5, IntLen, ConcatLen
  <2>7. (((2 + name) + 1) + 1) + 2 = hlen
    BY DEF name
  <2> QED BY <2>6, <2>7
<1>4. HasLen(id, 2 + ilen) /\ ilen \in Nat
  BY <1>1, UTFLen
<1>5. HasLen(user, ulen) /\ HasLen(pass, slen) /\ ulen \in Nat /\ slen \in Nat
  BY <1>1, TextPartWritten DEF HasLen
<1>6. plen \in Nat /\ (plen <= MaxLength => HasLen(props, plen))
  BY <1>1, OptionalWritten
<1>7. wlen \in Nat /\ wplen \in Nat /\ (wplen <= MaxLength => HasLen(will, wplen + wlen))
  BY <1>1, WillWritten
<1>8. ConnectLen(p) = hlen + ilen + 2 + wlen + ulen + slen + (plen + wplen)
  <2> DEFINE rest == IF V5(p) THEN MQTTProperties_len(PropertiesOf(p.props))
                     + (IF p.will # {} THEN MQTTProperties_len(PropertiesOf(p.willProps)) ELSE 0) ELSE 0
  <2>1. ConnectLen(p) = hlen + ilen + 2 + wlen + ulen + slen + rest
    BY DEF ConnectLen, WillLen, TextPartLen
  <2>2. rest = plen + wplen
    <3>1. CASE V5(p) /\ p.will # {}
      BY <3>1 DEF OptionalLen, WillPropsLen
    <3>2. CASE V5(p) /\ ~(p.will # {})
      <4>1. rest = plen + 0 /\ wplen = 0
        BY <3>2 DEF OptionalLen, WillPropsLen
      <4> QED BY <4>1
    <3>3. CASE ~V5(p)
      <4>1. rest = 0 /\ plen = 0 /\ wplen = 0
        BY <3>3 DEF OptionalLen, WillPropsLen
      <4> QED BY <4>1
    <3> QED BY <1>1, <3>1, <3>2, <3>3
  <2> QED BY <2>1, <2>2
<1> HIDE DEF head, hlen, props, plen, id, ilen, will, wlen, wplen, user, ulen, pass, slen
<1>9. plen <= MaxLength /\ wplen <= MaxLength
  BY <1>3, <1>4, <1>5, <1>6, <1>7, <1>8, SMT DEF MaxLength
<1>10. HasLen(head \o props, hlen + plen)
  BY <1>3, <1>6, <1>9, ConcatLen
<1>11. HasLen((head \o props) \o id, (hlen + plen) + (2 + ilen))
  BY <1>4, <1>10, ConcatLen
<1>12. HasLen(((head \o props) \o id) \o will, ((hlen + plen) + (2 + ilen)) + (wplen + wlen))
  BY <1>7, <1>9, <1>11, ConcatLen
<1>13. HasLen((((head \o props) \o id) \o will) \o user, (((hlen + plen) + (2 + ilen)) + (wplen + wlen)) + ulen)
  BY <1>5, <1>12, ConcatLen
<1>14. HasLen(((((head \o props) \o id) \o will) \o user) \o pass, ((((hlen + plen) + (2 + ilen)) + (wplen + wlen)) + ulen) + slen)
  BY <1>5, <1>13, ConcatLen
<1>15. ((((hlen + plen) + (2 + ilen)) + (wplen + wlen)) + ulen) + slen = ConnectLen(p)
  BY <1>3, <1>4, <1>5, <1>6, <1>7, <1>8, SMT
<1> QED BY <1>2, <1>14, <1>15

\* Every packet is written with the length that was computed for it.
LEMMA BodyWritten ==
  ASSUME NEW p \in Outgoing
  PROVE  HasLen(Body(p), BodyLen(p)) /\ BodyLen(p) <= MaxLength
<1>1. /\ p.type \in {"CONNECT", "SUBSCRIBE", "UNSUBSCRIBE", "PUBLISH", "DISCONNECT", "PINGREQ"} \cup Acks
      /\ p.version \in 3..5
      /\ p.type = "CONNECT" => ConnectPacket(p)
      /\ p.type \in {"SUBSCRIBE", "UNSUBSCRIBE"} => TopicsPacket(p)
      /\ p.type = "PUBLISH" => PublishPacket(p)
      /\ p.type = "DISCONNECT" => DisconnectPacket(p)
      /\ BodyLen(p) <= MaxLength
  BY OutgoingAssumption
<1>2. CASE p.type = "CONNECT"
  <2>1. Body(p) = MQTTPacket_send_connect(p) /\ BodyLen(p) = ConnectLen(p)
    BY <1>2 DEF Body, BodyLen, Acks
  <2> QED BY <1>1, <1>2, <2>1, ConnectWritten
<1>3. CASE p.type = "SUBSCRIBE"
  <2>1. Body(p) = MQTTPacket_send_subscribe(p) /\ BodyLen(p) = SubscribeLen(p)
    BY <1>3 DEF Body, BodyLen, Acks
  <2> QED BY <1>1, <1>3, <2>1, SubscribeWritten
<1>4. CASE p.type = "UNSUBSCRIBE"
  <2>1. Body(p) = MQTTPacket_send_unsubscribe(p) /\ BodyLen(p) = UnsubscribeLen(p)
    BY <1>4 DEF Body, BodyLen, Acks
  <2> QED BY <1>1, <1>4, <2>1, UnsubscribeWritten
<1>5. CASE p.type = "PUBLISH"
  <2>1. Body(p) = MQTTPacket_send_publish(p) /\ BodyLen(p) = PublishLen(p)
    BY <1>5 DEF Body, BodyLen, Acks
  <2> QED BY <1>1, <1>5, <2>1, PublishWritten
<1>6. CASE p.type = "DISCONNECT"
  <2>1. Body(p) = MQTTPacket_send_disconnect(p) /\ BodyLen(p) = DisconnectLen(p)
    BY <1>6 DEF Body, BodyLen, Acks
  <2> QED BY <1>1, <1>6, <2>1, DisconnectWritten
<1>7. CASE p.type \in Acks
  <2>1. Body(p) = writeInt(p.msgId) /\ BodyLen(p) = 2
    BY <1>7 DEF Body, BodyLen, Acks
  <2> QED BY <1>1, <2>1, IntLen
<1>8. CASE p.type = "PINGREQ"
  <2>1. Body(p) = <<>> /\ BodyLen(p) = 0
    BY <1>8 DEF Body, BodyLen, Acks
  <2> QED BY <1>1, <2>1, EmptyLen
<1> QED BY <1>1, <1>2, <1>3, <1>4, <1>5, <1>6, <1>7, <1>8

LEMMA FramedLen ==
  ASSUME NEW p, NEW len, NEW body, HasLen(body, len), len <= MaxLength
  PROVE  Len(Framed(p, len, body)) = 1 + MQTTPacket_VBIlen(len) + len
<1>1. len \in Nat
  BY DEF HasLen
<1>2. HasLen(<<Header(p)>>, 1) /\ HasLen(MQTTPacket_encode(len), MQTTPacket_VBIlen(len))
  BY <1>1, OneLen, EncodeLen
<1>3. HasLen((<<Header(p)>> \o MQTTPacket_encode(len)) \o body, (1 + MQTTPacket_VBIlen(len)) + len)
  BY <1>2, ConcatLen
<1> QED BY <1>3 DEF Framed, HasLen

\* What a packet is built as, for every packet within MQTT's largest
\* remaining length, has the length allocated and announced for it.
THEOREM LengthsAreExact == BuildSpec => []LengthIsExact
<1>1. BuildInit => LengthIsExact
  BY DEF BuildInit, LengthIsExact
<1>2. LengthIsExact /\ [BuildNext]_buildVars => LengthIsExact'
  <2> SUFFICES ASSUME LengthIsExact, [BuildNext]_buildVars PROVE LengthIsExact'
    OBVIOUS
  <2>1. CASE SendPacket
    <3> DEFINE len == BodyLen(packet)
               bytes == Framed(packet, len, Body(packet))
    <3>1. packet \in Outgoing /\ built' = [len |-> len, bytes |-> bytes]
      BY <2>1 DEF SendPacket
    <3>2. HasLen(Body(packet), len) /\ len <= MaxLength
      BY <3>1, BodyWritten
    <3>3. Len(bytes) = 1 + MQTTPacket_VBIlen(len) + len
      BY <3>2, FramedLen
    <3> HIDE DEF len, bytes
    <3>4. built'.len = len /\ built'.bytes = bytes
      BY <3>1
    <3> QED BY <3>3, <3>4 DEF LengthIsExact
  <2>2. CASE ServerSends
    <3> DEFINE body == ServerBody(packet)
               len == Len(body)
               bytes == Framed(packet, len, body)
    <3>1. packet \in Incoming /\ built' = [len |-> len, bytes |-> bytes]
      BY <2>2 DEF ServerSends
    <3>2. body \in Seq(0..255) /\ len <= MaxLength
      BY <3>1, IncomingAssumption DEF ByteText
    <3>3. HasLen(body, len)
      BY <3>2, SeqLen
    <3>4. Len(bytes) = 1 + MQTTPacket_VBIlen(len) + len
      BY <3>2, <3>3, FramedLen
    <3> HIDE DEF len, bytes
    <3>5. built'.len = len /\ built'.bytes = bytes
      BY <3>1
    <3> QED BY <3>4, <3>5 DEF LengthIsExact
  <2>3. CASE UNCHANGED buildVars
    BY <2>3 DEF LengthIsExact, buildVars
  <2> QED BY <2>1, <2>2, <2>3 DEF BuildNext
<1> QED BY <1>1, <1>2, PTL DEF BuildSpec

----------------------------------------------------------------------------
(* Reading packets *)

\* What the prover knows of sequences, for one set of elements.
LEMMA SeqFacts ==
  ASSUME NEW S, NEW s \in Seq(S), NEW t \in Seq(S)
  PROVE  /\ s \o t \in Seq(S) /\ Len(s \o t) = Len(s) + Len(t) /\ Len(s) \in Nat /\ Len(t) \in Nat
         /\ \A i \in 1..Len(s) : (s \o t)[i] = s[i]
         /\ \A i \in 1..Len(t) : (s \o t)[Len(s) + i] = t[i]
         /\ Len(s) = Len(t) /\ (\A i \in 1..Len(s) : s[i] = t[i]) => s = t
         /\ s \o <<>> = s /\ <<>> \o s = s
OBVIOUS

LEMMA JoinedText ==
  ASSUME NEW s \in ByteText, NEW t \in ByteText
  PROVE  /\ s \o t \in ByteText /\ Len(s \o t) = Len(s) + Len(t) /\ Len(s) \in Nat /\ Len(t) \in Nat
         /\ \A i \in 1..Len(s) : (s \o t)[i] = s[i]
         /\ \A i \in 1..Len(t) : (s \o t)[Len(s) + i] = t[i]
BY SeqFacts DEF ByteText

LEMMA SameText ==
  ASSUME NEW s \in ByteText, NEW t \in ByteText, Len(s) = Len(t), \A i \in 1..Len(s) : s[i] = t[i]
  PROVE  s = t
BY SeqFacts DEF ByteText

LEMMA SubSeqIs ==
  ASSUME NEW S, NEW s \in Seq(S), NEW a \in Nat, NEW b \in Nat, a + b <= Len(s)
  PROVE  /\ SubSeq(s, a + 1, a + b) \in Seq(S) /\ Len(SubSeq(s, a + 1, a + b)) = b
         /\ \A i \in 1..b : SubSeq(s, a + 1, a + b)[i] = s[a + i]
<1>1. \A i \in a + 1 .. a + b : i \in 1..Len(s) /\ s[i] \in S
  OBVIOUS
<1>2. SubSeq(s, a + 1, a + b) = [i \in 1..b |-> s[a + i]]
  OBVIOUS
<1>3. [i \in 1..b |-> s[a + i]] \in [1..b -> S]
  BY <1>1
<1>4. [1..b -> S] \subseteq Seq(S)
  OBVIOUS
<1>5. Len([i \in 1..b |-> s[a + i]]) = b
  OBVIOUS
<1> QED BY <1>2, <1>3, <1>4, <1>5

LEMMA PartText ==
  ASSUME NEW s \in ByteText, NEW a \in Nat, NEW b \in Nat, a + b <= Len(s)
  PROVE  /\ SubSeq(s, a + 1, a + b) \in ByteText /\ Len(SubSeq(s, a + 1, a + b)) = b
         /\ \A i \in 1..b : SubSeq(s, a + 1, a + b)[i] = s[a + i]
BY SubSeqIs DEF ByteText

\* The text between two others.
LEMMA MiddleOf ==
  ASSUME NEW s \in ByteText, NEW t \in ByteText, NEW u \in ByteText
  PROVE  SubSeq(s \o (t \o u), Len(s) + 1, Len(s) + Len(t)) = t
<1> DEFINE w == s \o (t \o u)
           m == SubSeq(w, Len(s) + 1, Len(s) + Len(t))
<1>1. /\ t \o u \in ByteText /\ Len(t \o u) = Len(t) + Len(u) /\ Len(t) \in Nat /\ Len(u) \in Nat
      /\ \A i \in 1..Len(t) : (t \o u)[i] = t[i]
  BY JoinedText
<1>2. /\ w \in ByteText /\ Len(w) = Len(s) + Len(t \o u) /\ Len(s) \in Nat
      /\ \A i \in 1..Len(t \o u) : w[Len(s) + i] = (t \o u)[i]
  BY <1>1, JoinedText
<1> HIDE DEF w
<1>3. Len(s) + Len(t) <= Len(w)
  BY <1>1, <1>2
<1>4. m \in ByteText /\ Len(m) = Len(t) /\ \A i \in 1..Len(t) : m[i] = w[Len(s) + i]
  BY <1>1, <1>2, <1>3, PartText
<1>5. \A i \in 1..Len(t) : i \in 1..Len(t \o u)
  BY <1>1
<1>6. m = t
  <2> HIDE DEF m
  <2> QED BY <1>1, <1>2, <1>4, <1>5, SameText
<1> QED BY <1>6 DEF w

\* What is left after the first string is the second.
LEMMA RestOf ==
  ASSUME NEW s \in ByteText, NEW t \in ByteText
  PROVE  Rest(s \o t, Len(s)) = t
<1>1. s \o t \in ByteText /\ Len(s \o t) = Len(s) + Len(t) /\ Len(s) \in Nat /\ Len(t) \in Nat
      /\ \A i \in 1..Len(t) : (s \o t)[Len(s) + i] = t[i]
  BY JoinedText
<1> DEFINE w == s \o t
           m == SubSeq(w, Len(s) + 1, Len(s) + Len(t))
<1> HIDE DEF w
<1>4. w \in ByteText /\ Len(s) + Len(t) <= Len(w) /\ \A i \in 1..Len(t) : w[Len(s) + i] = t[i]
  BY <1>1 DEF w
<1>2. m \in ByteText /\ Len(m) = Len(t) /\ \A i \in 1..Len(t) : m[i] = w[Len(s) + i]
  BY <1>1, <1>4, PartText
<1>3. m = t
  <2> HIDE DEF m
  <2> QED BY <1>2, <1>4, SameText
<1>5. Len(w) = Len(s) + Len(t)
  BY <1>1 DEF w
<1> QED BY <1>3, <1>5 DEF Rest, w

LEMMA Associative ==
  ASSUME NEW s \in ByteText, NEW t \in ByteText, NEW u \in ByteText
  PROVE  (s \o t) \o u = s \o (t \o u)
<1>1. \A S : s \in Seq(S) /\ t \in Seq(S) /\ u \in Seq(S) => (s \o t) \o u = s \o (t \o u)
  OBVIOUS
<1> QED BY <1>1 DEF ByteText

LEMMA NothingJoined ==
  ASSUME NEW s \in ByteText
  PROVE  s \o <<>> = s /\ <<>> \o s = s /\ <<>> \in ByteText /\ Len(<<>>) = 0
<1>1. <<>> \in Seq(0..255) /\ Len(<<>>) = 0
  OBVIOUS
<1> QED BY <1>1, SeqFacts DEF ByteText

\* Numbers of two bytes.
LEMMA IntBack ==
  ASSUME NEW n \in Word, NEW r \in ByteText
  PROVE  /\ writeInt(n) \in ByteText /\ Len(writeInt(n)) = 2 /\ writeInt(n) \o r \in ByteText
         /\ readInt(writeInt(n) \o r) = n /\ Rest(writeInt(n) \o r, 2) = r /\ Len(writeInt(n) \o r) = 2 + Len(r)
<1> DEFINE a == (n \div 256) % 256
           b == n % 256
           l == <<a, b>>
<1>1. a \in 0..255 /\ b \in 0..255 /\ 256 * a + b = n
  <2>1. n \in Nat /\ n <= 65535
    BY SMT DEF Word
  <2>2. n \div 256 \in 0..255 /\ n % 256 \in 0..255 /\ 256 * (n \div 256) + (n % 256) = n
    BY <2>1, SMT
  <2>3. \A q \in 0..255 : q % 256 = q
    BY SMT
  <2> QED BY <2>2, <2>3
<1> HIDE DEF a, b
<1>2. l \in ByteText /\ Len(l) = 2 /\ l[1] = a /\ l[2] = b
  BY <1>1 DEF ByteText
<1>3. writeInt(n) = l
  BY DEF writeInt, a, b
<1> HIDE DEF l
<1>4. /\ l \o r \in ByteText /\ Len(l \o r) = 2 + Len(r) /\ (l \o r)[1] = a /\ (l \o r)[2] = b
  <2>1. 1 \in 1..Len(l) /\ 2 \in 1..Len(l)
    BY <1>2
  <2>2. l \o r \in ByteText /\ Len(l \o r) = Len(l) + Len(r) /\ \A i \in 1..Len(l) : (l \o r)[i] = l[i]
    BY <1>2, JoinedText
  <2> QED BY <1>2, <2>1, <2>2
<1>5. Rest(l \o r, 2) = r
  BY <1>2, RestOf
<1>6. readInt(l \o r) = n
  BY <1>1, <1>4 DEF readInt
<1> QED BY <1>2, <1>3, <1>4, <1>5, <1>6

\* A byte in front is read back.
LEMMA OneBack ==
  ASSUME NEW a \in 0..255, NEW r \in ByteText
  PROVE  /\ writeChar(a) \in ByteText /\ Len(writeChar(a)) = 1 /\ writeChar(a) \o r \in ByteText
         /\ (writeChar(a) \o r)[1] = a /\ Rest(writeChar(a) \o r, 1) = r /\ Len(writeChar(a) \o r) = 1 + Len(r)
<1> DEFINE l == <<a>>
<1>1. l \in ByteText /\ Len(l) = 1 /\ l[1] = a
  BY DEF ByteText
<1>2. writeChar(a) = l
  BY DEF writeChar
<1> HIDE DEF l
<1>3. l \o r \in ByteText /\ Len(l \o r) = 1 + Len(r) /\ (l \o r)[1] = a
  <2>1. 1 \in 1..Len(l)
    BY <1>1
  <2>2. l \o r \in ByteText /\ Len(l \o r) = Len(l) + Len(r) /\ \A i \in 1..Len(l) : (l \o r)[i] = l[i]
    BY <1>1, JoinedText
  <2> QED BY <1>1, <2>1, <2>2
<1>4. Rest(l \o r, 1) = r
  BY <1>1, RestOf
<1> QED BY <1>1, <1>2, <1>3, <1>4

\* Strings with their length in front.
LEMMA TextBack ==
  ASSUME NEW s \in ByteText, Len(s) \in Word, NEW r \in ByteText
  PROVE  LET w == writeUTF(s) \o r
         IN  /\ writeUTF(s) \in ByteText /\ Len(writeUTF(s)) = 2 + Len(s) /\ w \in ByteText
             /\ LenStringFits(w) /\ LenStringRead(w) = s /\ readInt(w) = Len(s) /\ Rest(w, 2 + Len(s)) = r
<1> DEFINE l == writeInt(Len(s))
           w == writeUTF(s) \o r
<1>1. Len(s) \in Nat /\ Len(r) \in Nat
  BY DEF ByteText
<1>2. s \o r \in ByteText /\ Len(s \o r) = Len(s) + Len(r)
  BY JoinedText
<1>3. /\ l \in ByteText /\ Len(l) = 2 /\ l \o (s \o r) \in ByteText
      /\ readInt(l \o (s \o r)) = Len(s) /\ Len(l \o (s \o r)) = 2 + Len(s \o r)
  BY <1>1, <1>2, IntBack
<1>4. w = l \o (s \o r)
  BY <1>3, Associative DEF writeUTF
<1>5. writeUTF(s) \in ByteText /\ Len(writeUTF(s)) = 2 + Len(s)
  BY <1>3, JoinedText DEF writeUTF
<1>6. SubSeq(l \o (s \o r), 2 + 1, 2 + Len(s)) = s
  BY <1>3, MiddleOf
<1>7. Rest(w, 2 + Len(s)) = r
  BY <1>5, RestOf
<1> HIDE DEF l
<1>8. LenStringRead(l \o (s \o r)) = s
  BY <1>3, <1>6 DEF LenStringRead
<1>9. LenStringFits(l \o (s \o r))
  BY <1>1, <1>2, <1>3 DEF LenStringFits
<1> QED BY <1>3, <1>4, <1>5, <1>7, <1>8, <1>9

\* Numbers of four bytes, as far as they are positive ints.
Weighted(a, b, c, d) == 16777216 * a + 65536 * b + 256 * c + d

\* writeInt4 splits a number below 2^31 into its bytes, the first below 128.
LEMMA FourBytes ==
  ASSUME NEW n \in Int31
  PROVE  \E a \in 0..127, b \in 0..255, c \in 0..255, d \in 0..255 :
           n = Weighted(a, b, c, d) /\ writeInt4(n) = <<a, b, c, d>>
<1>1. n \in Nat /\ n <= 2147483647
  BY SMT DEF Int31
<1> DEFINE r == n % 16777216
           s == r % 65536
           a == n \div 16777216
           b == r \div 65536
           c == s \div 256
           d == s % 256
<1>2. r \in Nat /\ r < 16777216 /\ a \in Nat /\ a < 128 /\ n = 16777216 * a + r
  BY <1>1, SMT
<1> HIDE DEF r, a
<1>3. s \in Nat /\ s < 65536 /\ b \in Nat /\ b < 256 /\ r = 65536 * b + s
  BY <1>2, SMT
<1> HIDE DEF s, b
<1>4. d \in Nat /\ d < 256 /\ c \in Nat /\ c < 256 /\ s = 256 * c + d
  BY <1>3, SMT
<1> HIDE DEF c, d
<1>5. CDiv(n, 16777216) = a /\ CMod(n, 16777216) = r
  BY <1>1, <1>2, SMT DEF CDiv, CMod, a
<1>6. CDiv(r, 65536) = b /\ CMod(r, 65536) = s
  BY <1>2, <1>3, SMT DEF CDiv, CMod, b
<1>7. CDiv(s, 256) = c /\ CMod(s, 256) = d
  BY <1>3, <1>4, SMT DEF CDiv, CMod, c
<1>8. \A q \in 0..255 : q % 256 = q
  BY SMT
<1>9. a \in 0..127 /\ b \in 0..255 /\ c \in 0..255 /\ d \in 0..255
  BY <1>2, <1>3, <1>4, SMT
<1>10. a % 256 = a /\ b % 256 = b /\ c % 256 = c /\ d % 256 = d
  <2>1. a \in 0..255
    BY <1>9, SMT
  <2> QED BY <1>8, <1>9, <2>1
<1>11. writeInt4(n) = <<a, b, c, CMod(s, 256) % 256>>
  BY <1>5, <1>6, <1>7, <1>10, SMT DEF writeInt4
<1>12. writeInt4(n) = <<a, b, c, d>>
  BY <1>7, <1>10, <1>11
<1>13. n = Weighted(a, b, c, d)
  BY <1>2, <1>3, <1>4, SMT DEF Weighted
<1> QED BY <1>9, <1>12, <1>13

\* readInt4 puts them together.
LEMMA Int4Back ==
  ASSUME NEW n \in Int31, NEW r \in ByteText
  PROVE  /\ writeInt4(n) \in ByteText /\ Len(writeInt4(n)) = 4
         /\ readInt4(writeInt4(n) \o r) = n /\ Rest(writeInt4(n) \o r, 4) = r
<1>1. PICK a \in 0..127, b \in 0..255, c \in 0..255, d \in 0..255 :
         n = Weighted(a, b, c, d) /\ writeInt4(n) = <<a, b, c, d>>
  BY FourBytes
<1> DEFINE l == <<a, b, c, d>>
<1>2. l \in ByteText /\ Len(l) = 4 /\ l[1] = a /\ l[2] = b /\ l[3] = c /\ l[4] = d
  BY <1>1, SMT DEF ByteText
<1> HIDE DEF l
<1>3. \A i \in 1..Len(l) : (l \o r)[i] = l[i]
  BY <1>2, JoinedText
<1>4. (l \o r)[1] = a /\ (l \o r)[2] = b /\ (l \o r)[3] = c /\ (l \o r)[4] = d
  <2>1. 1 \in 1..Len(l) /\ 2 \in 1..Len(l) /\ 3 \in 1..Len(l) /\ 4 \in 1..Len(l)
    BY <1>2
  <2> QED BY <1>2, <1>3, <2>1
<1>5. readInt4(l \o r) = Weighted(a, b, c, d)
  BY <1>1, <1>4, SMT DEF readInt4, Weighted
<1>6. readInt4(l \o r) = n
  BY <1>1, <1>5
<1>7. Rest(l \o r, 4) = r
  BY <1>2, RestOf
<1>8. writeInt4(n) = l
  BY <1>1, SMT DEF l
<1> QED BY <1>2, <1>6, <1>7, <1>8

----------------------------------------------------------------------------
(* Reading variable byte integers *)

\* Variable byte integers: all digits but the last have the bit of 128.
Low == 0..127
High == 128..255
More(a, n) == (a - 128) + 128 * n
OneDigit(n, l) == n \in Low /\ l = <<n>>
TwoDigits(n, l) == \E a \in High, q \in Low : n = More(a, q) /\ l = <<a, q>>
ThreeDigits(n, l) == \E a \in High, b \in High, q \in Low :
  n = More(a, More(b, q)) /\ l = <<a, b, q>>
FourDigits(n, l) == \E a \in High, b \in High, c \in High, q \in Low :
  n = More(a, More(b, More(c, q))) /\ l = <<a, b, c, q>>

LEMMA SameSeq ==
  ASSUME NEW S, NEW s \in Seq(S), NEW t \in Seq(S), NEW n, Len(s) = n, Len(t) = n, \A i \in 1..n : s[i] = t[i]
  PROVE  s = t
OBVIOUS

LEMMA TwoJoined ==
  ASSUME NEW a, NEW b
  PROVE  <<a>> \o <<b>> = <<a, b>>
<1> DEFINE S == {a, b}
<1>1. \A i \in 1..2 : (<<a>> \o <<b>>)[i] = <<a, b>>[i]
  OBVIOUS
<1>2. <<a>> \o <<b>> \in Seq(S) /\ Len(<<a>> \o <<b>>) = 2
  OBVIOUS
<1>3. <<a, b>> \in Seq(S) /\ Len(<<a, b>>) = 2
  OBVIOUS
<1> HIDE DEF S
<1> QED BY <1>1, <1>2, <1>3, SameSeq, Zenon

LEMMA ThreeJoined ==
  ASSUME NEW a, NEW b, NEW c
  PROVE  <<a>> \o <<b, c>> = <<a, b, c>>
<1> DEFINE S == {a, b, c}
<1>1. \A i \in 1..3 : (<<a>> \o <<b, c>>)[i] = <<a, b, c>>[i]
  OBVIOUS
<1>2. <<a>> \o <<b, c>> \in Seq(S) /\ Len(<<a>> \o <<b, c>>) = 3
  OBVIOUS
<1>3. <<a, b, c>> \in Seq(S) /\ Len(<<a, b, c>>) = 3
  OBVIOUS
<1> HIDE DEF S
<1> QED BY <1>1, <1>2, <1>3, SameSeq, Zenon

LEMMA FourJoined ==
  ASSUME NEW a, NEW b, NEW c, NEW d
  PROVE  <<a>> \o <<b, c, d>> = <<a, b, c, d>>
<1> DEFINE S == {a, b, c, d}
<1>1. \A i \in 1..4 : (<<a>> \o <<b, c, d>>)[i] = <<a, b, c, d>>[i]
  OBVIOUS
<1>2. <<a>> \o <<b, c, d>> \in Seq(S) /\ Len(<<a>> \o <<b, c, d>>) = 4
  OBVIOUS
<1>3. <<a, b, c, d>> \in Seq(S) /\ Len(<<a, b, c, d>>) = 4
  OBVIOUS
<1> HIDE DEF S
<1> QED BY <1>1, <1>2, <1>3, SameSeq, Zenon

\* One digit more in front.
LEMMA DigitAdded ==
  ASSUME NEW n \in Nat, NEW l
  PROVE  LET m == (n % 128) + 128
             q == n \div 128
         IN  /\ OneDigit(q, l) => TwoDigits(n, <<m>> \o l)
             /\ TwoDigits(q, l) => ThreeDigits(n, <<m>> \o l)
             /\ ThreeDigits(q, l) => FourDigits(n, <<m>> \o l)
<1> DEFINE m == (n % 128) + 128
           q == n \div 128
<1>1. m \in High /\ n = More(m, q)
  BY DEF High, More
<1> HIDE DEF m, q
<1>2. ASSUME OneDigit(q, l) PROVE TwoDigits(n, <<m>> \o l)
  <2>1. <<m>> \o <<q>> = <<m, q>>
    BY TwoJoined
  <2> QED BY <1>1, <1>2, <2>1 DEF OneDigit, TwoDigits
<1>3. ASSUME TwoDigits(q, l) PROVE ThreeDigits(n, <<m>> \o l)
  <2>1. PICK a \in High, d \in Low : q = More(a, d) /\ l = <<a, d>>
    BY <1>3 DEF TwoDigits
  <2>2. <<m>> \o l = <<m, a, d>>
    BY <2>1, ThreeJoined
  <2> QED BY <1>1, <2>1, <2>2 DEF ThreeDigits
<1>4. ASSUME ThreeDigits(q, l) PROVE FourDigits(n, <<m>> \o l)
  <2>1. PICK a \in High, b \in High, d \in Low : q = More(a, More(b, d)) /\ l = <<a, b, d>>
    BY <1>4 DEF ThreeDigits
  <2>2. <<m>> \o l = <<m, a, b, d>>
    BY <2>1, FourJoined
  <2> QED BY <1>1, <2>1, <2>2 DEF FourDigits
<1> QED BY <1>2, <1>3, <1>4 DEF m, q

\* MQTTPacket_encode makes at most four digits, within MQTT's largest length.
LEMMA EncodedDigits ==
  ASSUME NEW n \in Nat, n <= MaxLength
  PROVE  LET l == MQTTPacket_encode(n)
         IN  OneDigit(n, l) \/ TwoDigits(n, l) \/ ThreeDigits(n, l) \/ FourDigits(n, l)
<1> DEFINE W(g) == [m \in 0..n |-> IF m < 128 THEN <<m>> ELSE <<(m % 128) + 128>> \o g[m \div 128]]
           digits == CHOOSE g : g = W(g)
<1>1. \E g : g = W(g)
  <2>1. PICK g : Digits(g, n)
    BY DigitsExist
  <2> QED BY <2>1, ZenonT(60) DEF Digits
<1>2. digits = W(digits)
  BY <1>1, ZenonT(60)
<1>3. MQTTPacket_encode(n) = digits[n]
  BY DEF MQTTPacket_encode
<1> HIDE DEF digits
<1>4. \A m \in 0..n : digits[m] = IF m < 128 THEN <<m>> ELSE <<(m % 128) + 128>> \o digits[m \div 128]
  BY <1>2, ZenonT(60)
<1> HIDE DEF W
<1>5. n \in 0..n /\ n < 268435456
  BY SMT DEF MaxLength
<1>6. \A m \in 0..n : m \div 128 \in 0..n /\ (m < 16384 => m \div 128 < 128)
                      /\ (m < 2097152 => m \div 128 < 16384) /\ (m < 268435456 => m \div 128 < 2097152)
  BY SMT
<1>7. ASSUME NEW m \in 0..n, m < 128 PROVE OneDigit(m, digits[m])
  <2>1. m \in Low
    BY <1>7 DEF Low
  <2> QED BY <1>4, <1>7, <2>1 DEF OneDigit
<1>8. ASSUME NEW m \in 0..n, ~(m < 128)
      PROVE  /\ m \in Nat /\ m \div 128 \in 0..n
             /\ OneDigit(m \div 128, digits[m \div 128]) => TwoDigits(m, digits[m])
             /\ TwoDigits(m \div 128, digits[m \div 128]) => ThreeDigits(m, digits[m])
             /\ ThreeDigits(m \div 128, digits[m \div 128]) => FourDigits(m, digits[m])
  <2>1. m \in Nat /\ m \div 128 \in 0..n
    BY SMT
  <2>2. digits[m] = <<(m % 128) + 128>> \o digits[m \div 128]
    BY <1>4, <1>8
  <2> QED BY <2>1, <2>2, DigitAdded
<1>9. ASSUME NEW m \in 0..n, m < 16384 PROVE OneDigit(m, digits[m]) \/ TwoDigits(m, digits[m])
  <2>1. CASE m < 128
    BY <1>7, <2>1
  <2>2. CASE ~(m < 128)
    <3>1. m \div 128 \in 0..n /\ m \div 128 < 128
      BY <1>6, <1>9, SMT
    <3> QED BY <1>7, <1>8, <2>2, <3>1
  <2> QED BY <2>1, <2>2
<1>10. ASSUME NEW m \in 0..n, m < 2097152
       PROVE  OneDigit(m, digits[m]) \/ TwoDigits(m, digits[m]) \/ ThreeDigits(m, digits[m])
  <2>1. CASE m < 128
    BY <1>7, <2>1
  <2>2. CASE ~(m < 128)
    <3>1. m \div 128 \in 0..n /\ m \div 128 < 16384
      BY <1>6, <1>10, SMT
    <3> QED BY <1>8, <1>9, <2>2, <3>1
  <2> QED BY <2>1, <2>2
<1>11. CASE n < 128
  BY <1>3, <1>5, <1>7, <1>11
<1>12. CASE ~(n < 128)
  <2>1. n \div 128 \in 0..n /\ n \div 128 < 2097152
    BY <1>5, <1>6, SMT
  <2>2. OneDigit(n \div 128, digits[n \div 128]) \/ TwoDigits(n \div 128, digits[n \div 128]) \/ ThreeDigits(n \div 128, digits[n \div 128])
    BY <1>10, <2>1, SMT
  <2> QED BY <1>3, <1>5, <1>8, <1>12, <2>2, SMT
<1> QED BY <1>11, <1>12

\* the last digit is the first below 128
LEMMA LastDigit ==
  ASSUME NEW b, NEW k \in 1..4, b[k] < 128 \/ k = 4, b[k] \in Nat, \A j \in 1 .. k - 1 : b[j] \in Nat /\ b[j] >= 128
  PROVE  VBIlast(b) = k
<1> DEFINE P(i) == (b[i] < 128 \/ i = 4) /\ \A j \in 1..(i - 1) : b[j] >= 128
<1>1. k \in 1..4 /\ P(k)
  OBVIOUS
<1>2. ASSUME NEW i \in 1..4, P(i) PROVE i = k
  <2>1. CASE i < k
    <3>1. i \in 1 .. k - 1 /\ i # 4
      BY <2>1
    <3>2. b[i] \in Nat /\ b[i] >= 128 /\ b[i] < 128
      BY <1>2, <3>1
    <3> QED BY <3>2
  <2>2. CASE k < i
    <3>1. k \in 1 .. i - 1 /\ k # 4
      BY <2>2
    <3>2. b[k] >= 128 /\ b[k] < 128
      BY <1>2, <3>1
    <3> QED BY <3>2
  <2> QED BY <2>1, <2>2
<1> QED BY <1>1, <1>2 DEF VBIlast

LEMMA DecodedOne ==
  ASSUME NEW b, NEW n, b[1] = n, n \in Low
  PROVE  VBIdecode(b) = [len |-> 1, value |-> n]
<1>1. VBIlast(b) = 1
  <2>1. b[1] \in Nat /\ b[1] < 128 /\ 1 \in 1..4 /\ 1 .. 1 - 1 = {}
    BY DEF Low
  <2> QED BY <2>1, LastDigit
<1>2. \A x \in Low : (x % 128) + 128 * 0 + 16384 * 0 + 2097152 * 0 = x
  BY SMT DEF Low
<1> QED BY <1>1, <1>2, SMT DEF VBIdecode

LEMMA DigitValues ==
  /\ \A a \in High : a \in Nat /\ a >= 128 /\ a % 128 = a - 128
  /\ \A q \in Low : q \in Nat /\ q < 128 /\ q % 128 = q
BY DEF High, Low

LEMMA DecodedTwo ==
  ASSUME NEW b, NEW n, NEW a \in High, NEW q \in Low, b[1] = a, b[2] = q, n = More(a, q)
  PROVE  VBIdecode(b) = [len |-> 2, value |-> n]
<1>1. VBIlast(b) = 2
  <2>1. b[2] \in Nat /\ b[2] < 128 /\ 2 \in 1..4 /\ \A j \in 1 .. 2 - 1 : b[j] \in Nat /\ b[j] >= 128
    BY DigitValues
  <2> QED BY <2>1, LastDigit
<1>2. (a - 128) + 128 * q + 16384 * 0 + 2097152 * 0 = n
  BY SMT DEF High, Low, More
<1> QED BY <1>1, <1>2, DigitValues, SMT DEF VBIdecode

LEMMA DecodedThree ==
  ASSUME NEW b, NEW n, NEW a \in High, NEW c \in High, NEW q \in Low,
         b[1] = a, b[2] = c, b[3] = q, n = More(a, More(c, q))
  PROVE  VBIdecode(b) = [len |-> 3, value |-> n]
<1>1. VBIlast(b) = 3
  <2>1. b[3] \in Nat /\ b[3] < 128 /\ 3 \in 1..4 /\ \A j \in 1 .. 3 - 1 : b[j] \in Nat /\ b[j] >= 128
    BY DigitValues
  <2> QED BY <2>1, LastDigit
<1>2. (a - 128) + 128 * (c - 128) + 16384 * q + 2097152 * 0 = n
  BY SMT DEF High, Low, More
<1> QED BY <1>1, <1>2, DigitValues, SMT DEF VBIdecode

LEMMA DecodedFour ==
  ASSUME NEW b, NEW n, NEW a \in High, NEW c \in High, NEW d \in High, NEW q \in Low,
         b[1] = a, b[2] = c, b[3] = d, b[4] = q, n = More(a, More(c, More(d, q)))
  PROVE  VBIdecode(b) = [len |-> 4, value |-> n]
<1>1. VBIlast(b) = 4
  <2>1. b[4] \in Nat /\ b[4] < 128 /\ 4 \in 1..4 /\ \A j \in 1 .. 4 - 1 : b[j] \in Nat /\ b[j] >= 128
    BY DigitValues
  <2> QED BY <2>1, LastDigit
<1>2. (a - 128) + 128 * (c - 128) + 16384 * (d - 128) + 2097152 * q = n
  BY SMT DEF High, Low, More
<1> QED BY <1>1, <1>2, DigitValues, SMT DEF VBIdecode

\* The length that was encoded is decoded, and how many bytes it took.
LEMMA LengthBack ==
  ASSUME NEW n \in Nat, n <= MaxLength, NEW r \in ByteText
  PROVE  LET e == MQTTPacket_encode(n)
         IN  /\ e \in ByteText /\ Len(e) \in 1..4 /\ VBIdecode(e \o r) = [len |-> Len(e), value |-> n]
             /\ Rest(e \o r, Len(e)) = r
<1> DEFINE e == MQTTPacket_encode(n)
<1>1. OneDigit(n, e) \/ TwoDigits(n, e) \/ ThreeDigits(n, e) \/ FourDigits(n, e)
  BY EncodedDigits
<1> HIDE DEF e
<1>2. e \in ByteText => \A i \in 1..Len(e) : (e \o r)[i] = e[i]
  BY JoinedText
<1>3. e \in ByteText /\ Len(e) \in 1..4 /\ VBIdecode(e \o r) = [len |-> Len(e), value |-> n]
  <2>1. CASE OneDigit(n, e)
    <3>1. n \in Low /\ e = <<n>>
      BY <2>1 DEF OneDigit
    <3>2. e \in ByteText /\ Len(e) = 1 /\ e[1] = n
      BY <3>1 DEF ByteText, Low
    <3>3. (e \o r)[1] = n
      <4>1. 1 \in 1..Len(e)
        BY <3>2
      <4>2. \A i \in 1..Len(e) : (e \o r)[i] = e[i]
        BY <1>2, <3>2
      <4> QED BY <3>2, <4>1, <4>2
    <3>4. VBIdecode(e \o r) = [len |-> 1, value |-> n]
      BY <3>1, <3>3, DecodedOne
    <3>5. 1 \in 1..4
      OBVIOUS
    <3> QED BY <3>2, <3>4, <3>5
  <2>2. CASE TwoDigits(n, e)
    <3>1. PICK a \in High, q \in Low : n = More(a, q) /\ e = <<a, q>>
      BY <2>2 DEF TwoDigits
    <3>2. e \in ByteText /\ Len(e) = 2 /\ e[1] = a /\ e[2] = q
      BY <3>1 DEF ByteText, Low, High
    <3>3. (e \o r)[1] = a /\ (e \o r)[2] = q
      <4>1. 1 \in 1..Len(e) /\ 2 \in 1..Len(e)
        BY <3>2
      <4>2. \A i \in 1..Len(e) : (e \o r)[i] = e[i]
        BY <1>2, <3>2
      <4> QED BY <3>2, <4>1, <4>2
    <3>4. VBIdecode(e \o r) = [len |-> 2, value |-> n]
      BY <3>1, <3>3, DecodedTwo
    <3>5. 2 \in 1..4
      OBVIOUS
    <3> QED BY <3>2, <3>4, <3>5
  <2>3. CASE ThreeDigits(n, e)
    <3>1. PICK a \in High, b \in High, q \in Low : n = More(a, More(b, q)) /\ e = <<a, b, q>>
      BY <2>3 DEF ThreeDigits
    <3>2. e \in ByteText /\ Len(e) = 3 /\ e[1] = a /\ e[2] = b /\ e[3] = q
      BY <3>1 DEF ByteText, Low, High
    <3>3. (e \o r)[1] = a /\ (e \o r)[2] = b /\ (e \o r)[3] = q
      <4>1. 1 \in 1..Len(e) /\ 2 \in 1..Len(e) /\ 3 \in 1..Len(e)
        BY <3>2
      <4>2. \A i \in 1..Len(e) : (e \o r)[i] = e[i]
        BY <1>2, <3>2
      <4> QED BY <3>2, <4>1, <4>2
    <3>4. VBIdecode(e \o r) = [len |-> 3, value |-> n]
      BY <3>1, <3>3, DecodedThree
    <3>5. 3 \in 1..4
      OBVIOUS
    <3> QED BY <3>2, <3>4, <3>5
  <2>4. CASE FourDigits(n, e)
    <3>1. PICK a \in High, b \in High, c \in High, q \in Low :
            n = More(a, More(b, More(c, q))) /\ e = <<a, b, c, q>>
      BY <2>4 DEF FourDigits
    <3>2. e \in ByteText /\ Len(e) = 4 /\ e[1] = a /\ e[2] = b /\ e[3] = c /\ e[4] = q
      BY <3>1 DEF ByteText, Low, High
    <3>3. (e \o r)[1] = a /\ (e \o r)[2] = b /\ (e \o r)[3] = c /\ (e \o r)[4] = q
      <4>1. 1 \in 1..Len(e) /\ 2 \in 1..Len(e) /\ 3 \in 1..Len(e) /\ 4 \in 1..Len(e)
        BY <3>2
      <4>2. \A i \in 1..Len(e) : (e \o r)[i] = e[i]
        BY <1>2, <3>2
      <4> QED BY <3>2, <4>1, <4>2
    <3>4. VBIdecode(e \o r) = [len |-> 4, value |-> n]
      BY <3>1, <3>3, DecodedFour
    <3>5. 4 \in 1..4
      OBVIOUS
    <3> QED BY <3>2, <3>4, <3>5
  <2> QED BY <1>1, <2>1, <2>2, <2>3, <2>4
<1>4. Rest(e \o r, Len(e)) = r
  BY <1>3, RestOf
<1> QED BY <1>3, <1>4 DEF e

----------------------------------------------------------------------------
(* Reading properties *)

\* A property is read as it was written.
Result(n, id, num, data, value) == {[len |-> n + 1, p |-> [id |-> id, num |-> num, data |-> data, value |-> value]]}

LEMMA ReadByType ==
  ASSUME NEW b, NEW id, id = b[1], NEW type, type = MQTTProperty_getType(id), NEW v, v = Rest(b, 1)
  PROVE  /\ type = "byte" => MQTTProperty_read(b) = Result(1, id, v[1], <<>>, <<>>)
         /\ type = "int2" => MQTTProperty_read(b) = Result(2, id, readInt(v), <<>>, <<>>)
         /\ type = "int4" => MQTTProperty_read(b) = Result(4, id, readInt4(v), <<>>, <<>>)
         /\ type = "vbi" => MQTTProperty_read(b) = Result(VBIdecode(v).len, id, VBIdecode(v).value, <<>>, <<>>)
         /\ type \in {"data", "utf"} /\ LenStringFits(v) =>
              MQTTProperty_read(b) = Result(2 + readInt(v), id, 0, LenStringRead(v), <<>>)
         /\ type = "pair" /\ LenStringFits(v) /\ LenStringFits(Rest(v, 2 + readInt(v))) =>
              MQTTProperty_read(b) = Result(4 + readInt(v) + readInt(Rest(v, 2 + readInt(v))), id, 0,
                                            LenStringRead(v), LenStringRead(Rest(v, 2 + readInt(v))))
BY DEF MQTTProperty_read, Result

LEMMA WriteByType ==
  ASSUME NEW p, NEW type, type = MQTTProperty_getType(p.id)
  PROVE  /\ type = "byte" => MQTTProperty_write(p) = writeChar(p.id) \o writeChar(p.num)
         /\ type = "int2" => MQTTProperty_write(p) = writeChar(p.id) \o writeInt(p.num)
         /\ type = "int4" => MQTTProperty_write(p) = writeChar(p.id) \o writeInt4(p.num)
         /\ type = "vbi" => MQTTProperty_write(p) = writeChar(p.id) \o MQTTPacket_encode(p.num)
         /\ type \in {"data", "utf"} => MQTTProperty_write(p) = writeChar(p.id) \o writeUTF(p.data)
         /\ type = "pair" => MQTTProperty_write(p) = writeChar(p.id) \o (writeUTF(p.data) \o writeUTF(p.value))
BY DEF MQTTProperty_write

LEMMA FieldsFit ==
  ASSUME NEW p, PropertyFits(p), NEW type, type = MQTTProperty_getType(p.id)
  PROVE  /\ p.id \in 0..255 /\ p = [id |-> p.id, num |-> p.num, data |-> p.data, value |-> p.value]
         /\ p.data \in ByteText /\ p.value \in ByteText /\ Len(p.data) \in Word /\ Len(p.value) \in Word
         /\ type \in {"byte", "int2", "int4", "vbi", "data", "utf", "pair"}
         /\ type = "byte" => p.num \in 0..255
         /\ type = "int2" => p.num \in Word
         /\ type = "vbi" => p.num \in Nat /\ p.num <= MaxLength
         /\ type \in {"data", "utf", "pair"} => p.num = 0
         /\ type \in {"byte", "int2", "int4", "vbi"} => p.data = <<>>
         /\ type # "pair" => p.value = <<>>
<1>1. /\ p \in Properties /\ type # "invalid" /\ p.num \in NumberOf(type)
      /\ p.data \in TextIf(type \in {"data", "utf", "pair"}) /\ p.value \in TextIf(type = "pair")
  BY DEF PropertyFits
<1>2. /\ p.id \in 0..255 /\ p = [id |-> p.id, num |-> p.num, data |-> p.data, value |-> p.value]
      /\ (type = "vbi" => p.num \in Nat /\ p.num <= MaxLength)
  BY <1>1 DEF Properties
<1>3. type \in {"byte", "int2", "int4", "vbi", "data", "utf", "pair"}
  BY <1>1, <1>2, TypesAre
<1>4. /\ type = "byte" => NumberOf(type) = 0..255
      /\ type = "int2" => NumberOf(type) = Word
      /\ type \in {"data", "utf", "pair"} => NumberOf(type) = {0}
  BY DEF NumberOf
<1>5. p.data \in ByteText /\ Len(p.data) \in Word /\ (type \in {"data", "utf", "pair"} \/ p.data = <<>>)
  BY <1>1 DEF TextIf
<1>6. p.value \in ByteText /\ Len(p.value) \in Word /\ (type = "pair" \/ p.value = <<>>)
  BY <1>1 DEF TextIf
<1>7. /\ type = "byte" => p.num \in 0..255
      /\ type = "int2" => p.num \in Word
      /\ type \in {"data", "utf", "pair"} => p.num = 0
  BY <1>1, <1>4
<1>8. type \in {"byte", "int2", "int4", "vbi"} => p.data = <<>>
  BY <1>5
<1> QED BY <1>2, <1>3, <1>5, <1>6, <1>7, <1>8

\* Of each type, whatever bytes follow.
LEMMA PropertyBack ==
  ASSUME NEW p, PropertyFits(p), MQTTProperty_getType(p.id) = "int4" => p.num \in Int31, NEW r \in ByteText
  PROVE  LET w == MQTTProperty_write(p)
         IN  w \in ByteText /\ Len(w) \in Nat /\ Len(w) >= 2 /\ MQTTProperty_read(w \o r) = {[len |-> Len(w), p |-> p]}
<1> DEFINE type == MQTTProperty_getType(p.id)
           w == MQTTProperty_write(p)
           Good(n) == w \in ByteText /\ Len(w) = n + 1 /\ n \in Nat /\ n >= 1 /\ MQTTProperty_read(w \o r) = {[len |-> n + 1, p |-> p]}
<1>1. /\ p.id \in 0..255 /\ p = [id |-> p.id, num |-> p.num, data |-> p.data, value |-> p.value]
      /\ p.data \in ByteText /\ p.value \in ByteText /\ Len(p.data) \in Word /\ Len(p.value) \in Word
      /\ type \in {"byte", "int2", "int4", "vbi", "data", "utf", "pair"}
      /\ type = "byte" => p.num \in 0..255
      /\ type = "int2" => p.num \in Word
      /\ type = "int4" => p.num \in Int31
      /\ type = "vbi" => p.num \in Nat /\ p.num <= MaxLength
      /\ type \in {"data", "utf", "pair"} => p.num = 0
      /\ type \in {"byte", "int2", "int4", "vbi"} => p.data = <<>>
      /\ type # "pair" => p.value = <<>>
  BY FieldsFit
<1>0. type = MQTTProperty_getType(p.id)
  OBVIOUS
<1> HIDE DEF type
<1>2. ASSUME NEW v \in ByteText
      PROVE  /\ writeChar(p.id) \o v \in ByteText /\ Len(writeChar(p.id) \o v) = 1 + Len(v) /\ Len(v) \in Nat
             /\ (writeChar(p.id) \o v) \o r = writeChar(p.id) \o (v \o r)
             /\ (writeChar(p.id) \o (v \o r))[1] = p.id /\ Rest(writeChar(p.id) \o (v \o r), 1) = v \o r
  <2>1. writeChar(p.id) \in ByteText /\ v \o r \in ByteText
    BY <1>1, OneBack, JoinedText
  <2>2. Len(v) \in Nat
    BY JoinedText
  <2>3. /\ writeChar(p.id) \o v \in ByteText /\ Len(writeChar(p.id) \o v) = 1 + Len(v)
        /\ (writeChar(p.id) \o (v \o r))[1] = p.id /\ Rest(writeChar(p.id) \o (v \o r), 1) = v \o r
    BY <1>1, <2>1, OneBack
  <2>4. (writeChar(p.id) \o v) \o r = writeChar(p.id) \o (v \o r)
    BY <2>1, Associative
  <2> QED BY <2>2, <2>3, <2>4
<1>3. ASSUME NEW v \in ByteText, w = writeChar(p.id) \o v, Len(v) >= 1,
             MQTTProperty_read(writeChar(p.id) \o (v \o r)) = Result(Len(v), p.id, p.num, p.data, p.value)
      PROVE  Good(Len(v))
  <2>1. w \in ByteText /\ Len(w) = 1 + Len(v) /\ Len(v) \in Nat /\ w \o r = writeChar(p.id) \o (v \o r)
    BY <1>2, <1>3
  <2>2. 1 + Len(v) = Len(v) + 1
    BY <2>1
  <2>3. Result(Len(v), p.id, p.num, p.data, p.value) = {[len |-> Len(v) + 1, p |-> p]}
    BY <1>1 DEF Result
  <2> HIDE DEF w
  <2> QED BY <1>3, <2>1, <2>2, <2>3
<1> HIDE DEF w
<1>4. ASSUME type = "byte" PROVE \E n : Good(n)
  <2> DEFINE v == writeChar(p.num)
  <2>1. v \in ByteText /\ Len(v) = 1 /\ (v \o r)[1] = p.num
    BY <1>1, <1>4, OneBack
  <2>2. w = writeChar(p.id) \o v
    BY <1>4, <1>0, WriteByType DEF w
  <2> HIDE DEF v
  <2>3. MQTTProperty_read(writeChar(p.id) \o (v \o r)) = Result(1, p.id, p.num, <<>>, <<>>)
    <3> DEFINE b0 == writeChar(p.id) \o (v \o r)
               x == v \o r
    <3>1. b0[1] = p.id /\ Rest(b0, 1) = x
      BY <1>2, <2>1
    <3> HIDE DEF b0
    <3>2. MQTTProperty_read(b0) = Result(1, p.id, p.num, <<>>, <<>>)
      BY <1>4, <2>1, <1>0, ReadByType, <3>1
    <3> QED BY <3>2 DEF b0
  <2>4. Len(v) >= 1
    BY <2>1
  <2>5. Good(Len(v))
    BY <1>1, <1>3, <1>4, <2>1, <2>2, <2>3, <2>4
  <2> QED BY <2>5
<1>5. ASSUME type = "int2" PROVE \E n : Good(n)
  <2> DEFINE v == writeInt(p.num)
  <2>1. v \in ByteText /\ Len(v) = 2 /\ readInt(v \o r) = p.num
    BY <1>1, <1>5, IntBack
  <2>2. w = writeChar(p.id) \o v
    BY <1>5, <1>0, WriteByType DEF w
  <2> HIDE DEF v
  <2>3. MQTTProperty_read(writeChar(p.id) \o (v \o r)) = Result(2, p.id, p.num, <<>>, <<>>)
    <3> DEFINE b0 == writeChar(p.id) \o (v \o r)
               x == v \o r
    <3>1. b0[1] = p.id /\ Rest(b0, 1) = x
      BY <1>2, <2>1
    <3> HIDE DEF b0
    <3>2. MQTTProperty_read(b0) = Result(2, p.id, p.num, <<>>, <<>>)
      BY <1>5, <2>1, <1>0, ReadByType, <3>1
    <3> QED BY <3>2 DEF b0
  <2>4. Len(v) >= 1
    BY <2>1
  <2>5. Good(Len(v))
    BY <1>1, <1>3, <1>5, <2>1, <2>2, <2>3, <2>4
  <2> QED BY <2>5
<1>6. ASSUME type = "int4" PROVE \E n : Good(n)
  <2> DEFINE v == writeInt4(p.num)
  <2>1. v \in ByteText /\ Len(v) = 4 /\ readInt4(v \o r) = p.num
    BY <1>1, <1>6, Int4Back
  <2>2. w = writeChar(p.id) \o v
    BY <1>6, <1>0, WriteByType DEF w
  <2> HIDE DEF v
  <2>3. MQTTProperty_read(writeChar(p.id) \o (v \o r)) = Result(4, p.id, p.num, <<>>, <<>>)
    <3> DEFINE b0 == writeChar(p.id) \o (v \o r)
               x == v \o r
    <3>1. b0[1] = p.id /\ Rest(b0, 1) = x
      BY <1>2, <2>1
    <3> HIDE DEF b0
    <3>2. MQTTProperty_read(b0) = Result(4, p.id, p.num, <<>>, <<>>)
      BY <1>6, <2>1, <1>0, ReadByType, <3>1
    <3> QED BY <3>2 DEF b0
  <2>4. Len(v) >= 1
    BY <2>1
  <2>5. Good(Len(v))
    BY <1>1, <1>3, <1>6, <2>1, <2>2, <2>3, <2>4
  <2> QED BY <2>5
<1>7. ASSUME type = "vbi" PROVE \E n : Good(n)
  <2> DEFINE v == MQTTPacket_encode(p.num)
  <2>1. v \in ByteText /\ Len(v) \in 1..4 /\ VBIdecode(v \o r) = [len |-> Len(v), value |-> p.num]
    BY <1>1, <1>7, LengthBack
  <2>2. w = writeChar(p.id) \o v
    BY <1>7, <1>0, WriteByType DEF w
  <2> HIDE DEF v
  <2>3. VBIdecode(v \o r).len = Len(v) /\ VBIdecode(v \o r).value = p.num
    BY <2>1
  <2>4. MQTTProperty_read(writeChar(p.id) \o (v \o r)) = Result(Len(v), p.id, p.num, <<>>, <<>>)
    <3> DEFINE b0 == writeChar(p.id) \o (v \o r)
               x == v \o r
    <3>1. b0[1] = p.id /\ Rest(b0, 1) = x
      BY <1>2, <2>1
    <3> HIDE DEF b0
    <3>2. MQTTProperty_read(b0) = Result(Len(v), p.id, p.num, <<>>, <<>>)
      BY <1>7, <2>1, <2>3, <1>0, ReadByType, <3>1
    <3> QED BY <3>2 DEF b0
  <2>5. Len(v) >= 1
    BY <2>1
  <2>6. Good(Len(v))
    BY <1>1, <1>3, <1>7, <2>1, <2>2, <2>4, <2>5
  <2> QED BY <2>6
<1>8. ASSUME type \in {"data", "utf"} PROVE \E n : Good(n)
  <2> DEFINE v == writeUTF(p.data)
  <2>1. /\ v \in ByteText /\ Len(v) = 2 + Len(p.data) /\ LenStringFits(v \o r)
        /\ LenStringRead(v \o r) = p.data /\ readInt(v \o r) = Len(p.data)
    BY <1>1, TextBack
  <2>2. w = writeChar(p.id) \o v
    BY <1>8, <1>0, WriteByType DEF w
  <2> HIDE DEF v
  <2>3. MQTTProperty_read(writeChar(p.id) \o (v \o r)) = Result(2 + Len(p.data), p.id, 0, p.data, <<>>)
    <3> DEFINE b0 == writeChar(p.id) \o (v \o r)
               x == v \o r
    <3>1. b0[1] = p.id /\ Rest(b0, 1) = x
      BY <1>2, <2>1
    <3> HIDE DEF b0
    <3>2. MQTTProperty_read(b0) = Result(2 + Len(p.data), p.id, 0, p.data, <<>>)
      BY <1>8, <2>1, <1>0, ReadByType, <3>1
    <3> QED BY <3>2 DEF b0
  <2>4. Len(v) >= 1
    BY <1>1, <2>1, JoinedText
  <2>5. Good(Len(v))
    BY <1>1, <1>3, <1>8, <2>1, <2>2, <2>3, <2>4
  <2> QED BY <2>5
<1>9. ASSUME type = "pair" PROVE \E n : Good(n)
  <2> DEFINE a == writeUTF(p.data)
             b == writeUTF(p.value)
             v == a \o b
  <2>1. b \in ByteText /\ Len(b) = 2 + Len(p.value) /\ b \o r \in ByteText
    BY <1>1, TextBack
  <2>2. LenStringFits(b \o r) /\ LenStringRead(b \o r) = p.value /\ readInt(b \o r) = Len(p.value)
    BY <1>1, TextBack
  <2>3. /\ a \in ByteText /\ Len(a) = 2 + Len(p.data) /\ LenStringFits(a \o (b \o r))
        /\ LenStringRead(a \o (b \o r)) = p.data /\ readInt(a \o (b \o r)) = Len(p.data)
        /\ Rest(a \o (b \o r), 2 + Len(p.data)) = b \o r
    BY <1>1, <2>1, TextBack
  <2>4. w = writeChar(p.id) \o v
    BY <1>9, <1>0, WriteByType DEF w
  <2> HIDE DEF a, b
  <2>5. v \in ByteText /\ Len(v) = Len(a) + Len(b) /\ v \o r = a \o (b \o r)
    <3>1. v \in ByteText /\ Len(v) = Len(a) + Len(b)
      BY <2>1, <2>3, JoinedText
    <3>2. v \o r = a \o (b \o r)
      BY <2>1, <2>3, Associative
    <3> QED BY <3>1, <3>2
  <2>6. Len(v) = 4 + Len(p.data) + Len(p.value)
    <3>1. Len(p.data) \in Nat /\ Len(p.value) \in Nat
      BY <1>1, JoinedText
    <3>2. \A m, n \in Nat : (2 + m) + (2 + n) = 4 + m + n
      OBVIOUS
    <3>3. Len(v) = (2 + Len(p.data)) + (2 + Len(p.value))
      BY <2>1, <2>3, <2>5
    <3> QED BY <3>1, <3>2, <3>3
  <2> HIDE DEF v
  <2>7. MQTTProperty_read(writeChar(p.id) \o (v \o r)) = Result(4 + Len(p.data) + Len(p.value), p.id, 0, p.data, p.value)
    <3> DEFINE b0 == writeChar(p.id) \o (v \o r)
               x == v \o r
    <3>1. b0[1] = p.id /\ Rest(b0, 1) = x
      BY <1>2, <2>5
    <3> HIDE DEF b0
    <3>2. MQTTProperty_read(b0) = Result(4 + Len(p.data) + Len(p.value), p.id, 0, p.data, p.value)
      BY <1>9, <2>2, <2>3, <2>5, <1>0, ReadByType, <3>1
    <3> QED BY <3>2 DEF b0
  <2>8. Len(v) >= 1
    BY <1>1, <2>6, JoinedText
  <2>9. Good(Len(v))
    BY <1>1, <1>3, <1>9, <2>4, <2>5, <2>6, <2>7, <2>8
  <2> QED BY <2>9
<1>10. \E n : Good(n)
  <2> HIDE DEF Good
  <2> QED BY <1>1, <1>4, <1>5, <1>6, <1>7, <1>8, <1>9
<1>11. PICK n : Good(n)
  BY <1>10
<1> QED BY <1>11 DEF w

----------------------------------------------------------------------------
(* Reading lists of properties *)

\* The library's copy of a list of properties has them all, in order.
LEMMA CopyIs ==
  ASSUME NEW entries \in PropertyLists, \A i \in DOMAIN entries : MQTTProperty_getType(entries[i].id) # "invalid"
  PROVE  PropertiesOf(entries).array = entries
<1> DEFINE n == Len(entries)
           W(g) == [k \in 0..n |-> IF k = 0 THEN NoProperties ELSE MQTTProperties_add(g[k - 1], entries[k])]
           copied == CHOOSE g : g = W(g)
           Started(a, k) == a \in Seq(Properties) /\ Len(a) = k /\ \A i \in 1..k : a[i] = entries[i]
<1>1. n \in Nat /\ entries \in Seq(Properties) /\ \A i \in 1..n : entries[i] \in Properties /\ i \in DOMAIN entries
  BY DEF PropertyLists
<1>2. \E g : g = W(g)
  <2>1. PICK g : Copied(g, entries, n)
    BY <1>1, CopiedExist
  <2> QED BY <2>1 DEF Copied
<1>3. copied = W(copied)
  BY <1>2
<1>4. PropertiesOf(entries) = copied[n]
  BY DEF PropertiesOf, MQTTProperties_copy
<1> HIDE DEF copied, n
<1>5. \A k \in 0..n : copied[k] = IF k = 0 THEN NoProperties ELSE MQTTProperties_add(copied[k - 1], entries[k])
  BY <1>3
<1> HIDE DEF W
<1> DEFINE Bad == {k \in 0..n : ~Started(copied[k].array, k)}
<1>6. ASSUME Bad # {} PROVE FALSE
  <2>1. PICK m \in Bad : \A j \in Bad : m <= j
    <3>1. Bad \in SUBSET Nat
      OBVIOUS
    <3> HIDE DEF Bad
    <3> QED BY <1>6, <3>1, LeastOf
  <2>2. m \in 0..n /\ ~Started(copied[m].array, m)
    OBVIOUS
  <2>3. CASE m = 0
    <3>1. NoProperties.array = <<>> /\ Len(<<>>) = 0 /\ <<>> \in Seq(Properties)
      BY DEF NoProperties
    <3>2. Started(NoProperties.array, 0)
      BY <3>1
    <3>3. copied[m] = NoProperties
      BY <1>5, <2>2, <2>3
    <3> QED BY <2>2, <2>3, <3>2, <3>3
  <2>4. CASE m # 0
    <3>1. m - 1 \in 0..n /\ m - 1 \notin Bad /\ m \in 1..n
      BY <1>1, <2>1, <2>2, <2>4
    <3>2. Started(copied[m - 1].array, m - 1) /\ entries[m] \in Properties /\ m \in DOMAIN entries
      BY <1>1, <3>1
    <3>3. copied[m].array = Append(copied[m - 1].array, entries[m])
      <4>1. copied[m] = MQTTProperties_add(copied[m - 1], entries[m])
        BY <1>5, <2>2, <2>4
      <4>2. MQTTProperty_getType(entries[m].id) # "invalid"
        BY <3>2
      <4> QED BY <4>1, <4>2 DEF MQTTProperties_add
    <3> DEFINE a == copied[m - 1].array
    <3>4. a \in Seq(Properties) /\ Len(a) = m - 1 /\ \A i \in 1 .. m - 1 : a[i] = entries[i]
      BY <3>2
    <3> HIDE DEF a
    <3>5. Append(a, entries[m]) \in Seq(Properties) /\ Len(Append(a, entries[m])) = m
          /\ \A i \in 1..m : Append(a, entries[m])[i] = entries[i]
      BY <1>1, <3>1, <3>2, <3>4
    <3> QED BY <2>2, <3>3, <3>5 DEF a
  <2> QED BY <2>3, <2>4
<1>7. Started(copied[n].array, n)
  BY <1>1, <1>6
<1>8. Len(entries) = n
  BY DEF n
<1> QED BY <1>1, <1>4, <1>7, <1>8, SameSeq

\* What is left of a sequence of texts after each of them.
Tails(T, parts, n) ==
  /\ T \in [0..n -> ByteText] /\ T[n] = <<>>
  /\ \A k \in 0 .. n - 1 : T[k] = parts[k + 1] \o T[k + 1]

\* The strings that are left of a list of strings.
LEMMA TailsExist ==
  ASSUME NEW n \in Nat, NEW parts, Len(parts) = n, DOMAIN parts = 1..n, parts \in Seq(ByteText)
  PROVE  \E T : Tails(T, parts, n) /\ T[0] = FlattenSeq(parts)
<1>1. \A i \in 1..n : parts[i] \in ByteText
  OBVIOUS
<1>2. CASE n = 0
  <2> DEFINE T == [k \in 0..0 |-> <<>>]
  <2>1. FlattenSeq(parts) = <<>>
    BY <1>2 DEF FlattenSeq
  <2>2. T \in [0..0 -> ByteText] /\ T[0] = <<>> /\ 0 .. 0 - 1 = {}
    BY DEF ByteText
  <2>3. Tails(T, parts, 0)
    BY <2>2 DEF Tails
  <2> QED BY <1>2, <2>1, <2>2, <2>3
<1>3. CASE n # 0
  <2> DEFINE W(g) == [i \in 1..n |-> IF i = 1 THEN parts[i] ELSE g[i - 1] \o parts[i]]
             flatten == CHOOSE g : g = W(g)
  <2>1. \E g : g = W(g)
    <3>1. PICK g : Flattened(g, parts, n)
      BY FlattenedExist
    <3> QED BY <3>1 DEF Flattened
  <2>2. flatten = W(flatten)
    BY <2>1, ZenonT(60)
  <2>3. FlattenSeq(parts) = flatten[n]
    BY <1>3 DEF FlattenSeq
  <2> HIDE DEF flatten
  <2>4. \A i \in 1..n : flatten[i] = IF i = 1 THEN parts[i] ELSE flatten[i - 1] \o parts[i]
    BY <2>2
  <2> HIDE DEF W
  <2>5. \A i \in 1..n : flatten[i] \in ByteText
    <3> DEFINE Bad == {i \in 1..n : flatten[i] \notin ByteText}
    <3> SUFFICES ASSUME Bad # {} PROVE FALSE
      OBVIOUS
    <3>1. PICK m \in Bad : \A j \in Bad : m <= j
      <4>1. Bad \in SUBSET Nat
        OBVIOUS
      <4> HIDE DEF Bad
      <4> QED BY <4>1, LeastOf
    <3>2. m \in 1..n /\ flatten[m] \notin ByteText
      OBVIOUS
    <3>3. m # 1
      BY <1>1, <2>4, <3>2
    <3>4. m - 1 \in 1..n /\ m - 1 \notin Bad
      BY <3>1, <3>2, <3>3
    <3>5. flatten[m] = flatten[m - 1] \o parts[m] /\ flatten[m - 1] \in ByteText /\ parts[m] \in ByteText
      BY <1>1, <2>4, <3>2, <3>3, <3>4
    <3> QED BY <3>2, <3>5, JoinedText
  <2> DEFINE F == flatten[n]
             R(k) == Rest(F, Len(flatten[k]))
             Splits(k) == R(k) \in ByteText /\ F = flatten[k] \o R(k)
  <2>6. n \in 1..n /\ F \in ByteText
    BY <1>3, <2>5
  <2>7. ASSUME NEW k \in 1..n, NEW t \in ByteText, F = flatten[k] \o t PROVE R(k) = t /\ Splits(k)
    <3>1. flatten[k] \in ByteText
      BY <2>5
    <3>2. Rest(flatten[k] \o t, Len(flatten[k])) = t
      BY <3>1, RestOf
    <3> QED BY <2>7, <3>2
  <2>8. ASSUME NEW k \in 1 .. n - 1, Splits(k + 1) PROVE Splits(k) /\ R(k) = parts[k + 1] \o R(k + 1)
    <3>1. k \in 1..n /\ k + 1 \in 1..n /\ k + 1 # 1 /\ (k + 1) - 1 = k
      OBVIOUS
    <3>2. flatten[k] \in ByteText /\ parts[k + 1] \in ByteText /\ flatten[k + 1] = flatten[k] \o parts[k + 1]
      BY <1>1, <2>4, <2>5, <3>1
    <3>3. F = (flatten[k] \o parts[k + 1]) \o R(k + 1) /\ R(k + 1) \in ByteText
      BY <2>8, <3>2
    <3> HIDE DEF F, R
    <3>4. F = flatten[k] \o (parts[k + 1] \o R(k + 1)) /\ parts[k + 1] \o R(k + 1) \in ByteText
      <4>1. parts[k + 1] \o R(k + 1) \in ByteText
        BY <3>2, <3>3, JoinedText
      <4>2. (flatten[k] \o parts[k + 1]) \o R(k + 1) = flatten[k] \o (parts[k + 1] \o R(k + 1))
        BY <3>2, <3>3, Associative
      <4> QED BY <3>3, <4>1, <4>2
    <3> HIDE DEF Splits
    <3> QED BY <2>7, <3>1, <3>4
  <2>9. Splits(n) /\ R(n) = <<>>
    <3>1. F = flatten[n] \o <<>> /\ <<>> \in ByteText
      BY <2>6, NothingJoined
    <3> HIDE DEF F, R, Splits
    <3> QED BY <2>6, <2>7, <3>1
  <2> HIDE DEF R, Splits, F
  <2>10. \A k \in 1..n : Splits(k)
    <3> DEFINE Bad == {j \in 0 .. n - 1 : ~Splits(n - j)}
    <3>1. ASSUME Bad # {} PROVE FALSE
      <4>1. PICK m \in Bad : \A j \in Bad : m <= j
        <5>1. Bad \in SUBSET Nat
          OBVIOUS
        <5> HIDE DEF Bad
        <5> QED BY <3>1, <5>1, LeastOf
      <4>2. m \in 0 .. n - 1 /\ ~Splits(n - m)
        OBVIOUS
      <4>3. m # 0
        BY <2>9, <4>2
      <4>4. m - 1 \in 0 .. n - 1 /\ m - 1 \notin Bad /\ n - m \in 1 .. n - 1 /\ n - (m - 1) = (n - m) + 1
        BY <4>1, <4>2, <4>3
      <4>5. Splits((n - m) + 1)
        BY <4>4
      <4> QED BY <2>8, <4>2, <4>4, <4>5
    <3>2. ASSUME NEW k \in 1..n PROVE Splits(k)
      <4>1. n - k \in 0 .. n - 1 /\ n - (n - k) = k
        OBVIOUS
      <4> QED BY <3>1, <4>1
    <3> QED BY <3>2
  <2> DEFINE T == [k \in 0..n |-> IF k = 0 THEN F ELSE R(k)]
  <2>11. \A k \in 1..n : R(k) \in ByteText
    BY <2>10 DEF Splits
  <2>12. T \in [0..n -> ByteText] /\ T[0] = F /\ \A k \in 1..n : T[k] = R(k)
    BY <2>6, <2>11
  <2> HIDE DEF T
  <2>13. ASSUME NEW k \in 0 .. n - 1 PROVE T[k] = parts[k + 1] \o T[k + 1]
    <3>1. k + 1 \in 1..n
      OBVIOUS
    <3>2. CASE k = 0
      <4>1. F = flatten[1] \o R(1) /\ flatten[1] = parts[1] /\ 1 \in 1..n
        BY <2>4, <2>10, <3>1, <3>2 DEF Splits
      <4> QED BY <2>12, <3>2, <4>1
    <3>3. CASE k # 0
      <4>1. k \in 1 .. n - 1 /\ k \in 1..n
        BY <3>3
      <4> QED BY <2>8, <2>10, <2>12, <3>1, <4>1
    <3> QED BY <3>2, <3>3
  <2>14. Tails(T, parts, n)
    BY <2>6, <2>9, <2>12, <2>13 DEF Tails
  <2>15. T[0] = FlattenSeq(parts)
    BY <2>3, <2>12 DEF F
  <2> QED BY <2>14, <2>15
<1> QED BY <1>2, <1>3

\* The loop of MQTTProperties_read has a state after each round.
LEMMA ReadingExists ==
  ASSUME NEW n \in Nat, NEW first
  PROVE  \E g : g = [k \in 0..n |-> IF k = 0 THEN first ELSE ReadNext(g[k - 1])]
<1> DEFINE Reading(g, k) == g = [m \in 0..k |-> IF m = 0 THEN first ELSE ReadNext(g[m - 1])]
           Bad == {k \in Nat : ~ \E g : Reading(g, k)}
<1>1. ASSUME Bad # {} PROVE FALSE
  <2>1. PICK k \in Bad : \A j \in Bad : k <= j
    BY <1>1, LeastOf
  <2>2. CASE k = 0
    <3> DEFINE g == [i \in 0..0 |-> first]
    <3>1. Reading(g, 0)
      OBVIOUS
    <3> HIDE DEF Reading
    <3> QED BY <2>2, <3>1
  <2>3. CASE k # 0
    <3>1. k - 1 \in Nat /\ k - 1 \notin Bad /\ k \in Nat
      BY <2>1, <2>3
    <3>2. PICK g : Reading(g, k - 1)
      BY <3>1
    <3> HIDE DEF Bad
    <3> DEFINE Step(f, m) == IF m = 0 THEN first ELSE ReadNext(f[m - 1])
               h == [m \in 0..k |-> IF m = k THEN Step(g, m) ELSE g[m]]
    <3>3. \A m \in 0 .. k - 1 : g[m] = Step(g, m)
      BY <3>2
    <3>4. ASSUME NEW m \in 0..k
          PROVE  h[m] = Step(h, m)
      <4>1. h[m] = Step(g, m)
        BY <3>1, <3>3
      <4>2. CASE m = 0
        BY <4>1, <4>2
      <4>3. CASE m # 0
        <5>1. m - 1 \in 0..k /\ m - 1 # k
          BY <3>1, <4>3
        <5>2. h[m - 1] = g[m - 1]
          BY <5>1
        <5> QED BY <4>1, <4>3, <5>2
      <4> QED BY <4>2, <4>3
    <3>5. h = [m \in 0..k |-> h[m]]
      OBVIOUS
    <3> HIDE DEF h
    <3>6. h = [m \in 0..k |-> Step(h, m)]
      BY <3>4, <3>5
    <3>7. Reading(h, k)
      BY <3>6
    <3> HIDE DEF Reading
    <3> QED BY <3>7 DEF Bad
  <2> QED BY <2>2, <2>3
<1> QED BY <1>1

LEMMA OnlyOf == ASSUME NEW x PROVE Only({x}) = x
BY DEF Only

\* the k-th state of the reading of a list: k properties are read
ReadUpTo(s, k, entries, T, r) ==
  /\ s.array \in Seq(Properties) /\ Len(s.array) = k /\ \A i \in 1..k : s.array[i] = entries[i]
  /\ s.left = Len(T[k]) /\ s.rest = T[k] \o r

ListFits(entries) ==
  /\ entries \in PropertyLists
  /\ \A i \in DOMAIN entries :
       PropertyFits(entries[i]) /\ (MQTTProperty_getType(entries[i].id) = "int4" => entries[i].num \in Int31)

\* A round reads one property, and none when no bytes are left.
LEMMA NextAt ==
  ASSUME NEW entries, ListFits(entries), NEW n, n = Len(entries), NEW T, Tails(T, Written(entries), n), NEW r \in ByteText,
         NEW s, NEW k \in 0..n, ReadUpTo(s, k, entries, T, r)
  PROVE  IF k = n THEN ReadNext(s) = s ELSE ReadUpTo(ReadNext(s), k + 1, entries, T, r)
<1>1. n \in Nat /\ DOMAIN entries = 1..n /\ entries \in Seq(Properties) /\ \A i \in 1..n : entries[i] \in Properties
  BY DEF ListFits, PropertyLists
<1>2. CASE k = n
  <2>1. s.left = 0
    BY <1>2 DEF ReadUpTo, Tails
  <2> QED BY <1>2, <2>1 DEF ReadNext
<1>3. CASE k # n
  <2> DEFINE p == entries[k + 1]
             w == MQTTProperty_write(p)
             t == T[k + 1]
  <2>1. k + 1 \in 1..n /\ k \in 0 .. n - 1 /\ k + 1 \in 0..n
    BY <1>1, <1>3
  <2>2. T[k] = w \o t /\ t \in ByteText
    BY <1>1, <2>1 DEF Tails, Written
  <2>3. PropertyFits(p) /\ (MQTTProperty_getType(p.id) = "int4" => p.num \in Int31) /\ p \in Properties
    BY <1>1, <2>1 DEF ListFits
  <2> HIDE DEF t, w, p
  <2>4. t \o r \in ByteText /\ Len(t) \in Nat
    BY <2>2, JoinedText
  <2>5. w \in ByteText /\ Len(w) \in Nat /\ Len(w) >= 2 /\ MQTTProperty_read(w \o (t \o r)) = {[len |-> Len(w), p |-> p]}
    BY <2>3, <2>4, PropertyBack DEF w
  <2>6. (w \o t) \o r = w \o (t \o r) /\ Len(w \o t) = Len(w) + Len(t) /\ Rest(w \o (t \o r), Len(w)) = t \o r
    <3>1. Len(w \o t) = Len(w) + Len(t)
      BY <2>2, <2>5, JoinedText
    <3>2. (w \o t) \o r = w \o (t \o r)
      BY <2>2, <2>5, Associative
    <3>3. Rest(w \o (t \o r), Len(w)) = t \o r
      BY <2>4, <2>5, RestOf
    <3> QED BY <3>1, <3>2, <3>3
  <2>7. s.rest = w \o (t \o r) /\ s.left = Len(w) + Len(t) /\ s.array \in Seq(Properties) /\ Len(s.array) = k
        /\ \A i \in 1..k : s.array[i] = entries[i]
    BY <2>2, <2>6 DEF ReadUpTo
  <2> DEFINE next == ReadNext(s)
  <2>8. next.array = Append(s.array, p) /\ next.left = s.left - Len(w) /\ next.rest = t \o r
    <3> DEFINE x == [len |-> Len(w), p |-> p]
    <3>1. MQTTProperty_read(s.rest) = {x} /\ Only({x}) = x /\ {x} # {} /\ x.len = Len(w) /\ x.p = p
      BY <2>5, <2>7, OnlyOf
    <3>2. s.left # 0
      BY <2>4, <2>5, <2>7
    <3> HIDE DEF x
    <3> QED BY <2>6, <2>7, <3>1, <3>2 DEF ReadNext
  <2> HIDE DEF next
  <2>9. next.left = Len(t)
    BY <2>4, <2>5, <2>7, <2>8
  <2>10. /\ Append(s.array, p) \in Seq(Properties) /\ Len(Append(s.array, p)) = k + 1
         /\ \A i \in 1 .. k + 1 : Append(s.array, p)[i] = entries[i]
    <3>1. entries[k + 1] = p
      BY DEF p
    <3> DEFINE a == s.array
    <3>2. a \in Seq(Properties) /\ Len(a) = k /\ \A i \in 1..k : a[i] = entries[i]
      BY <2>7
    <3> HIDE DEF a
    <3>3. Append(a, p) \in Seq(Properties) /\ Len(Append(a, p)) = k + 1 /\ \A i \in 1 .. k + 1 : Append(a, p)[i] = entries[i]
      BY <2>1, <2>3, <3>1, <3>2
    <3> QED BY <3>3 DEF a
  <2>11. ReadUpTo(next, k + 1, entries, T, r)
    BY <2>8, <2>9, <2>10 DEF ReadUpTo, t
  <2> QED BY <1>3, <2>11 DEF next
<1> QED BY <1>2, <1>3

\* The properties of a list are as many bytes as are left of them, two at least each.
LEMMA EnoughBytes ==
  ASSUME NEW entries, ListFits(entries), NEW n, n = Len(entries), NEW T, Tails(T, Written(entries), n)
  PROVE  Len(T[0]) \in Nat /\ 2 * n <= Len(T[0])
<1>1. n \in Nat /\ DOMAIN entries = 1..n
  BY DEF ListFits, PropertyLists
<1>2. \A k \in 0..n : T[k] \in ByteText /\ Len(T[k]) \in Nat
  BY JoinedText DEF Tails
<1> DEFINE Bad == {j \in 0..n : ~(2 * j <= Len(T[n - j]))}
<1>3. ASSUME Bad # {} PROVE FALSE
  <2>1. PICK m \in Bad : \A j \in Bad : m <= j
    <3>1. Bad \in SUBSET Nat
      OBVIOUS
    <3> HIDE DEF Bad
    <3> QED BY <1>3, <3>1, LeastOf
  <2>2. m \in 0..n /\ ~(2 * m <= Len(T[n - m]))
    OBVIOUS
  <2>3. m # 0
    BY <1>1, <1>2, <2>2
  <2>4. m - 1 \in 0..n /\ m - 1 \notin Bad /\ n - m \in 0 .. n - 1 /\ n - (m - 1) = (n - m) + 1 /\ (n - m) + 1 \in 1..n
    <3>1. m - 1 \in 0..n /\ ~(m <= m - 1) /\ n - m \in 0 .. n - 1 /\ n - (m - 1) = (n - m) + 1 /\ (n - m) + 1 \in 1..n
      <4> HIDE DEF Bad
      <4> QED BY <1>1, <2>2, <2>3
    <3> HIDE DEF Bad
    <3> QED BY <2>1, <3>1
  <2> DEFINE k == n - m
             w == MQTTProperty_write(entries[k + 1])
             t == T[k + 1]
  <2>5. 2 * (m - 1) <= Len(t)
    BY <2>4
  <2>6. T[k] = w \o t
    BY <1>1, <2>4 DEF Tails, Written
  <2>7. PropertyFits(entries[k + 1]) /\ (MQTTProperty_getType(entries[k + 1].id) = "int4" => entries[k + 1].num \in Int31)
    BY <1>1, <2>4 DEF ListFits
  <2>8. t \in ByteText /\ Len(t) \in Nat
    BY <1>2, <2>4
  <2>9. w \in ByteText /\ Len(w) \in Nat /\ Len(w) >= 2
    <3> HIDE DEF t, k
    <3> QED BY <2>7, <2>8, PropertyBack
  <2> HIDE DEF w, t, k
  <2>10. Len(T[k]) = Len(w) + Len(t)
    BY <2>6, <2>8, <2>9, JoinedText
  <2>11. 2 * m <= Len(T[k])
    BY <1>1, <2>2, <2>5, <2>8, <2>9, <2>10
  <2> QED BY <2>2, <2>11 DEF k
<1>4. n \in 0..n /\ n - n = 0 /\ 0 \in 0..n
  BY <1>1
<1> QED BY <1>2, <1>3, <1>4

\* There are rounds enough for all the properties.
LEMMA ReadingEnds ==
  ASSUME NEW entries, ListFits(entries), NEW n, n = Len(entries), NEW T, Tails(T, Written(entries), n), NEW r \in ByteText,
         NEW N \in Nat, n <= N, NEW first, ReadUpTo(first, 0, entries, T, r), NEW read,
         \A k \in 0..N : read[k] = IF k = 0 THEN first ELSE ReadNext(read[k - 1])
  PROVE  ReadUpTo(read[N], n, entries, T, r)
<1>1. n \in Nat
  BY DEF ListFits, PropertyLists
<1> DEFINE least(k) == IF k < n THEN k ELSE n
           Bad == {k \in 0..N : ~ReadUpTo(read[k], least(k), entries, T, r)}
<1>2. ASSUME Bad # {} PROVE FALSE
  <2>1. PICK m \in Bad : \A j \in Bad : m <= j
    <3>1. Bad \in SUBSET Nat
      OBVIOUS
    <3> HIDE DEF Bad
    <3> QED BY <1>2, <3>1, LeastOf
  <2>2. m \in 0..N /\ ~ReadUpTo(read[m], least(m), entries, T, r)
    OBVIOUS
  <2>3. CASE m = 0
    <3>1. least(0) = 0 /\ read[0] = first
      BY <1>1, <2>2, <2>3
    <3> HIDE DEF least
    <3> QED BY <2>2, <2>3, <3>1
  <2>4. CASE m # 0
    <3>1. m - 1 \in 0..N /\ m - 1 \notin Bad
      BY <2>1, <2>2, <2>4
    <3>2. ReadUpTo(read[m - 1], least(m - 1), entries, T, r) /\ read[m] = ReadNext(read[m - 1])
      BY <2>2, <2>4, <3>1
    <3>3. least(m - 1) \in 0..n /\ (least(m - 1) = n => least(m) = n) /\ (least(m - 1) # n => least(m) = least(m - 1) + 1)
      BY <1>1, <2>2, <2>4
    <3> HIDE DEF least, Bad
    <3>4. IF least(m - 1) = n THEN ReadNext(read[m - 1]) = read[m - 1]
          ELSE ReadUpTo(ReadNext(read[m - 1]), least(m - 1) + 1, entries, T, r)
      BY <3>2, <3>3, NextAt
    <3> QED BY <2>2, <3>2, <3>3, <3>4
  <2> QED BY <2>3, <2>4
<1>3. N \in 0..N /\ least(N) = n
  BY <1>1
<1> QED BY <1>2, <1>3

\* The length of a property list with its prefix, and of the text it begins.
LEMMA TextLengths ==
  ASSUME NEW e \in 1..4, NEW L \in Nat, NEW n \in Nat, 2 * n <= L, NEW r \in Nat, NEW w, w = e + L, NEW b, b = w + r
  PROVE  w \in Nat /\ w >= 1 /\ b \in Nat /\ b # 0 /\ (n # 0 => w >= 3)
OBVIOUS

\* A property list is read as it was written, and the bytes after it are left.
LEMMA PropertiesBack ==
  ASSUME NEW entries, ListFits(entries), MQTTProperties_len(PropertiesOf(entries)) <= MaxLength, NEW r \in ByteText
  PROVE  LET w == MQTTProperties_write(PropertiesOf(entries))
         IN  /\ w \in ByteText /\ Len(w) \in Nat /\ Len(w) >= 1 /\ (entries # <<>> => Len(w) >= 3)
             /\ w \o r \in ByteText /\ MQTTProperties_read(w \o r) = {[props |-> entries, rest |-> r]}
<1> DEFINE props == PropertiesOf(entries)
           n == Len(entries)
           parts == Written(entries)
           L == props.length
           F == FlattenSeq(parts)
           e == MQTTPacket_encode(L)
           w == MQTTProperties_write(props)
           b == w \o r
<1>1. entries \in PropertyLists /\ n \in Nat /\ DOMAIN entries = 1..n /\ entries \in Seq(Properties)
  BY DEF ListFits, PropertyLists
<1>2. props.array = entries
  <2>1. \A i \in DOMAIN entries : MQTTProperty_getType(entries[i].id) # "invalid"
    BY DEF ListFits, PropertyFits
  <2> QED BY <1>1, <2>1, CopyIs
<1>3. \E lens : Lengths(lens, parts, n) /\ L = lens[n]
  <2>1. WellKept(props)
    BY <1>1, CopyKeeps
  <2> HIDE DEF props
  <2> QED BY <1>2, <2>1 DEF WellKept
<1> HIDE DEF props
<1>4. parts = [i \in 1..n |-> MQTTProperty_write(entries[i])] /\ parts \in Seq(ByteText) /\ Len(parts) = n /\ DOMAIN parts = 1..n
  <2>1. \A i \in 1..n : MQTTProperty_write(entries[i]) \in ByteText
    <3> SUFFICES ASSUME NEW i \in 1..n PROVE MQTTProperty_write(entries[i]) \in ByteText
      OBVIOUS
    <3>1. PropertyFits(entries[i]) /\ (MQTTProperty_getType(entries[i].id) = "int4" => entries[i].num \in Int31)
      BY <1>1 DEF ListFits
    <3> QED BY <3>1, PropertyBack
  <2>2. parts = [i \in 1..n |-> MQTTProperty_write(entries[i])]
    BY <1>1 DEF Written
  <2>3. parts \in [1..n -> ByteText]
    BY <2>1, <2>2
  <2> HIDE DEF parts, n
  <2> QED BY <1>1, <2>2, <2>3
<1>5. PICK lens : Lengths(lens, parts, n) /\ L = lens[n]
  BY <1>3
<1>6. HasLen(F, L)
  <2>1. parts = [i \in 1..n |-> parts[i]]
    BY <1>4
  <2>2. HasLen(parts, n)
    BY <1>1, <2>1, FunctionLen
  <2> HIDE DEF parts, n
  <2> QED BY <1>5, <2>2, FlattenLen
<1>7. PICK T : Tails(T, parts, n) /\ T[0] = F
  <2> HIDE DEF parts, n
  <2> QED BY <1>1, <1>4, TailsExist
<1>8. F \in ByteText /\ Len(F) = L /\ L \in Nat /\ 2 * n <= L
  <2>1. F \in ByteText
    BY <1>1, <1>7 DEF Tails
  <2>2. Len(F) = L /\ L \in Nat
    BY <1>6 DEF HasLen
  <2>3. 2 * n <= Len(T[0])
    BY <1>7, EnoughBytes
  <2> HIDE DEF F, n
  <2> QED BY <1>7, <2>1, <2>2, <2>3
<1>9. L <= MaxLength
  <2>1. MQTTPacket_VBIlen(L) \in Nat
    BY <1>8, SMT DEF MQTTPacket_VBIlen
  <2>2. MQTTProperties_len(props) = L + MQTTPacket_VBIlen(L)
    BY DEF MQTTProperties_len
  <2>3. MQTTProperties_len(props) <= MaxLength
    BY DEF props
  <2> HIDE DEF L
  <2> QED BY <1>8, <2>1, <2>2, <2>3, SMT DEF MaxLength
<1>10. w = e \o F
  BY <1>2 DEF MQTTProperties_write, Written
<1> HIDE DEF w, F, parts, L
<1>11. F \o r \in ByteText /\ Len(r) \in Nat
  BY <1>8, JoinedText
<1>12. e \in ByteText /\ Len(e) \in 1..4 /\ VBIdecode(e \o (F \o r)) = [len |-> Len(e), value |-> L]
       /\ Rest(e \o (F \o r), Len(e)) = F \o r
  BY <1>8, <1>9, <1>11, LengthBack
<1> HIDE DEF e
<1>13. w \in ByteText /\ Len(w) = Len(e) + L /\ b = e \o (F \o r) /\ b \in ByteText /\ Len(b) = Len(w) + Len(r)
  <2>1. w \in ByteText /\ Len(w) = Len(e) + L
    BY <1>8, <1>10, <1>12, JoinedText
  <2>2. b = e \o (F \o r)
    BY <1>8, <1>10, <1>12, Associative
  <2>3. b \in ByteText /\ Len(b) = Len(w) + Len(r)
    BY <2>1, JoinedText
  <2> QED BY <2>1, <2>2, <2>3
<1> HIDE DEF b
<1>14. Len(w) \in Nat /\ Len(w) >= 1 /\ b # <<>> /\ (n # 0 => Len(w) >= 3)
  <2>1. Len(w) \in Nat /\ Len(w) >= 1 /\ Len(b) \in Nat /\ Len(b) # 0 /\ (n # 0 => Len(w) >= 3)
    <3> HIDE DEF n
    <3>1. Len(w) = Len(e) + L /\ Len(b) = Len(w) + Len(r) /\ Len(e) \in 1..4 /\ L \in Nat /\ Len(r) \in Nat
          /\ n \in Nat /\ 2 * n <= L
      BY <1>1, <1>8, <1>11, <1>12, <1>13
    <3> QED BY <3>1, TextLengths
  <2>2. Len(<<>>) = 0
    OBVIOUS
  <2> QED BY <2>1, <2>2
<1> DEFINE N == VBIdecode(b).value \div 2
           first == [array |-> <<>>, max_count |-> 0, left |-> VBIdecode(b).value, rest |-> Rest(b, VBIdecode(b).len)]
           V(g) == [k \in 0..N |-> IF k = 0 THEN first ELSE ReadNext(g[k - 1])]
           read == CHOOSE g : g = V(g)
<1>15. VBIdecode(b).value = L
  BY <1>12, <1>13
<1>16. N \in Nat /\ n <= N
  <2> HIDE DEF n
  <2>1. L \div 2 \in Nat /\ n <= L \div 2
    BY <1>1, <1>8
  <2> QED BY <1>15, <2>1
<1>17. \E g : g = V(g)
  <2>1. N \in Nat
    BY <1>16
  <2> HIDE DEF first, N
  <2> QED BY <2>1, ReadingExists, ZenonT(60)
<1>18. MQTTProperties_read(b) = IF b = <<>> \/ read[N].left # 0 THEN {} ELSE {[props |-> read[N].array, rest |-> read[N].rest]}
  BY DEF MQTTProperties_read
<1>19. first.array = <<>> /\ first.left = L /\ first.rest = F \o r
  BY <1>12, <1>13, <1>15
<1> HIDE DEF first
<1>20. read = V(read)
  BY <1>17, ZenonT(60)
<1> HIDE DEF read
<1>21. \A k \in 0..N : read[k] = IF k = 0 THEN first ELSE ReadNext(read[k - 1])
  BY <1>20, ZenonT(60)
<1> HIDE DEF V
<1>22. ReadUpTo(first, 0, entries, T, r)
  <2>1. <<>> \in Seq(Properties) /\ Len(<<>>) = 0
    OBVIOUS
  <2> QED BY <1>7, <1>8, <1>19, <2>1 DEF ReadUpTo
<1>23. ReadUpTo(read[N], n, entries, T, r)
  <2>1. Tails(T, Written(entries), n)
    BY <1>7 DEF parts
  <2>2. N \in Nat /\ n <= N
    BY <1>16
  <2>3. n = Len(entries)
    OBVIOUS
  <2>4. \A k \in 0..N : read[k] = IF k = 0 THEN first ELSE ReadNext(read[k - 1])
    BY <1>21
  <2> HIDE DEF N, n
  <2> QED BY <1>22, <2>1, <2>2, <2>3, <2>4, ReadingEnds
<1>24. read[N].left = 0 /\ read[N].rest = r /\ read[N].array = entries
  <2>1. T[n] = <<>>
    BY <1>7 DEF Tails
  <2>2. read[N].left = Len(<<>>) /\ read[N].rest = <<>> \o r
    BY <1>23, <2>1 DEF ReadUpTo
  <2>3. read[N].array = entries
    <3> DEFINE a == read[N].array
    <3>1. a \in Seq(Properties) /\ Len(a) = n /\ \A i \in 1..n : a[i] = entries[i]
      BY <1>23 DEF ReadUpTo
    <3> HIDE DEF a
    <3>2. Len(entries) = n
      OBVIOUS
    <3> HIDE DEF n
    <3>3. a = entries
      BY <1>1, <3>1, <3>2, SameSeq
    <3> QED BY <3>3 DEF a
  <2> QED BY <2>2, <2>3, NothingJoined
<1>25. MQTTProperties_read(b) = {[props |-> entries, rest |-> r]}
  BY <1>14, <1>18, <1>24
<1>26. n = 0 => entries = <<>>
  BY <1>1
<1> QED BY <1>13, <1>14, <1>25, <1>26 DEF b, w, props

----------------------------------------------------------------------------
(* Reading headers *)

\* r is one packet, with the fields of p
ReadsBack(p, r) == \E x : r = {x} /\ \A f \in DOMAIN p : f \in DOMAIN x /\ x[f] = p[f]

LEMMA WithFields ==
  ASSUME NEW p, NEW q
  PROVE  /\ DOMAIN AddFields(p, q) = DOMAIN p \cup DOMAIN q
         /\ \A f \in DOMAIN q : AddFields(p, q)[f] = q[f]
         /\ \A f \in DOMAIN p \ DOMAIN q : AddFields(p, q)[f] = p[f]
BY DEF AddFields

HeaderOf(p) == [type |-> p.type, version |-> p.version, dup |-> p.dup, retained |-> p.retained]
Readable(p) ==
  /\ p.type \in {"PUBLISH", "CONNACK", "SUBACK", "UNSUBACK", "DISCONNECT", "PINGREQ", "PINGRESP"} \cup Acks
  /\ p.dup \in BOOLEAN /\ p.retained \in BOOLEAN /\ p.version \in 3..5 /\ (p.type = "PUBLISH" => p.qos \in 0..2)

LEMMA TypeBack ==
  ASSUME NEW p, Readable(p)
  PROVE  TypeCode(p.type) \in 1..15 /\ Types[TypeCode(p.type)] = p.type
<1> DEFINE t == p.type
           i == TypeCode(t)
<1>1. DOMAIN Types = 1..15
  BY DEF Types
<1>2. \E k \in DOMAIN Types : Types[k] = t
  <2>1. /\ Types[2] = "CONNACK" /\ Types[3] = "PUBLISH" /\ Types[4] = "PUBACK" /\ Types[5] = "PUBREC" /\ Types[6] = "PUBREL"
        /\ Types[7] = "PUBCOMP" /\ Types[9] = "SUBACK" /\ Types[11] = "UNSUBACK" /\ Types[12] = "PINGREQ"
        /\ Types[13] = "PINGRESP" /\ Types[14] = "DISCONNECT"
    BY DEF Types
  <2>2. t \in {"PUBLISH", "CONNACK", "SUBACK", "UNSUBACK", "DISCONNECT", "PINGREQ", "PINGRESP", "PUBACK", "PUBREC", "PUBREL", "PUBCOMP"}
    BY DEF Readable, Acks
  <2>3. /\ 2 \in DOMAIN Types /\ 3 \in DOMAIN Types /\ 4 \in DOMAIN Types /\ 5 \in DOMAIN Types /\ 6 \in DOMAIN Types
        /\ 7 \in DOMAIN Types /\ 9 \in DOMAIN Types /\ 11 \in DOMAIN Types /\ 12 \in DOMAIN Types /\ 13 \in DOMAIN Types
        /\ 14 \in DOMAIN Types
    BY <1>1
  <2> HIDE DEF t
  <2> QED BY <2>1, <2>2, <2>3, Zenon
<1>3. i \in DOMAIN Types /\ Types[i] = t
  BY <1>2 DEF TypeCode
<1> QED BY <1>1, <1>3

LEMMA HeaderBits ==
  ASSUME NEW c \in 1..15, NEW d \in {0, 8}, NEW q \in 0..2, NEW t \in {0, 1}
  PROVE  LET h == 16 * c + d + 2 * q + t
         IN  /\ h \in 0..255 /\ h \div 16 = c /\ (((h \div 8) % 2 = 1) = (d = 8)) /\ (h \div 2) % 4 = q /\ ((h % 2 = 1) = (t = 1))
<1> DEFINE h == 16 * c + d + 2 * q + t
<1>1. CASE d = 0 /\ t = 0
  BY <1>1
<1>2. CASE d = 8 /\ t = 0
  BY <1>2
<1>3. CASE d = 0 /\ t = 1
  BY <1>3
<1>4. CASE d = 8 /\ t = 1
  BY <1>4
<1> QED BY <1>1, <1>2, <1>3, <1>4

\* The flags and the type are read from the header byte.
LEMMA HeaderBack ==
  ASSUME NEW p, Readable(p)
  PROVE  LET h == Header(p)
         IN  /\ h \in 0..255 /\ Types[h \div 16] = p.type /\ ((h \div 8) % 2 = 1) = p.dup
             /\ (h \div 2) % 4 = QoSOf(p) /\ (h % 2 = 1) = p.retained
<1> DEFINE c == TypeCode(p.type)
           d == Flag(p.dup, 8)
           q == QoSOf(p)
           t == Flag(p.retained, 1)
           h == Header(p)
<1>1. c \in 1..15 /\ Types[c] = p.type
  BY TypeBack
<1>2. d \in {0, 8} /\ (d = 8) = p.dup
  BY DEF Readable, Flag
<1>3. t \in {0, 1} /\ (t = 1) = p.retained
  BY DEF Readable, Flag
<1>4. q \in 0..2
  BY DEF Readable, QoSOf
<1>5. h = 16 * c + d + 2 * q + t
  BY DEF Header
<1> HIDE DEF c, d, q, t, h
<1>6. /\ h \in 0..255 /\ h \div 16 = c /\ (((h \div 8) % 2 = 1) = (d = 8)) /\ (h \div 2) % 4 = q /\ ((h % 2 = 1) = (t = 1))
  BY <1>1, <1>2, <1>3, <1>4, <1>5, HeaderBits
<1>7. /\ h \in 0..255 /\ Types[h \div 16] = p.type /\ ((h \div 8) % 2 = 1) = p.dup
      /\ (h \div 2) % 4 = q /\ (h % 2 = 1) = p.retained
  BY <1>1, <1>2, <1>3, <1>6
<1> QED BY <1>7 DEF h, q

\* the packet that the reader of a type makes of the header and the body
ReadBody(p, body) ==
  CASE p.type = "PUBLISH" -> ReadPublish(AddFields(HeaderOf(p), [qos |-> QoSOf(p)]), body)
    [] p.type \in Acks \cup {"DISCONNECT"} -> ReadAck(HeaderOf(p), body)
    [] p.type = "CONNACK" -> ReadConnack(HeaderOf(p), body)
    [] p.type = "SUBACK" -> ReadSuback(HeaderOf(p), body)
    [] p.type = "UNSUBACK" -> ReadUnsuback(HeaderOf(p), body)
    [] OTHER -> {HeaderOf(p)}

\* MQTTPacket_Factory gives the reader of the type the body that was framed.
LEMMA FrameBack ==
  ASSUME NEW p, Readable(p), NEW body \in ByteText, NEW n, n = Len(body), n <= MaxLength
  PROVE  MQTTPacket_Factory(p.version, Framed(p, n, body)) = ReadBody(p, body)
<1> DEFINE e == MQTTPacket_encode(n)
           h == Header(p)
           b == Framed(p, n, body)
           l == VBIdecode(Rest(b, 1))
<1>1. n \in Nat
  BY NothingJoined, JoinedText
<1>2. h \in 0..255 /\ Types[h \div 16] = p.type /\ ((h \div 8) % 2 = 1) = p.dup
      /\ (h \div 2) % 4 = QoSOf(p) /\ (h % 2 = 1) = p.retained
  BY HeaderBack
<1>3. e \in ByteText /\ Len(e) \in 1..4 /\ VBIdecode(e \o body) = [len |-> Len(e), value |-> n]
  BY <1>1, LengthBack
<1>4. b = (writeChar(h) \o e) \o body
  BY DEF Framed, writeChar
<1> HIDE DEF e, h
<1>5. writeChar(h) \in ByteText /\ Len(writeChar(h)) = 1 /\ e \o body \in ByteText
  BY <1>2, <1>3, OneBack, JoinedText
<1>6. b = writeChar(h) \o (e \o body)
  BY <1>3, <1>4, <1>5, Associative
<1>7. b[1] = h /\ Rest(b, 1) = e \o body
  BY <1>2, <1>5, <1>6, OneBack
<1>8. l.len = Len(e) /\ l.value = n
  <2>1. l = [len |-> Len(e), value |-> n]
    BY <1>3, <1>7
  <2> HIDE DEF l, b
  <2> QED BY <2>1
<1>9. SubSeq(b, 2 + l.len, 1 + l.len + l.value) = body
  <2> DEFINE s == writeChar(h) \o e
  <2>1. s \in ByteText /\ Len(s) = 1 + Len(e)
    <3> HIDE DEF b, l
    <3>1. s \in ByteText /\ Len(s) = Len(writeChar(h)) + Len(e)
      BY <1>3, <1>5, JoinedText
    <3> HIDE DEF s
    <3> QED BY <1>3, <1>5, <3>1
  <2>2. <<>> \in ByteText /\ body \o <<>> = body
    BY NothingJoined
  <2>3. b = s \o (body \o <<>>)
    BY <1>4, <2>2
  <2> HIDE DEF s, b
  <2>4. SubSeq(b, Len(s) + 1, Len(s) + Len(body)) = body
    BY <2>1, <2>2, <2>3, MiddleOf
  <2>5. 2 + l.len = Len(s) + 1 /\ 1 + l.len + l.value = Len(s) + Len(body)
    <3> HIDE DEF l
    <3> QED BY <1>1, <1>3, <1>8, <2>1
  <2> HIDE DEF l
  <2> QED BY <2>4, <2>5
<1> HIDE DEF b, l
<1>10. [type |-> Types[b[1] \div 16], version |-> p.version, dup |-> (b[1] \div 8) % 2 = 1, retained |-> b[1] % 2 = 1] = HeaderOf(p)
  BY <1>2, <1>7 DEF HeaderOf
<1>11. Types[b[1] \div 16] = p.type /\ (b[1] \div 2) % 4 = QoSOf(p)
  BY <1>2, <1>7
<1>12. SubSeq(b, 2 + VBIdecode(Rest(b, 1)).len, 1 + VBIdecode(Rest(b, 1)).len + VBIdecode(Rest(b, 1)).value) = body
  BY <1>9 DEF l
<1>13. MQTTPacket_Factory(p.version, b) = ReadBody(p, body)
  BY <1>10, <1>11, <1>12, ZenonT(60) DEF MQTTPacket_Factory, ReadBody
<1> QED BY <1>13 DEF b

----------------------------------------------------------------------------
(* Reading packets of each type *)

\* the bytes of the properties of a packet
PropsText(p) == IF V5(p) THEN MQTTProperties_write(PropertiesOf(p.props)) ELSE <<>>
PropsFit(p) ==
  /\ PropertiesFit(p) /\ p.version \in 3..5
  /\ \A i \in DOMAIN p.props : MQTTProperty_getType(p.props[i].id) = "int4" => p.props[i].num \in Int31

\* With whatever follows; before version 5 there are none.
LEMMA PropsBack ==
  ASSUME NEW p, PropsFit(p), NEW r \in ByteText
  PROVE  LET w == PropsText(p)
         IN  /\ w \in ByteText /\ Len(w) \in Nat /\ w \o r \in ByteText
             /\ V5(p) => Len(w) >= 1 /\ (p.props # <<>> => Len(w) >= 3) /\ MQTTProperties_read(w \o r) = {[props |-> p.props, rest |-> r]}
             /\ ~V5(p) => w = <<>> /\ p.props = <<>>
             /\ \A q : q.version = p.version => WithProperties(q, w \o r) = {[props |-> p.props, rest |-> r]}
<1> DEFINE w == PropsText(p)
           entries == p.props
<1>1. CASE V5(p)
  <2>1. ListFits(entries) /\ MQTTProperties_len(PropertiesOf(entries)) <= MaxLength
    BY <1>1 DEF PropsFit, PropertiesFit, ListFits
  <2>2. w = MQTTProperties_write(PropertiesOf(entries))
    BY <1>1 DEF PropsText
  <2> HIDE DEF w, entries
  <2>3. /\ w \in ByteText /\ Len(w) \in Nat /\ Len(w) >= 1 /\ (entries # <<>> => Len(w) >= 3)
        /\ w \o r \in ByteText /\ MQTTProperties_read(w \o r) = {[props |-> entries, rest |-> r]}
    BY <2>1, <2>2, PropertiesBack
  <2>4. ASSUME NEW q, q.version = p.version PROVE WithProperties(q, w \o r) = {[props |-> entries, rest |-> r]}
    BY <1>1, <2>3, <2>4 DEF WithProperties, V5
  <2> QED BY <1>1, <2>3, <2>4 DEF w, entries
<1>2. CASE ~V5(p)
  <2>1. w = <<>> /\ entries = <<>>
    BY <1>2 DEF PropsText, PropsFit, PropertiesFit
  <2> HIDE DEF w, entries
  <2>2. w \in ByteText /\ Len(w) = 0 /\ w \o r = r
    BY <2>1, NothingJoined
  <2>3. ASSUME NEW q, q.version = p.version PROVE WithProperties(q, w \o r) = {[props |-> entries, rest |-> r]}
    BY <1>2, <2>1, <2>2, <2>3 DEF WithProperties, V5
  <2> QED BY <1>2, <2>1, <2>2, <2>3 DEF w, entries
<1> QED BY <1>1, <1>2

\* where both have a field it is the same
Agrees(p, q) == \A f \in DOMAIN p \cap DOMAIN q : q[f] = p[f]

LEMMA AgreesWith ==
  ASSUME NEW p, NEW q, NEW e, Agrees(p, q), Agrees(p, e)
  PROVE  Agrees(p, AddFields(q, e))
<1> DEFINE w == AddFields(q, e)
<1>1. /\ DOMAIN w = DOMAIN q \cup DOMAIN e /\ \A f \in DOMAIN e : w[f] = e[f]
      /\ \A f \in DOMAIN q \ DOMAIN e : w[f] = q[f]
  BY WithFields
<1> HIDE DEF w
<1>2. ASSUME NEW f \in DOMAIN p, f \in DOMAIN w PROVE w[f] = p[f]
  <2>1. CASE f \in DOMAIN e
    BY <1>1, <1>2, <2>1, Zenon DEF Agrees
  <2>2. CASE f \notin DOMAIN e
    BY <1>1, <1>2, <2>2, Zenon DEF Agrees
  <2> QED BY <2>1, <2>2
<1>3. Agrees(p, w)
  BY <1>2 DEF Agrees
<1> QED BY <1>3 DEF w

LEMMA AgreedBack ==
  ASSUME NEW p, NEW x, Agrees(p, x), DOMAIN p \subseteq DOMAIN x
  PROVE  ReadsBack(p, {x})
BY DEF Agrees, ReadsBack

LEMMA HeaderAgrees ==
  ASSUME NEW p
  PROVE  Agrees(p, HeaderOf(p)) /\ DOMAIN HeaderOf(p) = {"type", "version", "dup", "retained"}
         /\ HeaderOf(p).type = p.type /\ HeaderOf(p).version = p.version
BY DEF Agrees, HeaderOf

\* four strings joined one way and the other
LeftJoin(s, t, u, v) == ((s \o t) \o u) \o v
RightJoin(s, t, u, v) == s \o (t \o (u \o v))

LEMMA FourParts ==
  ASSUME NEW s \in ByteText, NEW t \in ByteText, NEW u \in ByteText, NEW v \in ByteText
  PROVE  LeftJoin(s, t, u, v) = RightJoin(s, t, u, v)
<1> DEFINE a == s \o t
           c == u \o v
<1>1. a \in ByteText /\ c \in ByteText
  BY JoinedText
<1>2. a \o c = s \o (t \o c)
  <2> HIDE DEF c
  <2> QED BY <1>1, Associative
<1>3. (a \o u) \o v = a \o c
  <2>1. a \in ByteText
    BY <1>1
  <2> HIDE DEF a
  <2> QED BY <2>1, Associative, Zenon
<1> QED BY <1>2, <1>3 DEF LeftJoin, RightJoin

\* PUBLISH: MQTTPacket_publish reads what MQTTPacket_send_publish writes.
LEMMA PublishBack ==
  ASSUME NEW p, p.type = "PUBLISH", PublishFits(p), PropsFit(p), p.qos \in 0..2, p.topic \in ByteText, p.payload \in ByteText
  PROVE  /\ MQTTPacket_send_publish(p) \in ByteText
         /\ ReadsBack(p, ReadPublish(AddFields(HeaderOf(p), [qos |-> QoSOf(p)]), MQTTPacket_send_publish(p)))
<1> DEFINE b == MQTTPacket_send_publish(p)
           topic == p.topic
           t == writeUTF(topic)
           id == IF p.qos > 0 THEN writeInt(p.msgId) ELSE <<>>
           w == PropsText(p)
           y == p.payload
           h == AddFields(HeaderOf(p), [qos |-> QoSOf(p)])
           e == [topic |-> topic, msgId |-> p.msgId, props |-> p.props, payload |-> y]
<1>1. b = LeftJoin(t, id, w, y)
  BY DEF MQTTPacket_send_publish, PropsText, writeUTF, LeftJoin
<1>2. Len(topic) \in Word /\ topic \in ByteText /\ y \in ByteText /\ p.msgId \in Word /\ (p.qos = 0 => p.msgId = 0)
  BY DEF PublishFits
<1>3. QoSOf(p) = p.qos
  BY DEF QoSOf
<1>4. DOMAIN p = {"type", "version", "dup", "retained", "qos", "topic", "msgId", "props", "payload"}
  BY DEF PublishFits, HeaderFits
<1>5. h.qos = p.qos /\ h.version = p.version /\ Agrees(p, h) /\ DOMAIN h = {"type", "version", "dup", "retained", "qos"}
  <2> DEFINE q == [qos |-> QoSOf(p)]
  <2>1. DOMAIN q = {"qos"} /\ q.qos = p.qos
    BY <1>3
  <2> HIDE DEF q
  <2>2. Agrees(p, q)
    BY <2>1 DEF Agrees
  <2>3. Agrees(p, h) /\ DOMAIN h = DOMAIN HeaderOf(p) \cup DOMAIN q
    <3> DEFINE g == HeaderOf(p)
    <3>1. h = AddFields(g, q) /\ Agrees(p, g)
      BY HeaderAgrees DEF q
    <3> HIDE DEF g, h
    <3>2. Agrees(p, AddFields(g, q)) /\ DOMAIN AddFields(g, q) = DOMAIN g \cup DOMAIN q
      BY <2>2, <3>1, AgreesWith, WithFields
    <3> QED BY <3>1, <3>2 DEF g
  <2>4. h.qos = p.qos /\ h.version = p.version
    <3> DEFINE g == HeaderOf(p)
    <3>1. h = AddFields(g, q) /\ "version" \in DOMAIN g /\ g.version = p.version /\ "version" \notin DOMAIN q /\ "qos" \in DOMAIN q
      BY <2>1, HeaderAgrees DEF q
    <3> HIDE DEF g, h
    <3>2. h["qos"] = q["qos"] /\ h["version"] = g["version"]
      BY <3>1, WithFields
    <3> QED BY <2>1, <3>1, <3>2
  <2> QED BY <2>1, <2>3, <2>4, HeaderAgrees
<1>6. DOMAIN e = {"topic", "msgId", "props", "payload"} /\ Agrees(p, e)
  BY DEF Agrees
<1>7. w \in ByteText /\ w \o y \in ByteText /\ WithProperties(h, w \o y) = {[props |-> p.props, rest |-> y]}
  <2> HIDE DEF w, y, h
  <2> QED BY <1>2, <1>5, PropsBack DEF w
<1>8. id \in ByteText /\ id \o (w \o y) \in ByteText
  <2>1. CASE p.qos > 0
    BY <1>2, <1>7, <2>1, IntBack
  <2>2. CASE ~(p.qos > 0)
    BY <1>7, <2>2, NothingJoined
  <2> QED BY <2>1, <2>2
<1> DEFINE R == id \o (w \o y)
<1>9. (p.qos > 0 => readInt(R) = p.msgId /\ Rest(R, 2) = w \o y) /\ (~(p.qos > 0) => R = w \o y /\ p.msgId = 0)
  <2>1. CASE p.qos > 0
    <3>1. readInt(writeInt(p.msgId) \o (w \o y)) = p.msgId /\ Rest(writeInt(p.msgId) \o (w \o y), 2) = w \o y
      <4> HIDE DEF w, y
      <4> QED BY <1>2, <1>7, IntBack
    <3> QED BY <2>1, <3>1
  <2>2. CASE ~(p.qos > 0)
    <3>1. id = <<>> /\ p.qos = 0
      BY <2>2
    <3> HIDE DEF id, w, y
    <3>2. R = w \o y
      BY <1>7, <3>1, NothingJoined
    <3> QED BY <1>2, <2>2, <3>1, <3>2
  <2> QED BY <2>1, <2>2
<1>10. b = t \o R /\ b \in ByteText /\ LenStringFits(b) /\ LenStringRead(b) = topic /\ Rest(b, 2 + Len(topic)) = R
  <2> HIDE DEF id, w, y, topic
  <2>1. t \in ByteText
    BY <1>2, <1>8, TextBack
  <2> HIDE DEF t
  <2>2. b = t \o R
    <3>1. y \in ByteText /\ id \in ByteText /\ w \in ByteText
      BY <1>2, <1>7, <1>8
    <3> HIDE DEF b
    <3>2. b = RightJoin(t, id, w, y)
      BY <1>1, <2>1, <3>1, FourParts
    <3> QED BY <3>2 DEF RightJoin
  <2>3. b = writeUTF(topic) \o R
    BY <2>2 DEF t
  <2> HIDE DEF b, R
  <2>4. R \in ByteText
    BY <1>8 DEF R
  <2> QED BY <1>2, <2>3, <2>4, TextBack DEF t
<1> HIDE DEF b, topic, t, w, y, h, R, id
<1>11. ReadPublish(h, b) = {AddFields(h, e)}
  <2>1. IF p.qos > 0 THEN readInt(R) = p.msgId ELSE 0 = p.msgId
    BY <1>9
  <2>2. ReadPublish(h, b) = {AddFields(h, [topic |-> topic, msgId |-> p.msgId, props |-> x.props, payload |-> x.rest]) :
                               x \in WithProperties(h, w \o y)}
    BY <1>5, <1>9, <1>10, <2>1 DEF ReadPublish
  <2>3. ReadPublish(h, b) = {AddFields(h, [topic |-> topic, msgId |-> p.msgId, props |-> x.props, payload |-> x.rest]) :
                               x \in {[props |-> p.props, rest |-> y]}}
    BY <1>7, <2>2
  <2> QED BY <2>3
<1> HIDE DEF e
<1>12. ReadsBack(p, {AddFields(h, e)})
  <2>1. Agrees(p, AddFields(h, e)) /\ DOMAIN AddFields(h, e) = DOMAIN h \cup DOMAIN e
    BY <1>5, <1>6, AgreesWith, WithFields
  <2>2. DOMAIN p \subseteq DOMAIN AddFields(h, e)
    BY <1>4, <1>5, <1>6, <2>1
  <2> QED BY <2>1, <2>2, AgreedBack
<1> QED BY <1>10, <1>11, <1>12 DEF b, h

LEMMA EmptyText == <<>> \in ByteText /\ Len(<<>>) = 0
BY DEF ByteText

LEMMA OneAdded ==
  ASSUME NEW p, NEW e, Agrees(p, e), DOMAIN p \subseteq {"type", "version", "dup", "retained"} \cup DOMAIN e
  PROVE  ReadsBack(p, {AddFields(HeaderOf(p), e)})
<1> DEFINE h == HeaderOf(p)
           x == AddFields(h, e)
<1>1. Agrees(p, h) /\ DOMAIN h = {"type", "version", "dup", "retained"}
  BY HeaderAgrees
<1> HIDE DEF h
<1>2. Agrees(p, x)
  BY <1>1, AgreesWith
<1>3. DOMAIN x = DOMAIN h \cup DOMAIN e
  BY WithFields
<1> HIDE DEF x
<1>4. DOMAIN p \subseteq DOMAIN x
  BY <1>1, <1>3
<1>5. ReadsBack(p, {x})
  BY <1>2, <1>4, AgreedBack
<1> QED BY <1>5 DEF x, h

LEMMA TwoAdded ==
  ASSUME NEW p, NEW e, NEW f, Agrees(p, e), Agrees(p, f),
         DOMAIN p \subseteq {"type", "version", "dup", "retained"} \cup DOMAIN e \cup DOMAIN f
  PROVE  ReadsBack(p, {AddFields(AddFields(HeaderOf(p), e), f)})
<1> DEFINE h == HeaderOf(p)
           q == AddFields(h, e)
           x == AddFields(q, f)
<1>1. Agrees(p, h) /\ DOMAIN h = {"type", "version", "dup", "retained"}
  BY HeaderAgrees
<1> HIDE DEF h
<1>2. Agrees(p, q)
  BY <1>1, AgreesWith
<1>3. DOMAIN q = DOMAIN h \cup DOMAIN e
  BY WithFields
<1> HIDE DEF q
<1>4. Agrees(p, x)
  BY <1>2, AgreesWith
<1>5. DOMAIN x = DOMAIN q \cup DOMAIN f
  BY WithFields
<1> HIDE DEF x
<1>6. DOMAIN p \subseteq DOMAIN x
  BY <1>1, <1>3, <1>5
<1>7. ReadsBack(p, {x})
  BY <1>4, <1>6, AgreedBack
<1> QED BY <1>7 DEF x, q, h

\* an acknowledgement, or a DISCONNECT, that is read as these values
LEMMA AckIsBack ==
  ASSUME NEW p, NEW id, NEW rc, NEW props, DOMAIN p \subseteq {"type", "version", "dup", "retained", "msgId", "rc", "props"},
         "msgId" \in DOMAIN p => p.msgId = id, "rc" \in DOMAIN p => p.rc = rc, "props" \in DOMAIN p => p.props = props
  PROVE  ReadsBack(p, {AddFields(AddFields(HeaderOf(p), [msgId |-> id, rc |-> rc]), [props |-> props])})
<1> DEFINE e == [msgId |-> id, rc |-> rc]
           f == [props |-> props]
<1>1. DOMAIN e = {"msgId", "rc"} /\ DOMAIN f = {"props"} /\ Agrees(p, e) /\ Agrees(p, f)
  BY DEF Agrees
<1> HIDE DEF e, f
<1>2. DOMAIN p \subseteq {"type", "version", "dup", "retained"} \cup DOMAIN e \cup DOMAIN f
  BY <1>1
<1>3. ReadsBack(p, {AddFields(AddFields(HeaderOf(p), e), f)})
  BY <1>1, <1>2, TwoAdded
<1> QED BY <1>3 DEF e, f

\* The acknowledgements the client sends are two bytes long.
LEMMA SentAckBack ==
  ASSUME NEW p, p.type \in Acks, SentAckFits(p)
  PROVE  writeInt(p.msgId) \in ByteText /\ ReadsBack(p, ReadAck(HeaderOf(p), writeInt(p.msgId)))
<1> DEFINE h == HeaderOf(p)
           b == writeInt(p.msgId)
           n == p.msgId
<1>1. b \in ByteText /\ Len(b) = 2 /\ readInt(b) = n
  <2>1. n \in Word /\ <<>> \in ByteText
    <3>1. n \in Word
      BY DEF SentAckFits
    <3> QED BY <3>1, EmptyText
  <2> HIDE DEF n
  <2>2. writeInt(n) \in ByteText /\ Len(writeInt(n)) = 2 /\ readInt(writeInt(n) \o <<>>) = n
    BY <2>1, IntBack
  <2>3. writeInt(n) \o <<>> = writeInt(n)
    BY <2>2, NothingJoined
  <2> QED BY <2>2, <2>3 DEF n
<1>2. h.type # "DISCONNECT"
  BY HeaderAgrees DEF Acks
<1>3. DOMAIN p = {"type", "version", "dup", "retained", "msgId"}
  BY DEF SentAckFits, HeaderFits
<1> HIDE DEF b, h
<1>4. ReadAck(h, b) = {AddFields(AddFields(h, [msgId |-> n, rc |-> 0]), [props |-> <<>>])}
  <2>1. ~(Len(b) > 2) /\ ~(Len(b) > 3)
    BY <1>1
  <2> QED BY <1>1, <1>2, <2>1 DEF ReadAck
<1>5. ReadsBack(p, {AddFields(AddFields(HeaderOf(p), [msgId |-> n, rc |-> 0]), [props |-> <<>>])})
  BY <1>3, AckIsBack
<1> QED BY <1>1, <1>4, <1>5 DEF b, h

\* Those it receives have a reason code and properties, or only the first, or neither.
LEMMA AckBack ==
  ASSUME NEW p, p.type \in Acks, AckFits(p), PropsFit(p)
  PROVE  ServerBody(p) \in ByteText /\ ReadsBack(p, ReadAck(HeaderOf(p), ServerBody(p)))
<1> DEFINE h == HeaderOf(p)
           b == ServerBody(p)
           n == p.msgId
           rc == p.rc
           w == PropsText(p)
           y == IF V5(p) /\ p.props # <<>> THEN writeChar(rc) \o w ELSE IF rc # 0 THEN writeChar(rc) ELSE <<>>
<1>1. n \in Word /\ rc \in 0..255 /\ (V5(p) \/ rc = 0) /\ DOMAIN p = {"type", "version", "dup", "retained", "msgId", "rc", "props"}
  BY DEF AckFits, HeaderFits
<1>2. h.type # "DISCONNECT" /\ (V5(h) = V5(p))
  BY HeaderAgrees DEF Acks, V5
<1>3. b = writeInt(n) \o y
  BY DEF ServerBody, Acks, PropsText, writeChar
<1>4. /\ w \in ByteText /\ Len(w) \in Nat /\ w \o <<>> = w
      /\ V5(p) => (p.props # <<>> => Len(w) >= 3) /\ MQTTProperties_read(w) = {[props |-> p.props, rest |-> <<>>]}
      /\ ~V5(p) => p.props = <<>>
  <2> HIDE DEF w
  <2>1. <<>> \in ByteText
    BY EmptyText
  <2>2. /\ w \in ByteText /\ Len(w) \in Nat
        /\ V5(p) => (p.props # <<>> => Len(w) >= 3) /\ MQTTProperties_read(w \o <<>>) = {[props |-> p.props, rest |-> <<>>]}
        /\ ~V5(p) => p.props = <<>>
    BY <2>1, PropsBack DEF w
  <2>3. w \o <<>> = w
    BY <2>2, NothingJoined
  <2> QED BY <2>2, <2>3
<1> HIDE DEF h, n, rc, w
<1>5. y \in ByteText /\ (V5(p) /\ p.props # <<>> => y = writeChar(rc) \o w /\ y[1] = rc /\ Rest(y, 1) = w /\ Len(y) = 1 + Len(w))
      /\ (p.props = <<>> => IF rc # 0 THEN y[1] = rc /\ Len(y) = 1 ELSE Len(y) = 0)
  <2>1. CASE V5(p) /\ p.props # <<>>
    BY <1>1, <1>4, <2>1, OneBack
  <2>2. CASE ~(V5(p) /\ p.props # <<>>) /\ rc # 0
    <3>1. writeChar(rc) \in ByteText /\ Len(writeChar(rc)) = 1 /\ (writeChar(rc) \o <<>>)[1] = rc
      BY <1>1, EmptyText, OneBack
    <3>2. writeChar(rc) \o <<>> = writeChar(rc)
      BY <3>1, NothingJoined
    <3> QED BY <2>2, <3>1, <3>2
  <2>3. CASE ~(V5(p) /\ p.props # <<>>) /\ rc = 0
    BY <2>3, EmptyText
  <2> QED BY <2>1, <2>2, <2>3
<1> HIDE DEF y, b
<1>6. b \in ByteText /\ readInt(b) = n /\ Rest(b, 2) = y /\ Len(b) = 2 + Len(y)
  BY <1>1, <1>3, <1>5, IntBack
<1> DEFINE made == AddFields(AddFields(h, [msgId |-> n, rc |-> rc]), [props |-> p.props])
<1>7. ReadAck(h, b) = {made}
  <2>1. CASE V5(p) /\ p.props # <<>>
    <3>1. Len(b) > 3 /\ Len(b) > 2
      BY <1>4, <1>5, <1>6, <2>1
    <3>2. ReadAck(h, b) = {AddFields(AddFields(h, [msgId |-> n, rc |-> rc]), [props |-> x.props]) : x \in MQTTProperties_read(w)}
      BY <1>2, <1>5, <1>6, <2>1, <3>1 DEF ReadAck
    <3>3. ReadAck(h, b) = {AddFields(AddFields(h, [msgId |-> n, rc |-> rc]), [props |-> x.props]) :
                        x \in {[props |-> p.props, rest |-> <<>>]}}
      BY <1>4, <2>1, <3>2
    <3> QED BY <3>3
  <2>2. CASE p.props = <<>> /\ rc # 0
    <3>1. ~(Len(b) > 3) /\ Len(b) > 2 /\ V5(p) /\ y[1] = rc
      <4>1. V5(p)
        BY <1>1, <2>2
      <4>2. y[1] = rc /\ Len(y) = 1 /\ Len(b) = 2 + Len(y)
        BY <1>5, <1>6, <2>2
      <4> QED BY <4>1, <4>2
    <3> QED BY <1>2, <1>6, <2>2, <3>1 DEF ReadAck
  <2>3. CASE p.props = <<>> /\ rc = 0
    <3>1. ~(Len(b) > 3) /\ ~(Len(b) > 2)
      BY <1>5, <1>6, <2>3
    <3> QED BY <1>2, <1>6, <2>3, <3>1 DEF ReadAck
  <2> QED BY <1>4, <2>1, <2>2, <2>3
<1>8. ReadsBack(p, {made})
  <2>1. n = p.msgId /\ rc = p.rc
    BY DEF n, rc
  <2> QED BY <1>1, <2>1, AckIsBack DEF h
<1> QED BY <1>6, <1>7, <1>8 DEF b, h

\* two bytes and what follows them
TwoBefore(b, a, c, r) == b \in ByteText /\ Len(b) = 2 + Len(r) /\ b[1] = a /\ b[2] = c /\ Rest(b, 2) = r

LEMMA TwoBack ==
  ASSUME NEW a \in 0..255, NEW c \in 0..255, NEW r \in ByteText, NEW b, b = <<a, c>> \o r
  PROVE  TwoBefore(b, a, c, r)
<1> DEFINE l == <<a, c>>
<1>1. l \in ByteText /\ Len(l) = 2 /\ l[1] = a /\ l[2] = c
  BY DEF ByteText
<1>2. b = l \o r
  OBVIOUS
<1> HIDE DEF l
<1>3. 1 \in 1..Len(l) /\ 2 \in 1..Len(l)
  BY <1>1
<1>4. b \in ByteText /\ Len(b) = Len(l) + Len(r) /\ \A i \in 1..Len(l) : b[i] = l[i]
  <2>1. l \o r \in ByteText /\ Len(l \o r) = Len(l) + Len(r) /\ \A i \in 1..Len(l) : (l \o r)[i] = l[i]
    BY <1>1, JoinedText
  <2> QED BY <1>2, <2>1, Zenon
<1>5. Rest(b, 2) = r
  BY <1>1, <1>2, RestOf
<1>6. Len(b) = 2 + Len(r) /\ b[1] = a /\ b[2] = c
  BY <1>1, <1>3, <1>4
<1> QED BY <1>4, <1>5, <1>6 DEF TwoBefore

\* the properties at the end of a packet
LEMMA PropsEnd ==
  ASSUME NEW p, PropsFit(p)
  PROVE  LET w == PropsText(p)
         IN  /\ w \in ByteText /\ Len(w) \in Nat
             /\ V5(p) => Len(w) >= 1 /\ (p.props # <<>> => Len(w) >= 3)
                         /\ MQTTProperties_read(w) = {[props |-> p.props, rest |-> <<>>]}
             /\ ~V5(p) => Len(w) = 0 /\ p.props = <<>>
<1> DEFINE w == PropsText(p)
<1>1. /\ w \in ByteText /\ Len(w) \in Nat
      /\ V5(p) => Len(w) >= 1 /\ (p.props # <<>> => Len(w) >= 3) /\ MQTTProperties_read(w \o <<>>) = {[props |-> p.props, rest |-> <<>>]}
      /\ ~V5(p) => w = <<>> /\ p.props = <<>>
  <2> HIDE DEF w
  <2> QED BY EmptyText, PropsBack DEF w
<1> HIDE DEF w
<1>2. w \o <<>> = w
  BY <1>1, NothingJoined
<1>3. ~V5(p) => Len(w) = 0
  BY <1>1, EmptyText
<1> QED BY <1>1, <1>2, <1>3 DEF w

\* CONNACK.
LEMMA ConnackBack ==
  ASSUME NEW p, p.type = "CONNACK", ConnackFits(p), PropsFit(p)
  PROVE  ServerBody(p) \in ByteText /\ ReadsBack(p, ReadConnack(HeaderOf(p), ServerBody(p)))
<1> DEFINE h == HeaderOf(p)
           b == ServerBody(p)
           w == PropsText(p)
           e == [flags |-> p.flags, rc |-> p.rc]
           f == [props |-> p.props]
<1>1. /\ p.flags \in 0..255 /\ p.rc \in 0..255
      /\ DOMAIN p = {"type", "version", "dup", "retained", "flags", "rc", "props"}
  BY DEF ConnackFits, HeaderFits
<1>2. V5(h) = V5(p)
  BY HeaderAgrees DEF V5
<1>3. b = <<p.flags, p.rc>> \o w
  BY DEF ServerBody, PropsText, Acks
<1>4. DOMAIN e = {"flags", "rc"} /\ DOMAIN f = {"props"} /\ Agrees(p, e) /\ Agrees(p, f)
  BY DEF Agrees
<1> HIDE DEF h, w, b
<1>5. /\ w \in ByteText /\ Len(w) \in Nat
      /\ V5(p) => Len(w) >= 1 /\ MQTTProperties_read(w) = {[props |-> p.props, rest |-> <<>>]}
      /\ ~V5(p) => Len(w) = 0 /\ p.props = <<>>
  BY PropsEnd DEF w
<1>6. b \in ByteText /\ Len(b) = 2 + Len(w) /\ b[1] = p.flags /\ b[2] = p.rc /\ Rest(b, 2) = w
  <2>1. TwoBefore(b, p.flags, p.rc, w)
    BY <1>1, <1>3, <1>5, TwoBack
  <2> QED BY <2>1 DEF TwoBefore
<1>7. ReadConnack(h, b) = {AddFields(AddFields(h, e), f)}
  <2>1. CASE V5(p)
    <3>1. Len(b) > 2
      BY <1>5, <1>6, <2>1
    <3>2. ReadConnack(h, b) = {AddFields(AddFields(h, e), [props |-> x.props]) : x \in MQTTProperties_read(w)}
      BY <1>2, <1>6, <2>1, <3>1 DEF ReadConnack
    <3>3. ReadConnack(h, b) = {AddFields(AddFields(h, e), [props |-> x.props]) : x \in {[props |-> p.props, rest |-> <<>>]}}
      BY <1>5, <2>1, <3>2
    <3> QED BY <3>3
  <2>2. CASE ~V5(p)
    <3>1. Len(b) = 2
      BY <1>5, <1>6, <2>2
    <3> QED BY <1>2, <1>5, <1>6, <2>2, <3>1 DEF ReadConnack
  <2> QED BY <2>1, <2>2
<1> HIDE DEF e, f
<1>8. DOMAIN p \subseteq {"type", "version", "dup", "retained"} \cup DOMAIN e \cup DOMAIN f
  BY <1>1, <1>4
<1>9. ReadsBack(p, {AddFields(AddFields(HeaderOf(p), e), f)})
  BY <1>4, <1>8, TwoAdded
<1> QED BY <1>6, <1>7, <1>9 DEF b, h

\* SUBACK, and UNSUBACK with and without reason codes.
LEMMA SubackBack ==
  ASSUME NEW p, p.type \in {"SUBACK", "UNSUBACK"}, SubackFits(p), PropsFit(p)
  PROVE  /\ ServerBody(p) \in ByteText
         /\ p.type = "SUBACK" => ReadsBack(p, ReadSuback(HeaderOf(p), ServerBody(p)))
         /\ p.type = "UNSUBACK" => ReadsBack(p, ReadUnsuback(HeaderOf(p), ServerBody(p)))
<1> DEFINE h == HeaderOf(p)
           b == ServerBody(p)
           n == p.msgId
           w == PropsText(p)
           c == p.codes
           y == w \o c
           e == [msgId |-> n, props |-> p.props, codes |-> c]
<1>1. /\ n \in Word /\ c \in ByteText /\ (c = <<>>) = (p.type = "UNSUBACK" /\ ~V5(p))
      /\ DOMAIN p = {"type", "version", "dup", "retained", "msgId", "props", "codes"}
  BY DEF SubackFits, HeaderFits
<1>2. V5(h) = V5(p) /\ h.version = p.version
  BY HeaderAgrees DEF V5
<1>3. b = (writeInt(n) \o w) \o c
  BY DEF ServerBody, PropsText, Acks
<1>4. DOMAIN e = {"msgId", "props", "codes"} /\ Agrees(p, e)
  BY DEF Agrees
<1> HIDE DEF h, w, b, n
<1>5. /\ w \in ByteText /\ y \in ByteText /\ (~V5(p) => p.props = <<>>)
      /\ WithProperties(h, y) = {[props |-> p.props, rest |-> c]}
  <2> HIDE DEF c
  <2> QED BY <1>1, <1>2, PropsBack DEF w
<1>6. b \in ByteText /\ readInt(b) = n /\ Rest(b, 2) = y
  <2> HIDE DEF c
  <2>1. writeInt(n) \in ByteText
    BY <1>1, EmptyText, IntBack
  <2>2. b = writeInt(n) \o y
    BY <1>1, <1>3, <1>5, <2>1, Associative
  <2> HIDE DEF y
  <2> QED BY <1>1, <1>5, <2>2, IntBack
<1> HIDE DEF y
<1>7. c # <<>> => ReadSuback(h, b) = {AddFields(h, e)}
  <2> HIDE DEF c
  <2> SUFFICES ASSUME c # <<>> PROVE ReadSuback(h, b) = {AddFields(h, e)}
    OBVIOUS
  <2> DEFINE v == [props |-> p.props, rest |-> c]
  <2>1. {x \in WithProperties(h, y) : x.rest # <<>>} = {v}
    BY <1>5
  <2>2. ReadSuback(h, b) = {AddFields(h, [msgId |-> readInt(b), props |-> x.props, codes |-> x.rest]) :
                              x \in {z \in WithProperties(h, y) : z.rest # <<>>}}
    BY <1>6 DEF ReadSuback
  <2>3. ReadSuback(h, b) = {AddFields(h, [msgId |-> n, props |-> x.props, codes |-> x.rest]) : x \in {v}}
    BY <1>6, <2>1, <2>2
  <2> QED BY <2>3
<1>8. ReadsBack(p, {AddFields(h, e)})
  <2> HIDE DEF e
  <2>1. DOMAIN p \subseteq {"type", "version", "dup", "retained"} \cup DOMAIN e
    BY <1>1, <1>4
  <2> QED BY <1>4, <2>1, OneAdded DEF h
<1>9. CASE p.type = "SUBACK"
  BY <1>1, <1>6, <1>7, <1>8, <1>9 DEF b, h
<1>10. CASE p.type = "UNSUBACK" /\ V5(p)
  <2>1. ReadUnsuback(h, b) = ReadSuback(h, b)
    BY <1>2, <1>10 DEF ReadUnsuback
  <2> QED BY <1>1, <1>6, <1>7, <1>8, <1>10, <2>1 DEF b, h
<1>11. CASE p.type = "UNSUBACK" /\ ~V5(p)
  <2>1. c = <<>> /\ p.props = <<>>
    BY <1>1, <1>5, <1>11
  <2>2. ReadUnsuback(h, b) = {AddFields(h, [msgId |-> n, props |-> <<>>, codes |-> <<>>])}
    BY <1>2, <1>6, <1>11 DEF ReadUnsuback
  <2>3. ReadUnsuback(h, b) = {AddFields(h, e)}
    BY <2>1, <2>2
  <2> QED BY <1>6, <1>8, <1>11, <2>3 DEF b, h
<1> QED BY <1>9, <1>10, <1>11

\* A DISCONNECT with properties, whoever sends it.
LEMMA DisconnectBack ==
  ASSUME NEW p, p.type = "DISCONNECT", DisconnectFits(p), PropsFit(p)
  PROVE  /\ ServerBody(p) \in ByteText /\ ReadsBack(p, ReadAck(HeaderOf(p), ServerBody(p)))
         /\ MQTTPacket_send_disconnect(p) = ServerBody(p)
<1> DEFINE h == HeaderOf(p)
           b == ServerBody(p)
           rc == p.rc
           w == PropsText(p)
<1>1. rc \in 0..255 /\ p.props # <<>> /\ DOMAIN p = {"type", "version", "dup", "retained", "rc", "props"}
  BY DEF DisconnectFits, HeaderFits
<1>2. V5(p) /\ V5(h) = V5(p) /\ h.type = "DISCONNECT"
  BY <1>1, HeaderAgrees DEF V5, PropsFit, PropertiesFit
<1>8. b = writeChar(rc) \o w /\ MQTTPacket_send_disconnect(p) = b
  BY <1>1, <1>2 DEF ServerBody, PropsText, writeChar, MQTTPacket_send_disconnect, Acks
<1> HIDE DEF h, b, rc, w
<1>3. b = writeChar(rc) \o w
  BY <1>8
<1>4. w \in ByteText /\ Len(w) \in Nat /\ Len(w) >= 3 /\ MQTTProperties_read(w) = {[props |-> p.props, rest |-> <<>>]}
  BY <1>1, <1>2, PropsEnd DEF w
<1>5. b \in ByteText /\ b[1] = rc /\ Rest(b, 1) = w /\ Len(b) = 1 + Len(w)
  BY <1>1, <1>3, <1>4, OneBack
<1>6. ReadAck(h, b) = {AddFields(AddFields(h, [msgId |-> 0, rc |-> rc]), [props |-> p.props])}
  <2>1. Len(b) > 2 /\ Len(b) > 3
    BY <1>4, <1>5
  <2>2. ReadAck(h, b) = {AddFields(AddFields(h, [msgId |-> 0, rc |-> rc]), [props |-> x.props]) : x \in MQTTProperties_read(w)}
    BY <1>2, <1>5, <2>1 DEF ReadAck
  <2>3. ReadAck(h, b) = {AddFields(AddFields(h, [msgId |-> 0, rc |-> rc]), [props |-> x.props]) :
                      x \in {[props |-> p.props, rest |-> <<>>]}}
    BY <1>4, <2>2
  <2> QED BY <2>3
<1>7. ReadsBack(p, {AddFields(AddFields(h, [msgId |-> 0, rc |-> rc]), [props |-> p.props])})
  <2>1. rc = p.rc
    BY DEF rc
  <2> QED BY <1>1, <2>1, AckIsBack DEF h
<1> QED BY <1>5, <1>6, <1>7, <1>8 DEF b, h

----------------------------------------------------------------------------
(* Every packet *)

LEMMA HeaderBytes ==
  ASSUME NEW p, NEW fields, HeaderFits(p, fields), "props" \in fields => PropertiesFit(p), Int4sFit, p \in Outgoing \cup Incoming
  PROVE  p.dup \in BOOLEAN /\ p.retained \in BOOLEAN /\ p.version \in 3..5 /\ ("props" \in fields => PropsFit(p))
<1>1. DOMAIN p = {"type", "version", "dup", "retained"} \cup fields /\ p.dup \in BOOLEAN /\ p.retained \in BOOLEAN /\ p.version \in 3..5
  BY DEF HeaderFits
<1>2. ASSUME "props" \in fields PROVE PropsFit(p)
  <2>1. "props" \in DOMAIN p
    BY <1>1, <1>2
  <2>2. \A i \in DOMAIN p.props : MQTTProperty_getType(p.props[i].id) = "int4" => p.props[i].num \in Int31
    BY <2>1 DEF Int4sFit
  <2> QED BY <1>1, <1>2, <2>2 DEF PropsFit
<1> QED BY <1>1, <1>2

LEMMA HeaderOnlyBack ==
  ASSUME NEW p, HeaderFits(p, {})
  PROVE  ReadsBack(p, {HeaderOf(p)})
<1> DEFINE h == HeaderOf(p)
<1>1. Agrees(p, h) /\ DOMAIN h = {"type", "version", "dup", "retained"} /\ DOMAIN p = {"type", "version", "dup", "retained"}
  BY HeaderAgrees DEF HeaderFits
<1> HIDE DEF h
<1>2. DOMAIN p \subseteq DOMAIN h
  BY <1>1
<1>3. ReadsBack(p, {h})
  BY <1>1, <1>2, AgreedBack
<1> QED BY <1>3 DEF h

\* What the client sends, where it has a reader for it, is read back.
LEMMA SentIsReadBack ==
  ASSUME Int4sFit, NEW p \in Outgoing, p.type \in {"PUBLISH", "PINGREQ"} \cup Acks
  PROVE  ReadsBack(p, MQTTPacket_Factory(p.version, Framed(p, BodyLen(p), Body(p))))
<1> DEFINE b == Body(p)
           n == BodyLen(p)
           r == MQTTPacket_Factory(p.version, Framed(p, n, b))
<1>1. n = Len(b) /\ n <= MaxLength
  BY BodyWritten DEF HasLen
<1> HIDE DEF b, n
<1>2. ASSUME b \in ByteText, Readable(p) PROVE r = ReadBody(p, b)
  BY <1>1, <1>2, FrameBack
<1> HIDE DEF r
<1>3. CASE p.type = "PUBLISH"
  <2>1. PublishFits(p) /\ PublishPacket(p)
    BY <1>3, ReadableAssumption, OutgoingAssumption
  <2>2. p.dup \in BOOLEAN /\ p.retained \in BOOLEAN /\ p.version \in 3..5 /\ PropsFit(p)
    BY <2>1, HeaderBytes DEF PublishFits
  <2>3. p.qos \in 0..2 /\ p.topic \in ByteText /\ p.payload \in ByteText
    BY <2>1 DEF PublishPacket
  <2>4. b = MQTTPacket_send_publish(p)
    BY <1>3 DEF b, Body, Acks
  <2>5. b \in ByteText /\ ReadsBack(p, ReadPublish(AddFields(HeaderOf(p), [qos |-> QoSOf(p)]), b))
    BY <1>3, <2>1, <2>2, <2>3, <2>4, PublishBack
  <2>6. Readable(p)
    BY <1>3, <2>2, <2>3 DEF Readable
  <2>7. ReadBody(p, b) = ReadPublish(AddFields(HeaderOf(p), [qos |-> QoSOf(p)]), b)
    BY <1>3 DEF ReadBody, Acks
  <2> QED BY <1>2, <2>5, <2>6, <2>7 DEF r, n, b
<1>4. CASE p.type \in Acks
  <2>1. SentAckFits(p)
    BY <1>4, ReadableAssumption
  <2>2. p.dup \in BOOLEAN /\ p.retained \in BOOLEAN /\ p.version \in 3..5
    BY <2>1 DEF SentAckFits, HeaderFits
  <2>3. b = writeInt(p.msgId)
    BY <1>4 DEF b, Body, Acks
  <2>4. b \in ByteText /\ ReadsBack(p, ReadAck(HeaderOf(p), b))
    BY <1>4, <2>1, <2>3, SentAckBack
  <2>5. Readable(p)
    BY <1>4, <2>2 DEF Readable, Acks
  <2>6. ReadBody(p, b) = ReadAck(HeaderOf(p), b)
    BY <1>4 DEF ReadBody, Acks
  <2> QED BY <1>2, <2>4, <2>5, <2>6 DEF r, n, b
<1>5. CASE p.type = "PINGREQ"
  <2>1. HeaderFits(p, {})
    BY <1>5, ReadableAssumption
  <2>2. p.dup \in BOOLEAN /\ p.retained \in BOOLEAN /\ p.version \in 3..5
    BY <2>1 DEF HeaderFits
  <2>3. b = <<>> /\ b \in ByteText
    BY <1>5, EmptyText DEF b, Body, Acks
  <2>4. Readable(p)
    BY <1>5, <2>2 DEF Readable, Acks
  <2>5. ReadBody(p, b) = {HeaderOf(p)}
    BY <1>5 DEF ReadBody, Acks
  <2>6. ReadsBack(p, {HeaderOf(p)})
    BY <2>1, HeaderOnlyBack
  <2> QED BY <1>2, <2>3, <2>4, <2>5, <2>6 DEF r, n, b
<1> QED BY <1>3, <1>4, <1>5

\* What a server sends is read as it was sent.
LEMMA ReceivedIsReadBack ==
  ASSUME Int4sFit, NEW p \in Incoming
  PROVE  /\ ReadsBack(p, MQTTPacket_Factory(p.version, Framed(p, Len(ServerBody(p)), ServerBody(p))))
         /\ p.type = "DISCONNECT" => MQTTPacket_send_disconnect(p) = ServerBody(p)
<1> DEFINE b == ServerBody(p)
           n == Len(b)
           r == MQTTPacket_Factory(p.version, Framed(p, n, b))
<1>1. /\ p.type \in {"CONNACK", "SUBACK", "UNSUBACK", "DISCONNECT", "PINGRESP"} \cup Acks
      /\ p.type = "CONNACK" => ConnackFits(p)
      /\ p.type \in {"SUBACK", "UNSUBACK"} => SubackFits(p)
      /\ p.type \in Acks => AckFits(p)
      /\ p.type = "DISCONNECT" => DisconnectFits(p)
      /\ p.type = "PINGRESP" => HeaderFits(p, {})
      /\ b \in ByteText /\ n <= MaxLength
  BY ReadableAssumption, IncomingAssumption
<1> HIDE DEF b
<1>2. ASSUME Readable(p) PROVE r = ReadBody(p, b)
  BY <1>1, <1>2, FrameBack
<1> HIDE DEF r
<1>3. CASE p.type = "CONNACK"
  <2>1. ConnackFits(p)
    BY <1>1, <1>3
  <2>2. p.dup \in BOOLEAN /\ p.retained \in BOOLEAN /\ p.version \in 3..5 /\ PropsFit(p)
    BY <2>1, HeaderBytes DEF ConnackFits
  <2>3. ReadsBack(p, ReadConnack(HeaderOf(p), b))
    BY <1>3, <2>1, <2>2, ConnackBack DEF b
  <2>4. Readable(p) /\ ReadBody(p, b) = ReadConnack(HeaderOf(p), b)
    BY <1>3, <2>2 DEF Readable, ReadBody, Acks
  <2> QED BY <1>2, <1>3, <2>3, <2>4 DEF r, b
<1>4. CASE p.type \in {"SUBACK", "UNSUBACK"}
  <2>1. SubackFits(p)
    BY <1>1, <1>4
  <2>2. p.dup \in BOOLEAN /\ p.retained \in BOOLEAN /\ p.version \in 3..5 /\ PropsFit(p)
    BY <2>1, HeaderBytes DEF SubackFits
  <2>3. /\ p.type = "SUBACK" => ReadsBack(p, ReadSuback(HeaderOf(p), b))
        /\ p.type = "UNSUBACK" => ReadsBack(p, ReadUnsuback(HeaderOf(p), b))
    BY <1>4, <2>1, <2>2, SubackBack DEF b
  <2>4. /\ Readable(p) /\ p.type # "DISCONNECT"
        /\ p.type = "SUBACK" => ReadBody(p, b) = ReadSuback(HeaderOf(p), b)
        /\ p.type = "UNSUBACK" => ReadBody(p, b) = ReadUnsuback(HeaderOf(p), b)
    BY <1>4, <2>2 DEF Readable, ReadBody, Acks
  <2> QED BY <1>2, <1>4, <2>3, <2>4 DEF r, b
<1>5. CASE p.type \in Acks
  <2>1. AckFits(p)
    BY <1>1, <1>5
  <2>2. p.dup \in BOOLEAN /\ p.retained \in BOOLEAN /\ p.version \in 3..5 /\ PropsFit(p)
    BY <2>1, HeaderBytes DEF AckFits
  <2>3. ReadsBack(p, ReadAck(HeaderOf(p), b))
    BY <1>5, <2>1, <2>2, AckBack DEF b
  <2>4. Readable(p) /\ ReadBody(p, b) = ReadAck(HeaderOf(p), b) /\ p.type # "DISCONNECT"
    BY <1>5, <2>2 DEF Readable, ReadBody, Acks
  <2> QED BY <1>2, <2>3, <2>4 DEF r, b
<1>6. CASE p.type = "DISCONNECT"
  <2>1. DisconnectFits(p)
    BY <1>1, <1>6
  <2>2. p.dup \in BOOLEAN /\ p.retained \in BOOLEAN /\ p.version \in 3..5 /\ PropsFit(p)
    BY <2>1, HeaderBytes DEF DisconnectFits
  <2>3. ReadsBack(p, ReadAck(HeaderOf(p), b)) /\ MQTTPacket_send_disconnect(p) = b
    BY <1>6, <2>1, <2>2, DisconnectBack DEF b
  <2>4. Readable(p) /\ ReadBody(p, b) = ReadAck(HeaderOf(p), b)
    BY <1>6, <2>2 DEF Readable, ReadBody, Acks
  <2> QED BY <1>2, <2>3, <2>4 DEF r, b
<1>7. CASE p.type = "PINGRESP"
  <2>1. HeaderFits(p, {})
    BY <1>1, <1>7
  <2>2. p.dup \in BOOLEAN /\ p.retained \in BOOLEAN /\ p.version \in 3..5
    BY <2>1 DEF HeaderFits
  <2>3. Readable(p) /\ ReadBody(p, b) = {HeaderOf(p)}
    BY <1>7, <2>2 DEF Readable, ReadBody, Acks
  <2>4. ReadsBack(p, {HeaderOf(p)})
    BY <2>1, HeaderOnlyBack
  <2> QED BY <1>2, <1>7, <2>3, <2>4 DEF r, b
<1> QED BY <1>1, <1>3, <1>4, <1>5, <1>6, <1>7

\* the bytes are those of the packet
Built ==
  \/ built = NotBuilt
  \/ packet \in Outgoing /\ built.bytes = Framed(packet, BodyLen(packet), Body(packet))
  \/ packet \in Incoming /\ built.bytes = Framed(packet, Len(ServerBody(packet)), ServerBody(packet))
CodecInv == packet \in Outgoing \cup Incoming /\ Built /\ ReadAsSent

\* Whoever has built the bytes, they are read back.
LEMMA BuiltIsReadBack ==
  ASSUME Int4sFit, CodecInv, built # NotBuilt, packet.type \notin {"CONNECT", "SUBSCRIBE", "UNSUBSCRIBE"},
         packet.type = "DISCONNECT" => packet \in Incoming
  PROVE  ReadsBack(packet, MQTTPacket_Factory(packet.version, built.bytes))
<1>1. CASE packet \in Incoming /\ built.bytes = Framed(packet, Len(ServerBody(packet)), ServerBody(packet))
  BY <1>1, ReceivedIsReadBack
<1>2. CASE packet \in Outgoing /\ built.bytes = Framed(packet, BodyLen(packet), Body(packet))
  <2>1. packet.type \in {"CONNECT", "SUBSCRIBE", "UNSUBSCRIBE", "PUBLISH", "DISCONNECT", "PINGREQ"} \cup Acks
    BY <1>2, OutgoingAssumption
  <2>2. CASE packet.type \in {"PUBLISH", "PINGREQ"} \cup Acks
    BY <1>2, <2>2, SentIsReadBack
  <2>3. CASE packet.type = "DISCONNECT"
    <3> DEFINE b == ServerBody(packet)
    <3>1. packet \in Incoming
      BY <2>3
    <3>2. MQTTPacket_send_disconnect(packet) = b /\ ReadsBack(packet, MQTTPacket_Factory(packet.version, Framed(packet, Len(b), b)))
      BY <2>3, <3>1, ReceivedIsReadBack
    <3>3. Body(packet) = MQTTPacket_send_disconnect(packet)
      BY <2>3 DEF Body, Acks
    <3>4. BodyLen(packet) = Len(Body(packet))
      BY <1>2, BodyWritten DEF HasLen
    <3> QED BY <1>2, <3>2, <3>3, <3>4
  <2> QED BY <2>1, <2>2, <2>3
<1> QED BY <1>1, <1>2 DEF CodecInv, Built

\* A packet that the client or the server sends is read with the fields it
\* was sent with, whatever its type, version and property list are, if
\* four byte properties are below 2^31.
THEOREM FieldsAreReadBack == ASSUME Int4sFit PROVE CodecSpec => []ReadAsSent
<1>1. CodecInit => CodecInv
  BY DEF CodecInit, BuildInit, CodecInv, Built, ReadAsSent
<1>2. CodecInv /\ [CodecNext]_codecVars => CodecInv'
  <2> SUFFICES ASSUME CodecInv, [CodecNext]_codecVars PROVE CodecInv'
    OBVIOUS
  <2>1. CASE SendPacket /\ UNCHANGED got
    <3>1. packet \in Outgoing /\ packet' = packet /\ got' = got
          /\ built' = [len |-> BodyLen(packet), bytes |-> Framed(packet, BodyLen(packet), Body(packet))]
      BY <2>1 DEF SendPacket
    <3>2. Built'
      BY <3>1, Zenon DEF Built
    <3>3. ReadAsSent'
      BY <3>1 DEF CodecInv, ReadAsSent
    <3> QED BY <3>1, <3>2, <3>3 DEF CodecInv
  <2>2. CASE ServerSends /\ UNCHANGED got
    <3> DEFINE body == ServerBody(packet)
               bytes == Framed(packet, Len(body), body)
    <3>1. packet \in Incoming /\ packet' = packet /\ got' = got /\ built' = [len |-> Len(body), bytes |-> bytes]
      BY <2>2 DEF ServerSends
    <3>2. Built'
      BY <3>1, Zenon DEF Built
    <3>3. ReadAsSent'
      BY <3>1 DEF CodecInv, ReadAsSent
    <3> QED BY <3>1, <3>2, <3>3 DEF CodecInv
  <2>3. CASE ReadPacket
    <3> DEFINE r == MQTTPacket_Factory(packet.version, built.bytes)
    <3>1. built # NotBuilt /\ packet' = packet /\ built' = built
          /\ packet.type \notin {"CONNECT", "SUBSCRIBE", "UNSUBSCRIBE"} /\ (packet.type = "DISCONNECT" => packet \in Incoming)
          /\ got' = IF r = {} THEN [type |-> "malformed"] ELSE Only(r)
      BY <2>3 DEF ReadPacket
    <3>2. ReadsBack(packet, r)
      BY <3>1, BuiltIsReadBack
    <3>3. PICK x : r = {x} /\ \A f \in DOMAIN packet : f \in DOMAIN x /\ x[f] = packet[f]
      BY <3>2 DEF ReadsBack
    <3> HIDE DEF r
    <3>4. got' = x
      BY <3>1, <3>3, OnlyOf
    <3>5. ReadAsSent'
      BY <3>1, <3>3, <3>4 DEF ReadAsSent
    <3>6. Built'
      BY <3>1 DEF CodecInv, Built
    <3> QED BY <3>1, <3>5, <3>6 DEF CodecInv
  <2>4. CASE UNCHANGED codecVars
    BY <2>4 DEF codecVars, CodecInv, Built, ReadAsSent
  <2> QED BY <2>1, <2>2, <2>3, <2>4 DEF CodecNext
<1>3. CodecInv => ReadAsSent
  BY DEF CodecInv
<1> QED BY <1>1, <1>2, <1>3, PTL DEF CodecSpec

=============================================================================
