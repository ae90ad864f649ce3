----------------------------- MODULE PacketCodec -----------------------------
(***************************************************************************)
(* Reading MQTT packets: MQTTPacket.c, MQTTPacketOut.c and                 *)
(* MQTTProperties.c.  A received packet is read field by field.  What the  *)
(* client sends is read back here by the same code where it has a reader   *)
(* (PUBLISH and acknowledgements).                                         *)
(***************************************************************************)
EXTENDS PacketBuild

VARIABLE got         \* what was read of the bytes, or NotRead

codecVars == <<packet, built, got>>

NotRead == [type |-> "none"]

Rest(b, n) == SubSeq(b, n + 1, Len(b))

readInt(b) == 256 * b[1] + b[2]
\* an int of 32 bits: a first byte of 128 or more makes it negative
readInt4(b) == 16777216 * (IF b[1] < 128 THEN b[1] ELSE b[1] - 256) + 65536 * b[2] + 256 * b[3] + b[4]

\* at most 4 bytes, the last one is below 128: value and number of bytes read
VBIlast(b) == CHOOSE i \in 1..4 : (b[i] < 128 \/ i = 4) /\ \A j \in 1..(i - 1) : b[j] >= 128
VBIdecode(b) ==
  LET digit(i) == IF i <= VBIlast(b) THEN b[i] % 128 ELSE 0
  IN [len |-> VBIlast(b), value |-> digit(1) + 128 * digit(2) + 16384 * digit(3) + 2097152 * digit(4)]

\* MQTTLenStringRead and readUTFlen: a length that goes past the end is an error
LenStringFits(b) == Len(b) > 1 /\ readInt(b) <= Len(b) - 2
LenStringRead(b) == SubSeq(b, 3, 2 + readInt(b))

\* a property and the number of bytes it took; none if a string goes past the end
MQTTProperty_read(b) ==
  LET id   == b[1]
      type == MQTTProperty_getType(id)
      v    == Rest(b, 1)
      prop(len, num, data, value) == {[len |-> len + 1, p |-> [id |-> id, num |-> num, data |-> data, value |-> value]]}
  IN CASE type = "byte" -> prop(1, v[1], <<>>, <<>>)
       [] type = "int2" -> prop(2, readInt(v), <<>>, <<>>)
       [] type = "int4" -> prop(4, readInt4(v), <<>>, <<>>)
       [] type = "vbi" -> prop(VBIdecode(v).len, VBIdecode(v).value, <<>>, <<>>)
       [] type \in {"data", "utf"} ->
            IF LenStringFits(v) THEN prop(2 + readInt(v), 0, LenStringRead(v), <<>>) ELSE {}
       [] type = "pair" ->
            IF ~LenStringFits(v) THEN {}
            ELSE LET w == Rest(v, 2 + readInt(v))
                 IN IF LenStringFits(w)
                    THEN prop(4 + readInt(v) + readInt(w), 0, LenStringRead(v), LenStringRead(w)) ELSE {}
       [] OTHER -> {}

\* the loop of MQTTProperties_read: what has been read, how many bytes are left, and the bytes
ReadNext(s) ==
  LET r == MQTTProperty_read(s.rest)
      room == IF Len(s.array) = s.max_count THEN s.max_count + 10 ELSE s.max_count
  IN IF s.left = 0 \/ r = {} THEN s
     ELSE [array |-> Append(s.array, Only(r).p), max_count |-> room,
           left |-> s.left - Only(r).len, rest |-> Rest(s.rest, Only(r).len)]

\* the set of results: one, or none if it is malformed; a property has two bytes at least
MQTTProperties_read(b) ==
  LET l == VBIdecode(b)
      rounds == l.value \div 2
      read[n \in 0..rounds] ==
        IF n = 0 THEN [array |-> <<>>, max_count |-> 0, left |-> l.value, rest |-> Rest(b, l.len)]
        ELSE ReadNext(read[n - 1])
      end == read[rounds]
  IN IF b = <<>> \/ end.left # 0 THEN {} ELSE {[props |-> end.array, rest |-> end.rest]}

(***************************************************************************)
(* Reading: MQTTPacket_Factory and the functions of new_packets.  The      *)
(* result is a set with the packet, or empty if it is malformed.           *)
(***************************************************************************)
WithProperties(p, b) ==   \* the properties at the start of b, and what is left
  IF V5(p) THEN MQTTProperties_read(b) ELSE {[props |-> <<>>, rest |-> b]}

\* the header p with the fields q
AddFields(p, q) == [f \in DOMAIN p \cup DOMAIN q |-> IF f \in DOMAIN q THEN q[f] ELSE p[f]]

ReadPublish(p, b) ==
  IF ~LenStringFits(b) THEN {}
  ELSE LET topic == LenStringRead(b)
           r  == Rest(b, 2 + Len(topic))
           id == IF p.qos > 0 THEN readInt(r) ELSE 0
       IN {AddFields(p, [topic |-> topic, msgId |-> id, props |-> w.props, payload |-> w.rest]) :
             w \in WithProperties(p, IF p.qos > 0 THEN Rest(r, 2) ELSE r)}

\* A reader that takes the reason code only if properties follow it.
ReadAckShort(p, b) ==
  IF V5(p) /\ Len(b) > 3
  THEN LET r == IF p.type # "DISCONNECT" THEN Rest(b, 2) ELSE b
       IN {AddFields(p, [msgId |-> readInt(b), rc |-> r[1], props |-> w.props]) : w \in MQTTProperties_read(Rest(r, 1))}
  ELSE {AddFields(p, [msgId |-> readInt(b), rc |-> 0, props |-> <<>>])}

ReadAck(p, b) ==
  LET hasId == p.type # "DISCONNECT"
      r  == IF hasId THEN Rest(b, 2) ELSE b
      rc == IF V5(p) /\ Len(b) > 2 THEN r[1] ELSE 0
      q  == AddFields(p, [msgId |-> IF hasId THEN readInt(b) ELSE 0, rc |-> rc])
  IN IF V5(p) /\ Len(b) > 3
     THEN {AddFields(q, [props |-> w.props]) : w \in MQTTProperties_read(Rest(r, 1))}
     ELSE {AddFields(q, [props |-> <<>>])}

ReadConnack(p, b) ==
  LET q == AddFields(p, [flags |-> b[1], rc |-> b[2]])
  IN IF ~V5(p) THEN (IF Len(b) = 2 THEN {AddFields(q, [props |-> <<>>])} ELSE {})
     ELSE IF Len(b) > 2 THEN {AddFields(q, [props |-> w.props]) : w \in MQTTProperties_read(Rest(b, 2))}
     ELSE {AddFields(q, [props |-> <<>>])}

ReadSuback(p, b) ==
  {AddFields(p, [msgId |-> readInt(b), props |-> w.props, codes |-> w.rest]) :
     w \in {x \in WithProperties(p, Rest(b, 2)) : x.rest # <<>>}}

\* reason codes came with MQTT 5
ReadUnsuback(p, b) ==
  IF V5(p) THEN ReadSuback(p, b) ELSE {AddFields(p, [msgId |-> readInt(b), props |-> <<>>, codes |-> <<>>])}

MQTTPacket_Factory(version, b) ==
  LET l  == VBIdecode(Rest(b, 1))
      body == SubSeq(b, 2 + l.len, 1 + l.len + l.value)
      type == Types[b[1] \div 16]
      p  == [type |-> type, version |-> version, dup |-> (b[1] \div 8) % 2 = 1, retained |-> b[1] % 2 = 1]
  IN CASE type = "PUBLISH" -> ReadPublish(AddFields(p, [qos |-> (b[1] \div 2) % 4]), body)
       [] type \in Acks \cup {"DISCONNECT"} -> ReadAck(p, body)
       [] type = "CONNACK" -> ReadConnack(p, body)
       [] type = "SUBACK" -> ReadSuback(p, body)
       [] type = "UNSUBACK" -> ReadUnsuback(p, body)
       [] OTHER -> {p}                                   \* MQTTPacket_header_only

(***************************************************************************)
(* The packets that can be read back: numbers fit their field, text is no  *)
(* longer than its length can say, and a packet has the fields of its type *)
(* and version.  A property has a value of its type and nothing else.      *)
(***************************************************************************)
Word == 0..65535
NumberOf(type) ==
  CASE type = "byte" -> 0..255 [] type = "int2" -> Word [] type = "int4" -> Int [] type = "vbi" -> Nat
    [] OTHER -> {0}
TextIf(b) == {s \in ByteText : Len(s) \in Word /\ (b \/ s = <<>>)}

PropertyFits(p) ==
  LET type == MQTTProperty_getType(p.id)
  IN /\ p \in Properties /\ type # "invalid" /\ p.num \in NumberOf(type)
     /\ p.data \in TextIf(type \in {"data", "utf", "pair"}) /\ p.value \in TextIf(type = "pair")

PropertiesFit(p) ==
  /\ p.props \in PropertyLists /\ \A i \in DOMAIN p.props : PropertyFits(p.props[i])
  /\ IF V5(p) THEN MQTTProperties_len(PropertiesOf(p.props)) <= MaxLength ELSE p.props = <<>>

HeaderFits(p, fields) ==
  /\ DOMAIN p = {"type", "version", "dup", "retained"} \cup fields
  /\ p.version \in 3..5 /\ p.dup \in BOOLEAN /\ p.retained \in BOOLEAN

PublishFits(p) ==
  /\ HeaderFits(p, {"qos", "topic", "msgId", "props", "payload"}) /\ PropertiesFit(p)
  /\ p.msgId \in Word /\ (p.qos = 0 => p.msgId = 0) /\ Len(p.topic) \in Word
SentAckFits(p) == HeaderFits(p, {"msgId"}) /\ p.msgId \in Word

AckFits(p) ==
  /\ HeaderFits(p, {"msgId", "rc", "props"}) /\ PropertiesFit(p)
  /\ p.msgId \in Word /\ p.rc \in 0..255 /\ (V5(p) \/ p.rc = 0)
ConnackFits(p) == HeaderFits(p, {"flags", "rc", "props"}) /\ PropertiesFit(p) /\ p.flags \in 0..255 /\ p.rc \in 0..255
SubackFits(p) ==   \* and UNSUBACK, which has reason codes since MQTT 5
  /\ HeaderFits(p, {"msgId", "props", "codes"}) /\ PropertiesFit(p) /\ p.msgId \in Word /\ p.codes \in ByteText
  /\ (p.codes = <<>>) = (p.type = "UNSUBACK" /\ ~V5(p))
DisconnectFits(p) ==   \* of fewer than three bytes, the reason code is not read
  HeaderFits(p, {"rc", "props"}) /\ PropertiesFit(p) /\ p.rc \in 0..255 /\ p.props # <<>>

ASSUME ReadableAssumption ==
  /\ \A p \in Outgoing :
       /\ p.type = "PUBLISH" => PublishFits(p)
       /\ p.type \in Acks => SentAckFits(p)
       /\ p.type = "PINGREQ" => HeaderFits(p, {})
  /\ \A p \in Incoming :
       /\ p.type \in {"CONNACK", "SUBACK", "UNSUBACK", "DISCONNECT", "PINGRESP"} \cup Acks
       /\ p.type = "CONNACK" => ConnackFits(p)
       /\ p.type \in {"SUBACK", "UNSUBACK"} => SubackFits(p)
       /\ p.type \in Acks => AckFits(p)
       /\ p.type = "DISCONNECT" => DisconnectFits(p)
       /\ p.type = "PINGRESP" => HeaderFits(p, {})

\* Four byte properties that writeInt4 and readInt4 do not make negative.
Int31 == {n \in Nat : n <= 2147483647}
Int4sFit ==
  \A p \in Outgoing \cup Incoming : "props" \in DOMAIN p =>
    \A i \in DOMAIN p.props : MQTTProperty_getType(p.props[i].id) = "int4" => p.props[i].num \in Int31

(***************************************************************************)
(* The steps.                                                              *)
(***************************************************************************)
CodecInit == BuildInit /\ got = NotRead

\* the client reads it; a PUBLISH or an acknowledgement of its own is read as if it came back
ReadPacket ==
  /\ built # NotBuilt /\ got = NotRead
  /\ packet.type \notin {"CONNECT", "SUBSCRIBE", "UNSUBSCRIBE"} /\ (packet.type = "DISCONNECT" => packet \in Incoming)
  /\ LET r == MQTTPacket_Factory(packet.version, built.bytes)
     IN got' = IF r = {} THEN [type |-> "malformed"] ELSE Only(r)
  /\ UNCHANGED <<packet, built>>

CodecNext ==
  \/ SendPacket /\ UNCHANGED got
  \/ ServerSends /\ UNCHANGED got
  \/ ReadPacket

CodecSpec == CodecInit /\ [][CodecNext]_codecVars

(***************************************************************************)
(* What must hold.                                                         *)
(***************************************************************************)
\* Every field of a packet is read back as it was sent, the properties in
\* order and with their values (MQTTPacket.c:553-594, 783-822,
\* MQTTPacketOut.c:141-179, 291-346, 407-463, MQTTProperties.c:165-344).
ReadAsSent ==
  got # NotRead => \A f \in DOMAIN packet : f \in DOMAIN got /\ got[f] = packet[f]
=============================================================================
