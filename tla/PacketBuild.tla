----------------------------- MODULE PacketBuild -----------------------------
(***************************************************************************)
(* Building MQTT packets: MQTTPacket.c, MQTTPacketOut.c and                *)
(* MQTTProperties.c.  A packet is built in a buffer whose length is        *)
(* computed first and filled afterwards by writeInt, writeUTF and so on.   *)
(* Bytes are 0..255; text is a sequence of bytes.  What only a server      *)
(* sends is built as the MQTT standard says (ServerBody).                  *)
(***************************************************************************)
EXTENDS Integers, Sequences, SequencesExt

CONSTANTS Outgoing,   \* the packets the client is asked to send
          Incoming    \* the packets a server sends

VARIABLES packet,     \* the packet in question
          built       \* what was built of it: length computed, bytes written; or NotBuilt

buildVars == <<packet, built>>

NotBuilt == [len |-> 0, bytes |-> <<>>]

Types == <<"CONNECT", "CONNACK", "PUBLISH", "PUBACK", "PUBREC", "PUBREL", "PUBCOMP", "SUBSCRIBE",
           "SUBACK", "UNSUBSCRIBE", "UNSUBACK", "PINGREQ", "PINGRESP", "DISCONNECT", "AUTH">>
TypeCode(type) == CHOOSE i \in DOMAIN Types : Types[i] = type
Acks == {"PUBACK", "PUBREC", "PUBREL", "PUBCOMP"}

(***************************************************************************)
(* Integers.  writeInt4 divides a signed int, as C does, towards zero.     *)
(***************************************************************************)
CDiv(a, n) == IF a >= 0 THEN a \div n ELSE -((-a) \div n)
CMod(a, n) == a - n * CDiv(a, n)

writeChar(c) == <<c>>
writeInt(n) == <<(n \div 256) % 256, n % 256>>
writeInt4(n) == LET r == CMod(n, 16777216)
                    s == CMod(r, 65536)
                IN <<CDiv(n, 16777216) % 256, CDiv(r, 65536) % 256, CDiv(s, 256) % 256, CMod(s, 256) % 256>>
\* writeUTF, writeData and writeMQTTLenString
writeUTF(s) == writeInt(Len(s)) \o s

\* The variable byte integers of remaining lengths and property lengths
MQTTPacket_encode(n) ==
  LET digits[m \in 0..n] == IF m < 128 THEN <<m>> ELSE <<(m % 128) + 128>> \o digits[m \div 128]
  IN digits[n]

MQTTPacket_VBIlen(n) == IF n < 128 THEN 1 ELSE IF n < 16384 THEN 2 ELSE IF n < 2097152 THEN 3 ELSE 4

(***************************************************************************)
(* Property lists: an array that grows by 10, and the length of its        *)
(* encoding, kept up to date by every addition.                            *)
(***************************************************************************)
MQTTProperty_getType(id) ==
  CASE id \in {1, 23, 25, 36, 37, 40, 41, 42} -> "byte"
    [] id \in {19, 33, 34, 35} -> "int2"
    [] id \in {2, 17, 24, 39} -> "int4"
    [] id = 11 -> "vbi"
    [] id \in {9, 22} -> "data"
    [] id \in {3, 8, 18, 21, 26, 28, 31} -> "utf"
    [] id = 38 -> "pair"
    [] OTHER -> "invalid"

NoProperties == [array |-> <<>>, max_count |-> 0, length |-> 0]

ValueLen(p) ==
  LET type == MQTTProperty_getType(p.id)
  IN CASE type = "byte" -> 1 [] type = "int2" -> 2 [] type = "int4" -> 4
       [] type = "vbi" -> MQTTPacket_VBIlen(p.num)
       [] type \in {"data", "utf"} -> 2 + Len(p.data)
       [] type = "pair" -> 2 + Len(p.data) + 2 + Len(p.value)

\* An addition that forgets the length of the second string of a pair.
PropertyLenNoValue(p) ==
  IF MQTTProperty_getType(p.id) = "pair" THEN 3 + Len(p.data) ELSE ValueLen(p) + 1

PropertyLen(p) == ValueLen(p) + 1

MQTTProperties_add(props, p) ==
  IF MQTTProperty_getType(p.id) = "invalid" THEN props   \* MQTT_INVALID_PROPERTY_ID
  ELSE [array |-> Append(props.array, p),
        max_count |-> IF Len(props.array) = props.max_count THEN props.max_count + 10 ELSE props.max_count,
        length |-> props.length + PropertyLen(p)]

\* MQTTProperties_copy, with which the library takes over the list of its caller
MQTTProperties_copy(list) ==
  LET copied[n \in 0..Len(list)] == IF n = 0 THEN NoProperties ELSE MQTTProperties_add(copied[n - 1], list[n])
  IN copied[Len(list)]

MQTTProperties_len(props) == props.length + MQTTPacket_VBIlen(props.length)

MQTTProperty_write(p) ==
  LET type == MQTTProperty_getType(p.id)
  IN writeChar(p.id) \o
     (CASE type = "byte" -> writeChar(p.num) [] type = "int2" -> writeInt(p.num)
        [] type = "int4" -> writeInt4(p.num) [] type = "vbi" -> MQTTPacket_encode(p.num)
        [] type \in {"data", "utf"} -> writeUTF(p.data)
        [] type = "pair" -> writeUTF(p.data) \o writeUTF(p.value))

MQTTProperties_write(props) ==
  MQTTPacket_encode(props.length) \o FlattenSeq([i \in DOMAIN props.array |-> MQTTProperty_write(props.array[i])])

(***************************************************************************)
(* What the client sends: the length it allocates and what it writes.      *)
(***************************************************************************)
V5(p) == p.version >= 5
Only(set) == CHOOSE x \in set : TRUE    \* an option that is set is a singleton
SumLens(strings) ==
  LET sum[n \in 0..Len(strings)] == IF n = 0 THEN 0 ELSE sum[n - 1] + Len(strings[n])
  IN sum[Len(strings)]
PropertiesOf(list) == MQTTProperties_copy(list)

ConnectLen(p) ==
  (IF p.version = 3 THEN 12 ELSE 10) + Len(p.clientID) + 2
  + (IF p.will # {} THEN 2 + 2 + Len(Only(p.will)[1]) + Len(Only(p.will)[2]) ELSE 0)      \* topic and payload
  + (IF p.username # {} THEN 2 + Len(Only(p.username)) ELSE 0)
  + (IF p.password # {} THEN 2 + Len(Only(p.password)) ELSE 0)
  + (IF V5(p) THEN MQTTProperties_len(PropertiesOf(p.props))
                   + (IF p.will # {} THEN MQTTProperties_len(PropertiesOf(p.willProps)) ELSE 0) ELSE 0)

\* a flag of the header bytes
Flag(b, weight) == IF b THEN weight ELSE 0

MQTTPacket_send_connect(p) ==
  LET name  == IF p.version = 3 THEN 6 ELSE 4         \* "MQIsdp" or "MQTT"
      flags == Flag(p.clean, 2) + Flag(p.will # {}, 4 + 8 * p.willQoS + Flag(p.willRetain, 32))
               + Flag(p.password # {}, 64) + Flag(p.username # {}, 128)
  IN writeUTF([i \in 1..name |-> 77]) \o writeChar(p.version) \o writeChar(flags) \o writeInt(p.keepAlive)
     \o (IF V5(p) THEN MQTTProperties_write(PropertiesOf(p.props)) ELSE <<>>)
     \o writeUTF(p.clientID)
     \o (IF p.will = {} THEN <<>>
         ELSE (IF V5(p) THEN MQTTProperties_write(PropertiesOf(p.willProps)) ELSE <<>>)
              \o writeUTF(Only(p.will)[1]) \o writeUTF(Only(p.will)[2]))
     \o (IF p.username = {} THEN <<>> ELSE writeUTF(Only(p.username)))
     \o (IF p.password = {} THEN <<>> ELSE writeUTF(Only(p.password)))

SubscribeLen(p) ==
  2 + Len(p.topics) * 3 + SumLens(p.topics) + (IF V5(p) THEN MQTTProperties_len(PropertiesOf(p.props)) ELSE 0)

MQTTPacket_send_subscribe(p) ==
  LET subopts(i) == p.qoss[i] + (IF V5(p) THEN Flag(p.opts[i].noLocal, 4) + Flag(p.opts[i].retainAsPublished, 8)
                                               + 16 * p.opts[i].retainHandling ELSE 0)
  IN writeInt(p.msgId) \o (IF V5(p) THEN MQTTProperties_write(PropertiesOf(p.props)) ELSE <<>>)
     \o FlattenSeq([i \in DOMAIN p.topics |-> writeUTF(p.topics[i]) \o writeChar(subopts(i))])

UnsubscribeLen(p) ==
  2 + Len(p.topics) * 2 + SumLens(p.topics) + (IF V5(p) THEN MQTTProperties_len(PropertiesOf(p.props)) ELSE 0)

MQTTPacket_send_unsubscribe(p) ==
  writeInt(p.msgId) \o (IF V5(p) THEN MQTTProperties_write(PropertiesOf(p.props)) ELSE <<>>)
  \o FlattenSeq([i \in DOMAIN p.topics |-> writeUTF(p.topics[i])])

\* four buffers, of which the first three are written here
PublishLen(p) ==
  2 + Len(p.topic) + (IF p.qos > 0 THEN 2 ELSE 0)
  + (IF V5(p) THEN MQTTProperties_len(PropertiesOf(p.props)) ELSE 0) + Len(p.payload)

MQTTPacket_send_publish(p) ==
  writeInt(Len(p.topic)) \o p.topic \o (IF p.qos > 0 THEN writeInt(p.msgId) ELSE <<>>)
  \o (IF V5(p) THEN MQTTProperties_write(PropertiesOf(p.props)) ELSE <<>>) \o p.payload

DisconnectLen(p) ==
  IF V5(p) /\ (p.props # <<>> \/ p.rc # 0)
  THEN 1 + (IF p.props = <<>> THEN 0 ELSE MQTTProperties_len(PropertiesOf(p.props))) ELSE 0

MQTTPacket_send_disconnect(p) ==
  IF V5(p) /\ (p.props # <<>> \/ p.rc # 0)
  THEN writeChar(p.rc) \o (IF p.props = <<>> THEN <<>> ELSE MQTTProperties_write(PropertiesOf(p.props))) ELSE <<>>

Body(p) ==
  CASE p.type = "CONNECT" -> MQTTPacket_send_connect(p)
    [] p.type = "SUBSCRIBE" -> MQTTPacket_send_subscribe(p)
    [] p.type = "UNSUBSCRIBE" -> MQTTPacket_send_unsubscribe(p)
    [] p.type = "PUBLISH" -> MQTTPacket_send_publish(p)
    [] p.type = "DISCONNECT" -> MQTTPacket_send_disconnect(p)
    [] p.type \in Acks -> writeInt(p.msgId)              \* MQTTPacket_send_ack
    [] p.type = "PINGREQ" -> <<>>

BodyLen(p) ==
  CASE p.type = "CONNECT" -> ConnectLen(p)
    [] p.type = "SUBSCRIBE" -> SubscribeLen(p)
    [] p.type = "UNSUBSCRIBE" -> UnsubscribeLen(p)
    [] p.type = "PUBLISH" -> PublishLen(p)
    [] p.type = "DISCONNECT" -> DisconnectLen(p)
    [] p.type \in Acks -> 2
    [] p.type = "PINGREQ" -> 0

QoSOf(p) == CASE p.type = "PUBLISH" -> p.qos [] p.type \in {"PUBREL", "SUBSCRIBE", "UNSUBSCRIBE"} -> 1 [] OTHER -> 0
Header(p) == 16 * TypeCode(p.type) + Flag(p.dup, 8) + 2 * QoSOf(p) + Flag(p.retained, 1)

\* MQTTPacket_send and MQTTPacket_sends: the header and the remaining length go in front
Framed(p, len, body) == <<Header(p)>> \o MQTTPacket_encode(len) \o body

(***************************************************************************)
(* What a server sends, after the MQTT standard.                           *)
(***************************************************************************)
ServerBody(p) ==
  LET props == IF V5(p) THEN MQTTProperties_write(PropertiesOf(p.props)) ELSE <<>>
  IN CASE p.type = "CONNACK" -> <<p.flags, p.rc>> \o props
       [] p.type \in {"SUBACK", "UNSUBACK"} -> writeInt(p.msgId) \o props \o p.codes
       [] p.type \in Acks -> writeInt(p.msgId) \o (IF V5(p) /\ p.props # <<>> THEN <<p.rc>> \o props
                                                   ELSE IF p.rc # 0 THEN <<p.rc>> ELSE <<>>)
       [] p.type = "DISCONNECT" -> <<p.rc>> \o props
       [] OTHER -> <<>>

(***************************************************************************)
(* The packets: fields are text and numbers, and what is sent is within    *)
(* the largest remaining length that MQTT has.                             *)
(***************************************************************************)
MaxLength == 268435455
ByteText == Seq(0..255)
Properties ==
  {p \in [id : 0..255, num : Int, data : ByteText, value : ByteText] :
     MQTTProperty_getType(p.id) = "vbi" => p.num \in Nat /\ p.num <= MaxLength}
PropertyLists == Seq(Properties)

ConnectPacket(p) ==
  /\ p.clientID \in ByteText /\ p.username \subseteq ByteText /\ p.password \subseteq ByteText /\ p.will \subseteq ByteText \X ByteText
  /\ p.props \in PropertyLists /\ p.willProps \in PropertyLists
TopicsPacket(p) == p.topics \in Seq(ByteText) /\ p.props \in PropertyLists
PublishPacket(p) ==
  /\ p.topic \in ByteText /\ p.payload \in ByteText /\ p.qos \in 0..2 /\ p.props \in PropertyLists
DisconnectPacket(p) == p.props \in PropertyLists

ASSUME OutgoingAssumption ==
  \A p \in Outgoing :
    /\ p.type \in {"CONNECT", "SUBSCRIBE", "UNSUBSCRIBE", "PUBLISH", "DISCONNECT", "PINGREQ"} \cup Acks
    /\ p.version \in 3..5
    /\ p.type = "CONNECT" => ConnectPacket(p)
    /\ p.type \in {"SUBSCRIBE", "UNSUBSCRIBE"} => TopicsPacket(p)
    /\ p.type = "PUBLISH" => PublishPacket(p)
    /\ p.type = "DISCONNECT" => DisconnectPacket(p)
    /\ BodyLen(p) <= MaxLength

ASSUME IncomingAssumption ==
  \A p \in Incoming : ServerBody(p) \in ByteText /\ Len(ServerBody(p)) <= MaxLength

(***************************************************************************)
(* The steps.                                                              *)
(***************************************************************************)
BuildInit == packet \in Outgoing \cup Incoming /\ built = NotBuilt

SendPacket ==
  /\ packet \in Outgoing /\ built = NotBuilt
  /\ built' = [len |-> BodyLen(packet), bytes |-> Framed(packet, BodyLen(packet), Body(packet))]
  /\ UNCHANGED packet

ServerSends ==
  /\ packet \in Incoming /\ built = NotBuilt
  /\ built' = LET body == ServerBody(packet)
              IN [len |-> Len(body), bytes |-> Framed(packet, Len(body), body)]
  /\ UNCHANGED packet

BuildNext == SendPacket \/ ServerSends

BuildSpec == BuildInit /\ [][BuildNext]_buildVars

(***************************************************************************)
(* What must hold.                                                         *)
(***************************************************************************)
\* The bytes the client writes for a packet are exactly as many as it has
\* allocated and announced as the remaining length (MQTTPacketOut.c:60,
\* 247, 376, MQTTPacket.c:851, 521): a packet of any version, with property
\* lists at the edges of a variable byte integer and of the array that holds
\* them, neither overruns its buffer nor shifts the next packet.
LengthIsExact ==
  built # NotBuilt => Len(built.bytes) = 1 + MQTTPacket_VBIlen(built.len) + built.len
=============================================================================
