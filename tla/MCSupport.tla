------------------------------ MODULE MCSupport ------------------------------
(***************************************************************************)
(* The parts of the library under the clients, each on its own: a          *)
(* behaviour picks one of them and leaves the others in their initial      *)
(* state.                                                                  *)
(***************************************************************************)
EXTENDS HeapTree, LinkedList, TraceLog, FileStore, PacketCodec, TextCodec, MCTransport

VARIABLE unit

Str(n) == [i \in 1..n |-> 97]
Prop(id, num, data, value) == [id |-> id, num |-> num, data |-> data, value |-> value]
UserProps(n) == [i \in 1..n |-> Prop(38, 0, Str(1), Str(2))]

\* one property of each type; eleven, so that the array grows; encodings of 127 and 128 bytes
PropLists == { <<>>,
  << Prop(1, 255, <<>>, <<>>), Prop(33, 65535, <<>>, <<>>), Prop(17, 2147483647, <<>>, <<>>),
     Prop(11, 16384, <<>>, <<>>), Prop(9, 0, <<0, 255>>, <<>>), Prop(31, 0, <<>>, <<>>) >>,
  UserProps(11), << Prop(3, 0, Str(124), <<>>) >>, << Prop(11, 127, <<>>, <<>>), Prop(3, 0, Str(123), <<>>) >> }

Versions == {3, 4, 5}
Common(type, v) == [type |-> type, version |-> v, dup |-> FALSE, retained |-> FALSE]

MCOutgoing ==
  { Common("CONNECT", v) @@ [clean |-> c, clientID |-> Str(2), will |-> w, willQoS |-> 2, willRetain |-> TRUE,
      username |-> u, password |-> pw, keepAlive |-> 300, props |-> l, willProps |-> l] :
      v \in Versions, c \in BOOLEAN, w \in {{}, {<<Str(1), Str(3)>>}}, u \in {{}, {Str(2)}}, pw \in {{}, {Str(3)}},
      l \in PropLists }
  \cup { [Common("SUBSCRIBE", v) EXCEPT !.dup = d] @@ [msgId |-> 258, topics |-> t, qoss |-> <<1, 2>>,
      opts |-> << [noLocal |-> d, retainAsPublished |-> TRUE, retainHandling |-> 2],
                  [noLocal |-> TRUE, retainAsPublished |-> d, retainHandling |-> 1] >>, props |-> l] :
      v \in Versions, d \in BOOLEAN, t \in {<<Str(1)>>, <<Str(1), Str(3)>>}, l \in PropLists }
  \cup { Common("UNSUBSCRIBE", v) @@ [msgId |-> 258, topics |-> t, props |-> l] :
      v \in Versions, t \in {<<Str(1)>>, <<Str(1), Str(3)>>}, l \in PropLists }
  \cup { [Common("PUBLISH", v) EXCEPT !.dup = d, !.retained = ~d] @@
           [qos |-> q, topic |-> Str(2), msgId |-> IF q = 0 THEN 0 ELSE 65535,
            props |-> IF v = 5 THEN l ELSE <<>>, payload |-> pl] :
      v \in Versions, d \in BOOLEAN, q \in 0..2, l \in PropLists, pl \in {<<>>, Str(3), Str(123)} }
  \cup { [Common(a, v) EXCEPT !.dup = d] @@ [msgId |-> 258] : a \in Acks, v \in Versions, d \in BOOLEAN }
  \cup { Common("DISCONNECT", v) @@ [rc |-> r, props |-> l] : v \in Versions, r \in {0, 4}, l \in PropLists }
  \cup { Common("PINGREQ", 4) }

MCIncoming ==
  { Common("CONNACK", v) @@ [flags |-> f, rc |-> r, props |-> IF v = 5 THEN l ELSE <<>>] :
      v \in Versions, f \in 0..1, r \in {0, 5}, l \in PropLists }
  \cup { Common("SUBACK", v) @@ [msgId |-> 258, props |-> IF v = 5 THEN l ELSE <<>>, codes |-> c] :
      v \in Versions, c \in {<<1>>, <<128, 2>>}, l \in PropLists }
  \cup { Common("UNSUBACK", v) @@ [msgId |-> 258, props |-> IF v = 5 THEN l ELSE <<>>,
                                   codes |-> IF v = 5 THEN <<17, 0>> ELSE <<>>] : v \in Versions, l \in PropLists }
  \cup { Common(a, v) @@ [msgId |-> 258, rc |-> IF v = 5 THEN r ELSE 0, props |-> IF v = 5 THEN l ELSE <<>>] :
      a \in Acks, v \in Versions, r \in {0, 16}, l \in PropLists }
  \* a DISCONNECT with fewer than three bytes loses its reason code (MQTTPacket.c:803)
  \cup { Common("DISCONNECT", 5) @@ [rc |-> 142, props |-> l] : l \in PropLists \ {<<>>} }
  \cup { Common("PINGRESP", 4) }

MCSizeAt(p) == IF p % 2 = 0 THEN 32 ELSE 15     \* rounded to 32 and to 16

MCKeyOf(c) == IF c \in {"a", "b"} THEN 1 ELSE 2

Units == {"heap", "list", "trace", "store", "packets", "text", "wire"}

vars == <<unit, heapVars, listVars, traceVars, storeVars, codecVars, text, wireVars>>

Init ==
  /\ unit \in Units
  /\ HeapInit /\ ListZero /\ TraceInit /\ TextInit
  /\ StoreInit /\ (unit # "store" => ~windows /\ Files(disk.cwd) = {})
  /\ CodecInit /\ (unit # "packets" => packet = Common("PINGREQ", 4))
  /\ WireInit /\ (unit # "wire" => scenario = CHOOSE c \in Scenarios : TRUE)

Heap    == unit = "heap" /\ HeapNext /\ UNCHANGED <<unit, listVars, traceVars, storeVars, codecVars, text, wireVars>>
List    == unit = "list" /\ ListNext /\ UNCHANGED <<unit, heapVars, traceVars, storeVars, codecVars, text, wireVars>>
Trace   == unit = "trace" /\ TraceNext /\ UNCHANGED <<unit, heapVars, listVars, storeVars, codecVars, text, wireVars>>
Store   == unit = "store" /\ StoreNext /\ UNCHANGED <<unit, heapVars, listVars, traceVars, codecVars, text, wireVars>>
Packets == unit = "packets" /\ CodecNext /\ UNCHANGED <<unit, heapVars, listVars, traceVars, storeVars, text, wireVars>>
Text    == unit = "text" /\ TextNext /\ UNCHANGED <<unit, heapVars, listVars, traceVars, storeVars, codecVars, wireVars>>
Wire    == unit = "wire" /\ WireNext /\ UNCHANGED <<unit, heapVars, listVars, traceVars, storeVars, codecVars, text>>

Next == Heap \/ List \/ Trace \/ Store \/ Packets \/ Text \/ Wire

Spec == Init /\ [][Next]_vars
=============================================================================
