------------------------- MODULE QoSDeliveryProofs -------------------------
(***************************************************************************)
(* The message flows implement Delivery in each direction, for any         *)
(* messages, ids and windows; on the way, what the store holds is what is  *)
(* in memory and no accepted message is lost.                              *)
(*                                                                         *)
(* At most one packet travels for a message in flight, towards its         *)
(* receiver (a request) or back (an answer), and it agrees with what the   *)
(* sender waits for.  Both directions share this part of the argument.     *)
(***************************************************************************)
EXTENDS QoSFlowProofs

Requests == {"PUBLISH", "PUBREL"}
Answers  == {"PUBACK", "PUBREC", "PUBCOMP"}

\* the ids of the packets of types T in s, of which no two have the same
IdsOf(s, T) == {s[n].id : n \in {k \in DOMAIN s : s[k].type \in T}}
Once(s, T) == \A m, n \in DOMAIN s :
    s[m].type \in T /\ s[n].type \in T /\ s[m].id = s[n].id => m = n

\* the message that packet p is about, and what the sender waits for
Asked(fl, p) == \E f \in Range(fl) :
    f.id = p.id /\ f.msg = p.msg /\ (p.type = "PUBREL" <=> f.next = "PUBCOMP")
Answered(fl, p) == \E f \in Range(fl) :
    f.id = p.id /\ f.msg = p.msg /\ f.next = p.type

\* messages in flight fl, requests among fwd and answers among back
Linked(fl, fwd, back) ==
    /\ Once(fwd, Requests) /\ Once(back, Answers)
    /\ IdsOf(fwd, Requests) \cap IdsOf(back, Answers) = {}
    /\ \A p \in Range(fwd) : p.type \in Requests => Asked(fl, p)
    /\ \A p \in Range(back) : p.type \in Answers => Answered(fl, p)
    /\ \A f \in Range(fl) : f.next = "PUBACK" <=> f.msg \notin Qos2

LinkInv ==
    /\ Linked(outbound, toServer, toClient)
    /\ Linked(serverOut, toClient, toServer)

\* what MQTTProtocol_createMessage keeps of a QoS 2 message received
Entry(f) == [msg |-> f.msg, id |-> f.id]

\* a QoS 2 message in the store is one the server has in flight
ReceivedInv ==
    /\ \A p \in Range(toServer) :
         /\ p.type = "PUBREC" => Entry(p) \in inbound
         /\ p.type = "PUBCOMP" => ById(store.received, p.id) = {}
    /\ \A f \in Range(serverOut) : f.next = "PUBCOMP" =>
         Entry(f) \in inbound \/ ById(store.received, f.id) = {}
    /\ \A q \in store.received : \E f \in Range(serverOut) :
         f.id = q.id /\ f.msg = q.msg /\ f.msg \in Qos2

\* what the server has of the application's messages
SentInv ==
    /\ \A p \in Range(toClient) :
         /\ p.type \in {"PUBACK", "PUBREC"} => atServer[p.msg] > 0
         /\ p.type = "PUBCOMP" => p.id \notin serverIn
    /\ \A f \in Range(outbound) :
         /\ outStatus[f.msg] = "pending"
         /\ f.next = "PUBREC" => (f.id \in serverIn <=> atServer[f.msg] > 0)
         /\ f.next = "PUBCOMP" => atServer[f.msg] > 0
    /\ \A i \in serverIn : \E f \in Range(outbound) : f.id = i /\ f.msg \in Qos2
    /\ \A q \in Range(commands) : outStatus[q.msg] = "pending" /\ atServer[q.msg] = 0
    /\ \A m \in OutMsgs : outStatus[m] = "new" => atServer[m] = 0
    /\ \A f, g \in Range(outbound) : f.msg = g.msg => f = g
    /\ \A q, r \in Range(commands) : q.msg = r.msg => q = r
    /\ \A q \in Range(commands), f \in Range(outbound) : q.msg # f.msg

\* what the application has of the server's messages (MQTT 3)
HandedInv ==
    /\ \A p \in Range(toServer) : p.type \in {"PUBACK", "PUBCOMP"} => Handed[p.msg] > 0
    /\ \A f \in Range(serverOut) :
         /\ inStatus[f.msg] = "pending"
         /\ f.next = "PUBREC" => Handed[f.msg] = 0
         /\ f.next = "PUBCOMP" => \/ Entry(f) \in inbound /\ Handed[f.msg] = 0
                                  \/ ById(store.received, f.id) = {} /\ Handed[f.msg] > 0
    /\ \A q \in store.received : Handed[q.msg] = 0
    /\ \A m \in InMsgs : inStatus[m] = "new" => Handed[m] = 0
    /\ \A f, g \in Range(serverOut) : f.msg = g.msg => f = g

----------------------------------------------------------------------------
(* Packets on a connection *)

\* A packet of a type has its id among the type's.
LEMMA PacketIds ==
    ASSUME NEW s, NEW T
    PROVE  /\ \A p \in Range(s) : p.type \in T => p.id \in IdsOf(s, T)
           /\ \A i \in IdsOf(s, T) : \E p \in Range(s) : p.type \in T /\ p.id = i
BY DEF Range, IdsOf

\* The first packet is taken.
LEMMA PacketTail ==
    ASSUME NEW s \in Seq(Packet), s # <<>>, NEW T, Once(s, T)
    PROVE  /\ Tail(s) \in Seq(Packet) /\ Once(Tail(s), T)
           /\ IdsOf(Tail(s), T) \subseteq IdsOf(s, T)
           /\ Range(Tail(s)) \subseteq Range(s) /\ Head(s) \in Range(s) /\ Head(s) \in Packet
           /\ Head(s).type \in T => Head(s).id \notin IdsOf(Tail(s), T)
           /\ Head(s).type \in T => Head(s).id \in IdsOf(s, T)
<1> DEFINE t == Tail(s)
<1>1. /\ Head(s) = s[1] /\ 1 \in DOMAIN s /\ t \in Seq(Packet)
      /\ DOMAIN s = 1 .. Len(s) /\ Len(s) \in Nat
      /\ DOMAIN t = 1 .. Len(s) - 1 /\ \A i \in DOMAIN t : t[i] = s[i + 1]
  OBVIOUS
<1>2. Range(s) = Range(t) \cup {Head(s)} /\ Head(s) \in Packet
  BY TailFacts
<1> HIDE DEF t
<1>3. \A i \in DOMAIN t : i + 1 \in DOMAIN s /\ i + 1 # 1 /\ t[i] = s[i + 1]
  BY <1>1
<1>4. Once(t, T)
  <2>1. ASSUME NEW m \in DOMAIN t, NEW n \in DOMAIN t, t[m].type \in T, t[n].type \in T,
               t[m].id = t[n].id
        PROVE  m = n
    <3>1. m + 1 = n + 1
      BY <1>3, <2>1 DEF Once
    <3>2. QED
      BY <1>1, <3>1
  <2>2. QED
    BY <2>1 DEF Once
<1>5. IdsOf(t, T) \subseteq IdsOf(s, T)
  BY <1>3 DEF IdsOf
<1>6. ASSUME Head(s).type \in T PROVE Head(s).id \notin IdsOf(t, T)
  BY <1>1, <1>3, <1>6 DEF IdsOf, Once
<1>7. ASSUME Head(s).type \in T PROVE Head(s).id \in IdsOf(s, T)
  BY <1>1, <1>7 DEF IdsOf
<1>8. QED
  BY <1>1, <1>2, <1>4, <1>5, <1>6, <1>7 DEF t

\* A packet is sent.
LEMMA PacketAppend ==
    ASSUME NEW s \in Seq(Packet), NEW x \in Packet, NEW T, Once(s, T),
           x.type \in T => x.id \notin IdsOf(s, T)
    PROVE  /\ Append(s, x) \in Seq(Packet) /\ Once(Append(s, x), T)
           /\ \A i \in IdsOf(Append(s, x), T) : i \in IdsOf(s, T) \/ (x.type \in T /\ i = x.id)
           /\ Range(Append(s, x)) = Range(s) \cup {x}
<1> DEFINE a == Append(s, x)
           l == Len(s) + 1
<1>1. /\ a \in Seq(Packet) /\ DOMAIN a = 1 .. l /\ DOMAIN s = 1 .. Len(s) /\ Len(s) \in Nat
      /\ \A i \in DOMAIN s : i \in DOMAIN a /\ a[i] = s[i]
      /\ \A i \in DOMAIN a : i \in DOMAIN s \/ i = l
      /\ a[l] = x /\ l \in DOMAIN a
  OBVIOUS
<1> HIDE DEF a, l
<1>2. Range(a) = Range(s) \cup {x}
  BY <1>1 DEF Range
<1>3. Once(a, T)
  <2>1. ASSUME NEW m \in DOMAIN a, NEW n \in DOMAIN a, a[m].type \in T, a[n].type \in T,
               a[m].id = a[n].id
        PROVE  m = n
    BY <1>1, <2>1 DEF Once, IdsOf
  <2>2. QED
    BY <2>1 DEF Once
<1>4. \A i \in IdsOf(a, T) : i \in IdsOf(s, T) \/ (x.type \in T /\ i = x.id)
  BY <1>1 DEF IdsOf
<1>5. QED
  BY <1>1, <1>2, <1>3, <1>4 DEF a

\* The types of requests and answers differ.
LEMMA TwoKinds ==
    /\ \A t \in Requests : t \notin Answers
    /\ \A t \in Answers : t \notin Requests
BY DEF Requests, Answers

\* Without packets there is nothing to agree on.
LEMMA LinkEmpty ==
    ASSUME NEW fl, \A f \in Range(fl) : f.next = "PUBACK" <=> f.msg \notin Qos2
    PROVE  Linked(fl, <<>>, <<>>)
BY DEF Linked, Once, IdsOf, Range

\* After a connect, at most one request travels for each message.
LEMMA LinkResent ==
    ASSUME NEW fl \in Seq(Flight), UniqueIds(fl), NEW d \in BOOLEAN,
           \A f \in Range(fl) : f.next = "PUBACK" <=> f.msg \notin Qos2,
           NEW fwd, DOMAIN fwd \subseteq DOMAIN fl,
           \A n \in DOMAIN fwd : fwd[n] = Retry(fl[n], d),
           NEW back \in Seq(Packet), \A p \in Range(back) : p.type \in Requests
    PROVE  Linked(fl, fwd, back)
<1>1. \A p \in Range(fwd) : \E f \in Range(fl) : p = Retry(f, d)
  BY DEF Range
<1>2. \A f \in Range(fl) : /\ Retry(f, d).id = f.id /\ Retry(f, d).msg = f.msg
                           /\ Retry(f, d).type = "PUBREL" <=> f.next = "PUBCOMP"
  BY DEF Retry, Pub
<1>3. Once(fwd, Requests)
  <2>1. \A n \in DOMAIN fwd : fwd[n].id = fl[n].id
    BY <1>2 DEF Range
  <2>2. QED
    BY <2>1 DEF Once, UniqueIds
<1>4. \A p \in Range(back) : p.type \notin Answers
  BY TwoKinds
<1>5. Once(back, Answers) /\ IdsOf(back, Answers) = {}
  BY <1>4 DEF Once, IdsOf, Range
<1>6. \A p \in Range(fwd) : Asked(fl, p)
  BY <1>1, <1>2 DEF Asked
<1>7. QED
  BY <1>3, <1>4, <1>5, <1>6 DEF Linked

\* A new message is sent.
LEMMA LinkSend ==
    ASSUME NEW fl \in Seq(Flight), NEW fwd \in Seq(Packet), NEW back \in Seq(Packet),
           Linked(fl, fwd, back), NEW f \in Flight, f.id \notin IdsIn(fl),
           f.next = "PUBACK" <=> f.msg \notin Qos2, f.next # "PUBCOMP",
           NEW p \in Packet, p.type = "PUBLISH", p.id = f.id, p.msg = f.msg
    PROVE  Linked(Append(fl, f), Append(fwd, p), back)
<1> DEFINE g == Append(fl, f)
<1>1. Range(g) = Range(fl) \cup {f}
  BY AppendFacts
<1> HIDE DEF g
<1>2. /\ Once(fwd, Requests) /\ Once(back, Answers)
      /\ IdsOf(fwd, Requests) \cap IdsOf(back, Answers) = {}
      /\ \A x \in Range(fwd) : x.type \in Requests => Asked(fl, x)
      /\ \A x \in Range(back) : x.type \in Answers => Answered(fl, x)
      /\ \A x \in Range(fl) : x.next = "PUBACK" <=> x.msg \notin Qos2
  BY DEF Linked
<1>3. \A x \in Range(fl) : x.id # f.id
  BY DEF Range, IdsIn
<1>4. p.id \notin IdsOf(fwd, Requests) /\ p.id \notin IdsOf(back, Answers)
  <2>1. ASSUME p.id \in IdsOf(fwd, Requests) PROVE FALSE
    <3>1. PICK x \in Range(fwd) : x.type \in Requests /\ x.id = p.id
      BY <2>1, PacketIds
    <3>2. QED
      BY <1>2, <1>3, <3>1 DEF Asked
  <2>2. ASSUME p.id \in IdsOf(back, Answers) PROVE FALSE
    <3>1. PICK x \in Range(back) : x.type \in Answers /\ x.id = p.id
      BY <2>2, PacketIds
    <3>2. QED
      BY <1>2, <1>3, <3>1 DEF Answered
  <2>3. QED
    BY <2>1, <2>2
<1>5. /\ Once(Append(fwd, p), Requests)
      /\ \A i \in IdsOf(Append(fwd, p), Requests) : i \in IdsOf(fwd, Requests) \/ i = p.id
      /\ Range(Append(fwd, p)) = Range(fwd) \cup {p}
  BY <1>2, <1>4, PacketAppend
<1>6. IdsOf(Append(fwd, p), Requests) \cap IdsOf(back, Answers) = {}
  BY <1>2, <1>4, <1>5
<1>7. \A x \in Range(Append(fwd, p)) : x.type \in Requests => Asked(g, x)
  BY <1>1, <1>2, <1>5 DEF Asked
<1>8. \A x \in Range(back) : x.type \in Answers => Answered(g, x)
  BY <1>1, <1>2 DEF Answered
<1>9. \A x \in Range(g) : x.next = "PUBACK" <=> x.msg \notin Qos2
  BY <1>1, <1>2
<1>10. QED
  BY <1>2, <1>5, <1>6, <1>7, <1>8, <1>9 DEF Linked, g

\* A step of the other direction: an answer of its own comes with requests.
LEMMA LinkPassAnswer ==
    ASSUME NEW fl, NEW fwd \in Seq(Packet), NEW back \in Seq(Packet), Linked(fl, fwd, back),
           fwd # <<>>, Head(fwd).type \notin Requests
    PROVE  /\ Linked(fl, Tail(fwd), back)
           /\ \A x \in Packet : x.type \notin Answers => Linked(fl, Tail(fwd), Append(back, x))
<1>1. /\ Once(fwd, Requests) /\ Once(back, Answers)
      /\ IdsOf(fwd, Requests) \cap IdsOf(back, Answers) = {}
      /\ \A x \in Range(fwd) : x.type \in Requests => Asked(fl, x)
      /\ \A x \in Range(back) : x.type \in Answers => Answered(fl, x)
      /\ \A x \in Range(fl) : x.next = "PUBACK" <=> x.msg \notin Qos2
  BY DEF Linked
<1>2. /\ Once(Tail(fwd), Requests) /\ IdsOf(Tail(fwd), Requests) \subseteq IdsOf(fwd, Requests)
      /\ Range(Tail(fwd)) \subseteq Range(fwd)
  BY <1>1, PacketTail
<1>3. Linked(fl, Tail(fwd), back)
  BY <1>1, <1>2 DEF Linked
<1>4. ASSUME NEW x \in Packet, x.type \notin Answers PROVE Linked(fl, Tail(fwd), Append(back, x))
  <2>1. /\ Once(Append(back, x), Answers)
        /\ IdsOf(Append(back, x), Answers) \subseteq IdsOf(back, Answers)
        /\ Range(Append(back, x)) = Range(back) \cup {x}
    BY <1>1, <1>4, PacketAppend
  <2>2. QED
    BY <1>1, <1>2, <1>4, <2>1 DEF Linked
<1>5. QED
  BY <1>3, <1>4

\* A step of the other direction: a request of its own comes with answers.
LEMMA LinkPassRequest ==
    ASSUME NEW fl, NEW fwd \in Seq(Packet), NEW back \in Seq(Packet), Linked(fl, fwd, back),
           back # <<>>, Head(back).type \notin Answers
    PROVE  /\ Linked(fl, fwd, Tail(back))
           /\ \A x \in Packet : x.type \notin Requests => Linked(fl, Append(fwd, x), Tail(back))
<1>1. /\ Once(fwd, Requests) /\ Once(back, Answers)
      /\ IdsOf(fwd, Requests) \cap IdsOf(back, Answers) = {}
      /\ \A x \in Range(fwd) : x.type \in Requests => Asked(fl, x)
      /\ \A x \in Range(back) : x.type \in Answers => Answered(fl, x)
      /\ \A x \in Range(fl) : x.next = "PUBACK" <=> x.msg \notin Qos2
  BY DEF Linked
<1>2. /\ Once(Tail(back), Answers) /\ IdsOf(Tail(back), Answers) \subseteq IdsOf(back, Answers)
      /\ Range(Tail(back)) \subseteq Range(back)
  BY <1>1, PacketTail
<1>3. Linked(fl, fwd, Tail(back))
  BY <1>1, <1>2 DEF Linked
<1>4. ASSUME NEW x \in Packet, x.type \notin Requests PROVE Linked(fl, Append(fwd, x), Tail(back))
  <2>1. /\ Once(Append(fwd, x), Requests)
        /\ IdsOf(Append(fwd, x), Requests) \subseteq IdsOf(fwd, Requests)
        /\ Range(Append(fwd, x)) = Range(fwd) \cup {x}
    BY <1>1, <1>4, PacketAppend
  <2>2. QED
    BY <1>1, <1>2, <1>4, <2>1 DEF Linked
<1>5. QED
  BY <1>3, <1>4

\* The other direction sends a request.
LEMMA LinkBeside ==
    ASSUME NEW fl, NEW fwd \in Seq(Packet), NEW back \in Seq(Packet), Linked(fl, fwd, back),
           NEW x \in Packet, x.type \notin Answers
    PROVE  Linked(fl, fwd, Append(back, x))
<1>1. Once(back, Answers)
  BY DEF Linked
<1>2. /\ Once(Append(back, x), Answers)
      /\ IdsOf(Append(back, x), Answers) \subseteq IdsOf(back, Answers)
      /\ Range(Append(back, x)) = Range(back) \cup {x}
  BY <1>1, PacketAppend
<1>3. QED
  BY <1>2 DEF Linked

\* A request is taken, and answered or not.
LEMMA LinkAnswer ==
    ASSUME NEW fl, NEW fwd \in Seq(Packet), NEW back \in Seq(Packet), Linked(fl, fwd, back),
           fwd # <<>>, Head(fwd).type \in Requests
    PROVE  /\ Asked(fl, Head(fwd))
           /\ Linked(fl, Tail(fwd), back)
           /\ \A a \in Packet : a.type \in Answers /\ a.id = Head(fwd).id /\ Answered(fl, a) =>
                Linked(fl, Tail(fwd), Append(back, a))
<1> DEFINE p == Head(fwd)
<1>1. /\ Once(fwd, Requests) /\ Once(back, Answers)
      /\ IdsOf(fwd, Requests) \cap IdsOf(back, Answers) = {}
      /\ \A x \in Range(fwd) : x.type \in Requests => Asked(fl, x)
      /\ \A x \in Range(back) : x.type \in Answers => Answered(fl, x)
      /\ \A x \in Range(fl) : x.next = "PUBACK" <=> x.msg \notin Qos2
  BY DEF Linked
<1>2. /\ Once(Tail(fwd), Requests) /\ IdsOf(Tail(fwd), Requests) \subseteq IdsOf(fwd, Requests)
      /\ Range(Tail(fwd)) \subseteq Range(fwd) /\ p \in Range(fwd)
      /\ p.id \notin IdsOf(Tail(fwd), Requests) /\ p.id \in IdsOf(fwd, Requests)
  BY <1>1, PacketTail
<1>3. Asked(fl, p)
  BY <1>1, <1>2
<1> HIDE DEF p
<1>4. Linked(fl, Tail(fwd), back)
  BY <1>1, <1>2 DEF Linked
<1>5. ASSUME NEW a \in Packet, a.type \in Answers, a.id = p.id, Answered(fl, a)
      PROVE  Linked(fl, Tail(fwd), Append(back, a))
  <2>1. a.id \notin IdsOf(back, Answers)
    BY <1>1, <1>2, <1>5
  <2>2. /\ Once(Append(back, a), Answers)
        /\ \A i \in IdsOf(Append(back, a), Answers) : i \in IdsOf(back, Answers) \/ i = a.id
        /\ Range(Append(back, a)) = Range(back) \cup {a}
    BY <1>1, <2>1, PacketAppend
  <2>3. IdsOf(Tail(fwd), Requests) \cap IdsOf(Append(back, a), Answers) = {}
    BY <1>1, <1>2, <1>5, <2>2
  <2>4. \A x \in Range(Append(back, a)) : x.type \in Answers => Answered(fl, x)
    BY <1>1, <1>5, <2>2
  <2>5. QED
    BY <1>1, <1>2, <2>2, <2>3, <2>4 DEF Linked
<1>6. QED
  BY <1>3, <1>4, <1>5 DEF p

\* PUBREC is taken and PUBREL follows.
LEMMA LinkRelease ==
    ASSUME NEW fl \in Seq(Flight), UniqueIds(fl), NEW fwd \in Seq(Packet), NEW back \in Seq(Packet),
           Linked(fl, fwd, back), back # <<>>, Head(back).type = "PUBREC",
           NEW a \in Packet, a.type = "PUBREL", a.id = Head(back).id, a.msg = Head(back).msg
    PROVE  /\ Answered(fl, Head(back))
           /\ Linked(AwaitPubcomp(fl, a.id), Append(fwd, a), Tail(back))
<1> DEFINE p == Head(back)
           g == AwaitPubcomp(fl, a.id)
           M(f) == IF f.id = a.id THEN [f EXCEPT !.next = "PUBCOMP"] ELSE f
<1>1. /\ Once(fwd, Requests) /\ Once(back, Answers)
      /\ IdsOf(fwd, Requests) \cap IdsOf(back, Answers) = {}
      /\ \A x \in Range(fwd) : x.type \in Requests => Asked(fl, x)
      /\ \A x \in Range(back) : x.type \in Answers => Answered(fl, x)
      /\ \A x \in Range(fl) : x.next = "PUBACK" <=> x.msg \notin Qos2
  BY DEF Linked
<1>2. p.type \in Answers /\ a.type \in Requests
  BY DEF Answers, Requests
<1>3. /\ Once(Tail(back), Answers) /\ IdsOf(Tail(back), Answers) \subseteq IdsOf(back, Answers)
      /\ Range(Tail(back)) \subseteq Range(back) /\ p \in Range(back)
      /\ p.id \notin IdsOf(Tail(back), Answers) /\ p.id \in IdsOf(back, Answers)
  BY <1>1, <1>2, PacketTail
<1>4. PICK f \in Range(fl) : f.id = a.id /\ f.msg = a.msg /\ f.next = "PUBREC"
  BY <1>1, <1>2, <1>3 DEF Answered
<1>5. a.id \notin IdsOf(fwd, Requests)
  BY <1>1, <1>3
<1>6. /\ Once(Append(fwd, a), Requests)
      /\ \A i \in IdsOf(Append(fwd, a), Requests) : i \in IdsOf(fwd, Requests) \/ i = a.id
      /\ Range(Append(fwd, a)) = Range(fwd) \cup {a}
  BY <1>1, <1>5, PacketAppend
<1>7. /\ Range(fl) \subseteq Flight /\ \A x, y \in Range(fl) : x.id = y.id => x = y
  BY RangeFacts
<1>8. /\ \A x \in Flight : M(x).id = x.id /\ M(x).msg = x.msg
      /\ \A x \in Flight : x.id = a.id => M(x).next = "PUBCOMP"
      /\ \A x \in Flight : x.id # a.id => M(x) = x
  BY DEF Flight
<1>9. /\ \A y \in Range(g) : \E x \in Range(fl) : y = M(x)
      /\ \A x \in Range(fl) : M(x) \in Range(g)
  BY AwaitFacts
<1> HIDE DEF p, g, M
<1>10. IdsOf(Append(fwd, a), Requests) \cap IdsOf(Tail(back), Answers) = {}
  BY <1>1, <1>3, <1>6 DEF p
<1>11. \A x \in Range(Append(fwd, a)) : x.type \in Requests => Asked(g, x)
  <2>1. Asked(g, a)
    BY <1>4, <1>7, <1>8, <1>9 DEF Asked
  <2>2. ASSUME NEW x \in Range(fwd), x.type \in Requests PROVE Asked(g, x)
    <3>1. PICK y \in Range(fl) : y.id = x.id /\ y.msg = x.msg /\ (x.type = "PUBREL" <=> y.next = "PUBCOMP")
      BY <1>1, <2>2 DEF Asked
    <3>2. x.id # a.id
      BY <1>5, <2>2, PacketIds
    <3>3. M(y) = y /\ y \in Range(g)
      BY <1>7, <1>8, <1>9, <3>1, <3>2
    <3>4. QED
      BY <3>1, <3>3 DEF Asked
  <2>3. QED
    BY <1>6, <2>1, <2>2
<1>12. \A x \in Range(Tail(back)) : x.type \in Answers => Answered(g, x)
  <2>1. ASSUME NEW x \in Range(Tail(back)), x.type \in Answers PROVE Answered(g, x)
    <3>1. PICK y \in Range(fl) : y.id = x.id /\ y.msg = x.msg /\ y.next = x.type
      BY <1>1, <1>3, <2>1 DEF Answered
    <3>2. x.id # a.id
      BY <1>3, <2>1, PacketIds DEF p
    <3>3. M(y) = y /\ y \in Range(g)
      BY <1>7, <1>8, <1>9, <3>1, <3>2
    <3>4. QED
      BY <3>1, <3>3 DEF Answered
  <2>2. QED
    BY <2>1
<1>13. \A y \in Range(g) : y.next = "PUBACK" <=> y.msg \notin Qos2
  <2>1. ASSUME NEW y \in Range(g) PROVE y.next = "PUBACK" <=> y.msg \notin Qos2
    <3>1. PICK x \in Range(fl) : y = M(x)
      BY <1>9
    <3>2. CASE x.id = a.id
      <4>1. x = f /\ y.next = "PUBCOMP" /\ y.msg = x.msg
        BY <1>4, <1>7, <1>8, <3>1, <3>2
      <4>2. QED
        BY <1>1, <1>4, <4>1
    <3>3. CASE x.id # a.id
      BY <1>1, <1>7, <1>8, <3>1, <3>3
    <3>4. QED
      BY <3>2, <3>3
  <2>2. QED
    BY <2>1
<1>14. Answered(fl, p)
  BY <1>1, <1>2, <1>3
<1>15. QED
  BY <1>3, <1>6, <1>10, <1>11, <1>12, <1>13, <1>14 DEF Linked, g, p

\* The last answer is taken and the message forgotten.
LEMMA LinkComplete ==
    ASSUME NEW fl \in Seq(Flight), UniqueIds(fl), NEW fwd \in Seq(Packet), NEW back \in Seq(Packet),
           Linked(fl, fwd, back), back # <<>>, Head(back).type \in Answers
    PROVE  /\ Answered(fl, Head(back))
           /\ Linked(Without(fl, Head(back).id), fwd, Tail(back))
<1> DEFINE p == Head(back)
           g == Without(fl, p.id)
<1>1. /\ Once(fwd, Requests) /\ Once(back, Answers)
      /\ IdsOf(fwd, Requests) \cap IdsOf(back, Answers) = {}
      /\ \A x \in Range(fwd) : x.type \in Requests => Asked(fl, x)
      /\ \A x \in Range(back) : x.type \in Answers => Answered(fl, x)
      /\ \A x \in Range(fl) : x.next = "PUBACK" <=> x.msg \notin Qos2
  BY DEF Linked
<1>2. /\ Once(Tail(back), Answers) /\ IdsOf(Tail(back), Answers) \subseteq IdsOf(back, Answers)
      /\ Range(Tail(back)) \subseteq Range(back) /\ p \in Range(back)
      /\ p.id \notin IdsOf(Tail(back), Answers) /\ p.id \in IdsOf(back, Answers)
  BY <1>1, PacketTail
<1>3. Range(g) = {x \in Range(fl) : x.id # p.id}
  BY WithoutFacts
<1>4. Answered(fl, p)
  BY <1>1, <1>2
<1> HIDE DEF p, g
<1>5. \A x \in Range(fwd) : x.type \in Requests => Asked(g, x)
  <2>1. ASSUME NEW x \in Range(fwd), x.type \in Requests PROVE Asked(g, x)
    <3>1. x.id # p.id
      BY <1>1, <1>2, <2>1, PacketIds
    <3>2. QED
      BY <1>1, <1>3, <2>1, <3>1 DEF Asked
  <2>2. QED
    BY <2>1
<1>6. \A x \in Range(Tail(back)) : x.type \in Answers => Answered(g, x)
  <2>1. ASSUME NEW x \in Range(Tail(back)), x.type \in Answers PROVE Answered(g, x)
    <3>1. x.id # p.id
      BY <1>1, <1>2, <2>1, PacketIds
    <3>2. QED
      BY <1>1, <1>2, <1>3, <2>1, <3>1 DEF Answered
  <2>2. QED
    BY <2>1
<1>7. QED
  BY <1>1, <1>2, <1>3, <1>4, <1>5, <1>6 DEF Linked, g, p

\* A message is in flight that nothing has been sent for.
LEMMA LinkGrow ==
    ASSUME NEW fl, NEW g, NEW f, Range(g) = Range(fl) \cup {f}, NEW fwd, NEW back,
           Linked(fl, fwd, back), f.next = "PUBACK" <=> f.msg \notin Qos2
    PROVE  Linked(g, fwd, back)
<1>1. \A x \in Range(fwd) : Asked(fl, x) => Asked(g, x)
  BY DEF Asked
<1>2. \A x \in Range(back) : Answered(fl, x) => Answered(g, x)
  BY DEF Answered
<1>3. QED
  BY <1>1, <1>2 DEF Linked

\* One packet more, or none.
LEMMA Joined ==
    ASSUME NEW s \in Seq(Packet)
    PROVE  s \o <<>> = s /\ \A x \in Packet : s \o <<x>> = Append(s, x)
<1>1. ASSUME NEW x \in Packet PROVE s \o <<x>> = Append(s, x)
  BY AppendFacts
<1>2. s \o <<>> = s
  OBVIOUS
<1>3. QED
  BY <1>1, <1>2

----------------------------------------------------------------------------
(* Each step and the packets *)

\* What holds of the lists between two steps.
LEMMA FlowFacts ==
    ASSUME FlowInv
    PROVE  /\ toServer \in Seq(Packet) /\ toClient \in Seq(Packet)
           /\ outbound \in Seq(Flight) /\ serverOut \in Seq(Flight) /\ commands \in Seq(Queued)
           /\ UniqueIds(outbound) /\ UniqueIds(serverOut) /\ UniqueIds(commands)
           /\ IdsIn(commands) \cap IdsIn(outbound) = {}
           /\ \A q \in Range(commands) : q \in Queued /\ q.msg \in OutMsgs
           /\ \A f \in Range(outbound) : f \in Flight /\ f.msg \in OutMsgs
           /\ \A f \in Range(serverOut) : f \in Flight /\ f.msg \in InMsgs
           /\ inbound \subseteq store.received
           /\ \A q \in store.received : q \in Queued /\ q.msg \in InMsgs
           /\ \A q, r \in store.received : q.id = r.id => q = r
<1>1. /\ toServer \in Seq(Packet) /\ toClient \in Seq(Packet)
      /\ outbound \in Seq(Flight) /\ serverOut \in Seq(Flight) /\ commands \in Seq(Queued)
      /\ store \in StoreType
  BY DEF FlowInv, TypeInv, DataTypes, StoreType
<1>2. /\ UniqueIds(outbound) /\ UniqueIds(serverOut) /\ UniqueIds(commands)
      /\ IdsIn(commands) \cap IdsIn(outbound) = {}
      /\ Range(outbound) = {Restored(q) : q \in store.sent} /\ inbound \subseteq store.received
      /\ \A q, r \in store.received : q.id = r.id => q = r
  BY DEF FlowInv, TypeInv, StoreInv, StoreMatchesMemory
<1>3. /\ \A q \in Range(commands) : q \in Queued
      /\ \A f \in Range(outbound) : f \in Flight
      /\ \A f \in Range(serverOut) : f \in Flight
      /\ \A q \in store.received : q \in Queued
      /\ \A q \in store.sent : q \in Queued
  BY <1>1 DEF Range, StoreType
<1>4. /\ \A q \in Range(commands) \cup store.sent : q.msg \in OutMsgs
      /\ \A q \in store.received : q.msg \in InMsgs
      /\ \A f \in Range(serverOut) : f.msg \in InMsgs
  BY DEF FlowInv, TypeInv
<1>5. \A f \in Range(outbound) : f.msg \in OutMsgs
  <2>1. \A q \in store.sent : Restored(q).msg = q.msg /\ q.msg \in OutMsgs
    BY <1>3, <1>4, MadeFacts
  <2>2. QED
    BY <1>2, <2>1
<1>6. QED
  BY <1>1, <1>2, <1>3, <1>4, <1>5

\* The messages in flight wait for the right packets.
LEMMA Waits ==
    ASSUME LinkInv
    PROVE  /\ \A f \in Range(outbound) : f.next = "PUBACK" <=> f.msg \notin Qos2
           /\ \A f \in Range(serverOut) : f.next = "PUBACK" <=> f.msg \notin Qos2
BY DEF LinkInv, Linked

\* MQTTProtocol_createMessage has the message wait for its first answer.
LEMMA FirstWait ==
    ASSUME NEW q \in Queued
    PROVE  /\ CreateMessage(q) \in Flight
           /\ CreateMessage(q).id = q.id /\ CreateMessage(q).msg = q.msg
           /\ CreateMessage(q).next = "PUBACK" <=> q.msg \notin Qos2
           /\ CreateMessage(q).next = "PUBREC" <=> q.msg \in Qos2
           /\ CreateMessage(q).next # "PUBCOMP"
           /\ Pub(q, FALSE) \in Packet /\ Pub(q, FALSE).type = "PUBLISH"
           /\ Pub(q, FALSE).id = q.id /\ Pub(q, FALSE).msg = q.msg
<1>1. CreateMessage(q) \in Flight /\ Pub(q, FALSE) \in Packet
      /\ CreateMessage(q).id = q.id /\ CreateMessage(q).msg = q.msg
  BY MadeFacts
<1>2. QED
  BY <1>1 DEF CreateMessage, Pub

\* MQTTProtocol_startPublish: one PUBLISH for the new message.
LEMMA ProcessLinks ==
    ASSUME FlowInv, LinkInv, NEW ok \in BOOLEAN, ProcessPublish(ok)
    PROVE  /\ LinkInv'
           /\ \E q \in Range(commands) :
                /\ Range(commands') \subseteq Range(commands) /\ q.id \notin IdsIn(commands')
                /\ Range(outbound') = Range(outbound) \cup {CreateMessage(q)}
                /\ q.id \notin IdsIn(outbound)
                /\ Range(toClient') \subseteq Range(toClient)
                /\ \A p \in Range(toServer') : p \in Range(toServer) \/ p.type = "PUBLISH"
<1> DEFINE q == Head(commands)
<1>1. /\ toServer \in Seq(Packet) /\ toClient \in Seq(Packet)
      /\ outbound \in Seq(Flight) /\ serverOut \in Seq(Flight) /\ commands \in Seq(Queued)
      /\ UniqueIds(commands) /\ IdsIn(commands) \cap IdsIn(outbound) = {}
  BY FlowFacts
<1>2. /\ commands # <<>> /\ commands' = Tail(commands)
      /\ outbound' = Append(outbound, CreateMessage(q)) /\ serverOut' = serverOut
      /\ \/ toServer' = Append(toServer, Pub(q, FALSE)) /\ toClient' = toClient
         \/ toServer' = <<>> /\ toClient' = <<>>
  BY DEF ProcessPublish, Disconnected, serverVars
<1>3. /\ q \in Queued /\ q \in Range(commands) /\ Range(commands) = Range(commands') \cup {q}
      /\ IdsIn(commands) = IdsIn(commands') \cup {q.id} /\ q.id \notin IdsIn(commands')
  BY <1>1, <1>2, TailFacts
<1> HIDE DEF q
<1>4. q.id \notin IdsIn(outbound)
  BY <1>1, <1>3
<1> DEFINE f == CreateMessage(q)
           p == Pub(q, FALSE)
<1>5. /\ f \in Flight /\ f.id = q.id /\ f.msg = q.msg
      /\ f.next = "PUBACK" <=> f.msg \notin Qos2
      /\ f.next # "PUBCOMP"
      /\ p \in Packet /\ p.type = "PUBLISH" /\ p.id = q.id /\ p.msg = q.msg
  BY <1>3, FirstWait
<1>6. outbound' = Append(outbound, f)
  BY <1>2
<1>7. Range(outbound') = Range(outbound) \cup {f}
  BY <1>1, <1>5, <1>6, AppendFacts
<1> HIDE DEF f, p
<1>8. CASE toServer' = Append(toServer, p) /\ toClient' = toClient
  <2>1. Range(toServer') = Range(toServer) \cup {p}
    BY <1>1, <1>5, <1>8, AppendFacts
  <2>2. Linked(outbound, toServer, toClient) /\ Linked(serverOut, toClient, toServer)
    BY DEF LinkInv
  <2>3. Linked(Append(outbound, f), Append(toServer, p), toClient)
    BY <1>1, <1>4, <1>5, <2>2, LinkSend
  <2>4. Linked(serverOut, toClient, Append(toServer, p))
    <3>1. p.type \notin Answers
      BY <1>5 DEF Answers
    <3>2. QED
      BY <1>1, <1>5, <2>2, <3>1, LinkBeside
  <2>5. LinkInv'
    BY <1>2, <1>6, <1>8, <2>3, <2>4 DEF LinkInv
  <2>6. \A x \in Range(toServer') : x \in Range(toServer) \/ x.type = "PUBLISH"
    BY <1>5, <2>1
  <2>7. QED
    BY <1>3, <1>4, <1>7, <1>8, <2>5, <2>6 DEF f
<1>9. CASE toServer' = <<>> /\ toClient' = <<>>
  <2>1. /\ \A x \in Range(outbound') : x.next = "PUBACK" <=> x.msg \notin Qos2
        /\ \A x \in Range(serverOut') : x.next = "PUBACK" <=> x.msg \notin Qos2
    BY <1>2, <1>5, <1>7, Waits
  <2>2. LinkInv'
    BY <1>9, <2>1, LinkEmpty DEF LinkInv
  <2>3. Range(toServer') = {} /\ Range(toClient') = {}
    BY <1>9 DEF Range
  <2>4. QED
    BY <1>3, <1>4, <1>7, <2>2, <2>3 DEF f
<1>10. QED
  BY <1>2, <1>8, <1>9 DEF p

\* MQTTProtocol_handlePubacks and handlePubcomps: the packet is the one the message
\* waits for.
LEMMA PubackLinks ==
    ASSUME FlowInv, LinkInv, NEW type \in {"PUBACK", "PUBCOMP"}, HandlePuback(type)
    PROVE  /\ LinkInv'
           /\ \E p \in Range(toClient), f \in Range(outbound) :
                /\ p.type = type /\ f.id = p.id /\ f.msg = p.msg /\ f.next = type
                /\ Range(outbound') = {x \in Range(outbound) : x.id # p.id}
                /\ outStatus' = [outStatus EXCEPT ![f.msg] = "complete"]
                /\ toServer' = toServer /\ Range(toClient') \subseteq Range(toClient)
                /\ \A x \in Range(toClient') : x.type \in Answers => x.id # p.id
<1>1. /\ toServer \in Seq(Packet) /\ toClient \in Seq(Packet)
      /\ outbound \in Seq(Flight) /\ serverOut \in Seq(Flight) /\ UniqueIds(outbound)
  BY FlowFacts
<1>2. PICK p \in Range(toClient) :
        /\ FromServer(p, type, <<>>)
        /\ \/ \E f \in Waiting(p.id, type) : Finish(f)
           \/ Waiting(p.id, type) = {} /\ UNCHANGED <<outbound, store, outStatus>>
        /\ UNCHANGED <<commands, inbound, messageQueue, serverVars, arrived>>
  BY DEF HandlePuback
<1>3. /\ toClient # <<>> /\ p = Head(toClient) /\ p.type = type /\ toClient' = Tail(toClient)
      /\ toServer' = toServer \o <<>> /\ serverOut' = serverOut
  BY <1>2 DEF FromServer, serverVars
<1>4. toServer' = toServer
  BY <1>1, <1>3, Joined
<1>5. p.type \in Answers /\ p.type \notin Requests
  BY <1>3 DEF Answers, Requests
<1>6. Linked(outbound, toServer, toClient) /\ Linked(serverOut, toClient, toServer)
  BY DEF LinkInv
<1>7. Answered(outbound, p) /\ Linked(Without(outbound, p.id), toServer, Tail(toClient))
  BY <1>1, <1>3, <1>5, <1>6, LinkComplete
<1>8. PICK g \in Range(outbound) : g.id = p.id /\ g.msg = p.msg /\ g.next = type
  BY <1>3, <1>7 DEF Answered
<1>9. g \in Waiting(p.id, type)
  BY <1>8 DEF Waiting, Range
<1>10. PICK f \in Waiting(p.id, type) : Finish(f)
  BY <1>2, <1>9
<1>11. f = g
  <2>1. f \in Range(outbound) /\ f.id = p.id
    BY DEF Waiting, Range
  <2>2. QED
    BY <1>1, <1>8, <2>1, RangeFacts
<1>12. outbound' = Without(outbound, p.id) /\ outStatus' = [outStatus EXCEPT ![g.msg] = "complete"]
  BY <1>8, <1>10, <1>11 DEF Finish
<1>13. Linked(serverOut, Tail(toClient), toServer)
  BY <1>1, <1>3, <1>5, <1>6, LinkPassAnswer
<1>14. LinkInv'
  BY <1>3, <1>4, <1>7, <1>12, <1>13 DEF LinkInv
<1>15. Range(outbound') = {x \in Range(outbound) : x.id # p.id}
  BY <1>1, <1>12, WithoutFacts
<1>16. /\ Range(toClient') \subseteq Range(toClient) /\ p.id \notin IdsOf(toClient', Answers)
  BY <1>1, <1>3, <1>5, <1>6, PacketTail DEF Linked
<1>17. \A x \in Range(toClient') : x.type \in Answers => x.id # p.id
  BY <1>16, PacketIds
<1>18. QED
  BY <1>3, <1>4, <1>8, <1>12, <1>14, <1>15, <1>16, <1>17

\* An answer to packet p.
LEMMA ReplyFacts ==
    ASSUME NEW p \in Packet, NEW t \in {"PUBACK", "PUBREC", "PUBREL", "PUBCOMP"}
    PROVE  /\ Reply(t, p) \in Packet /\ Reply(t, p).type = t
           /\ Reply(t, p).id = p.id /\ Reply(t, p).msg = p.msg
BY MadeFacts DEF Reply

\* MQTTProtocol_handlePubrecs: PUBREL takes PUBREC's place.
LEMMA PubrecLinks ==
    ASSUME FlowInv, LinkInv, HandlePubrec
    PROVE  /\ LinkInv'
           /\ \E p \in Range(toClient), f \in Range(outbound) :
                /\ p.type = "PUBREC" /\ f.id = p.id /\ f.msg = p.msg /\ f.next = "PUBREC"
                /\ outbound' = AwaitPubcomp(outbound, p.id)
                /\ toServer' = Append(toServer, Reply("PUBREL", p)) /\ p \in Packet
                /\ Range(toClient') \subseteq Range(toClient)
                /\ \A x \in Range(toClient') : x.type \in Answers => x.id # p.id
<1>1. /\ toServer \in Seq(Packet) /\ toClient \in Seq(Packet)
      /\ outbound \in Seq(Flight) /\ serverOut \in Seq(Flight) /\ UniqueIds(outbound)
  BY FlowFacts
<1>2. PICK p \in Range(toClient) :
        /\ \/ /\ Waiting(p.id, "PUBREC") # {}
              /\ FromServer(p, "PUBREC", <<Reply("PUBREL", p)>>)
              /\ outbound' = AwaitPubcomp(outbound, p.id)
              /\ store' = [store EXCEPT !.pubrel = @ \cup {p.id}]
           \/ /\ Waiting(p.id, "PUBREC") = {}
              /\ FromServer(p, "PUBREC", <<>>)
              /\ UNCHANGED <<outbound, store>>
        /\ UNCHANGED <<commands, inbound, messageQueue, serverVars, outStatus, arrived>>
  BY DEF HandlePubrec
<1>3. /\ toClient # <<>> /\ p = Head(toClient) /\ p.type = "PUBREC" /\ toClient' = Tail(toClient)
      /\ serverOut' = serverOut
  BY <1>2 DEF FromServer, serverVars
<1>4. p \in Packet
  BY <1>1 DEF Range
<1>5. p.type \in Answers /\ p.type \notin Requests
  BY <1>3 DEF Answers, Requests
<1>6. Linked(outbound, toServer, toClient) /\ Linked(serverOut, toClient, toServer)
  BY DEF LinkInv
<1> DEFINE a == Reply("PUBREL", p)
<1>7. a \in Packet /\ a.type = "PUBREL" /\ a.id = p.id /\ a.msg = p.msg
  BY <1>4, ReplyFacts
<1> HIDE DEF a
<1>8. Answered(outbound, p) /\ Linked(AwaitPubcomp(outbound, a.id), Append(toServer, a), Tail(toClient))
  BY <1>1, <1>3, <1>6, <1>7, LinkRelease
<1>9. PICK f \in Range(outbound) : f.id = p.id /\ f.msg = p.msg /\ f.next = "PUBREC"
  BY <1>3, <1>8 DEF Answered
<1>10. Waiting(p.id, "PUBREC") # {}
  BY <1>9 DEF Waiting, Range
<1>11. FromServer(p, "PUBREC", <<a>>) /\ outbound' = AwaitPubcomp(outbound, p.id)
  BY <1>2, <1>10 DEF a
<1>12. toServer' = Append(toServer, a)
  <2>1. toServer' = toServer \o <<a>>
    BY <1>11 DEF FromServer
  <2>2. QED
    BY <1>1, <1>7, <2>1, Joined
<1>13. Linked(serverOut, Tail(toClient), Append(toServer, a))
  <2>1. a.type \notin Answers
    BY <1>7 DEF Answers
  <2>2. QED
    BY <1>1, <1>3, <1>5, <1>6, <1>7, <2>1, LinkPassAnswer
<1>14. LinkInv'
  BY <1>3, <1>7, <1>8, <1>11, <1>12, <1>13 DEF LinkInv
<1>15. /\ Range(toClient') \subseteq Range(toClient) /\ p.id \notin IdsOf(toClient', Answers)
  BY <1>1, <1>3, <1>5, <1>6, PacketTail DEF Linked
<1>16. \A x \in Range(toClient') : x.type \in Answers => x.id # p.id
  BY <1>15, PacketIds
<1>17. QED
  BY <1>3, <1>4, <1>9, <1>11, <1>12, <1>14, <1>15, <1>16 DEF a

\* MQTTProtocol_handlePublishes: the answer is the one the server waits for.
LEMMA PublishLinks ==
    ASSUME FlowInv, LinkInv, NEW taken \in BOOLEAN, HandlePublish(taken)
    PROVE  /\ LinkInv'
           /\ \E p \in Range(toClient), f \in Range(serverOut) :
                /\ p \in Packet /\ p.type = "PUBLISH" /\ f.id = p.id /\ f.msg = p.msg
                /\ f.next = IF p.msg \in Qos2 THEN "PUBREC" ELSE "PUBACK"
                /\ toServer' = Append(toServer,
                                 Reply(IF p.msg \in Qos2 THEN "PUBREC" ELSE "PUBACK", p))
                /\ Range(toClient') \subseteq Range(toClient)
                /\ IF p.msg \in Qos2
                   THEN /\ inbound' = (inbound \ ById(inbound, p.id))
                                          \cup {[msg |-> p.msg, id |-> p.id]}
                        /\ IF Version5 /\ ById(inbound, p.id) = {}
                           THEN ProcessPublication(p.msg, taken, Received(p))
                           ELSE store' = Received(p) /\ UNCHANGED <<messageQueue, arrived>>
                   ELSE UNCHANGED inbound /\ ProcessPublication(p.msg, taken, store)
                /\ UNCHANGED <<commands, outbound, serverVars, outStatus>>
<1>1. /\ toServer \in Seq(Packet) /\ toClient \in Seq(Packet)
      /\ outbound \in Seq(Flight) /\ serverOut \in Seq(Flight)
      /\ \A f \in Range(serverOut) : f \in Flight
  BY FlowFacts
<1>2. PICK p \in Range(toClient) :
        /\ \/ /\ p.msg \notin Qos2
              /\ FromServer(p, "PUBLISH", <<Reply("PUBACK", p)>>)
              /\ ProcessPublication(p.msg, taken, store)
              /\ UNCHANGED inbound
           \/ /\ p.msg \in Qos2
              /\ FromServer(p, "PUBLISH", <<Reply("PUBREC", p)>>)
              /\ inbound' = (inbound \ ById(inbound, p.id))
                                \cup {[msg |-> p.msg, id |-> p.id]}
              /\ IF Version5 /\ ById(inbound, p.id) = {}
                 THEN ProcessPublication(p.msg, taken, Received(p))
                 ELSE /\ store' = Received(p)
                      /\ UNCHANGED <<messageQueue, arrived>>
        /\ UNCHANGED <<commands, outbound, serverVars, outStatus>>
  BY DEF HandlePublish
<1>3. PICK t \in {"PUBACK", "PUBREC", "PUBREL", "PUBCOMP"} :
        t = IF p.msg \in Qos2 THEN "PUBREC" ELSE "PUBACK"
  OBVIOUS
<1> DEFINE a == Reply(t, p)
<1>4. FromServer(p, "PUBLISH", <<a>>)
  BY <1>2, <1>3
<1>5. p \in Packet
  BY <1>1 DEF Range
<1>6. a \in Packet /\ a.type = t /\ a.id = p.id /\ a.msg = p.msg /\ t \in Answers /\ t \notin Requests
  BY <1>3, <1>5, ReplyFacts DEF Answers, Requests
<1> HIDE DEF a
<1>7. /\ toClient # <<>> /\ p = Head(toClient) /\ p.type = "PUBLISH" /\ toClient' = Tail(toClient)
      /\ toServer' = toServer \o <<a>> /\ serverOut' = serverOut /\ outbound' = outbound
  BY <1>2, <1>4 DEF FromServer, serverVars
<1>8. toServer' = Append(toServer, a)
  BY <1>1, <1>6, <1>7, Joined
<1>9. p.type \in Requests /\ p.type \notin Answers
  BY <1>7 DEF Answers, Requests
<1>10. Linked(outbound, toServer, toClient) /\ Linked(serverOut, toClient, toServer)
  BY DEF LinkInv
<1>11. Asked(serverOut, p)
  BY <1>1, <1>7, <1>9, <1>10, LinkAnswer
<1>12. PICK f \in Range(serverOut) : f.id = p.id /\ f.msg = p.msg /\ f.next # "PUBCOMP"
  BY <1>7, <1>11 DEF Asked
<1>13. f.next = t
  BY <1>1, <1>3, <1>12, Waits DEF Flight
<1>14. Answered(serverOut, a)
  BY <1>6, <1>12, <1>13 DEF Answered
<1>15. Linked(serverOut, Tail(toClient), Append(toServer, a))
  BY <1>1, <1>6, <1>7, <1>9, <1>10, <1>14, LinkAnswer
<1>16. Linked(outbound, Append(toServer, a), Tail(toClient))
  BY <1>1, <1>6, <1>7, <1>9, <1>10, LinkPassRequest
<1>17. LinkInv'
  BY <1>7, <1>8, <1>15, <1>16 DEF LinkInv
<1>18. Range(toClient') \subseteq Range(toClient)
  BY <1>1, <1>7, TailFacts
<1>19. toServer' = Append(toServer, Reply(IF p.msg \in Qos2 THEN "PUBREC" ELSE "PUBACK", p))
  BY <1>3, <1>8 DEF a
<1>20. /\ IF p.msg \in Qos2
          THEN /\ inbound' = (inbound \ ById(inbound, p.id))
                                 \cup {[msg |-> p.msg, id |-> p.id]}
               /\ IF Version5 /\ ById(inbound, p.id) = {}
                  THEN ProcessPublication(p.msg, taken, Received(p))
                  ELSE store' = Received(p) /\ UNCHANGED <<messageQueue, arrived>>
          ELSE UNCHANGED inbound /\ ProcessPublication(p.msg, taken, store)
       /\ UNCHANGED <<commands, outbound, serverVars, outStatus>>
  BY <1>2
<1>21. f.next = IF p.msg \in Qos2 THEN "PUBREC" ELSE "PUBACK"
  BY <1>3, <1>13
<1>22. QED
  BY <1>5, <1>7, <1>12, <1>17, <1>18, <1>19, <1>20, <1>21

\* MQTTProtocol_handlePubrels.
LEMMA PubrelLinks ==
    ASSUME FlowInv, LinkInv, NEW taken \in BOOLEAN, HandlePubrel(taken)
    PROVE  /\ LinkInv'
           /\ \E p \in Range(toClient), f \in Range(serverOut) :
                /\ p \in Packet /\ p.type = "PUBREL"
                /\ f.id = p.id /\ f.msg = p.msg /\ f.next = "PUBCOMP"
                /\ toServer' \in {toServer, Append(toServer, Reply("PUBCOMP", p))}
                /\ Range(toClient') \subseteq Range(toClient)
                /\ \/ \E q \in ById(inbound, p.id) :
                        /\ inbound' = inbound \ {q}
                        /\ IF ~Version5
                           THEN ProcessPublication(q.msg, taken,
                                   [store EXCEPT !.received = @ \ ById(@, p.id)])
                           ELSE /\ store' = [store EXCEPT !.received = @ \ ById(@, p.id)]
                                /\ UNCHANGED <<messageQueue, arrived>>
                   \/ /\ ById(inbound, p.id) = {}
                      /\ UNCHANGED <<inbound, store, messageQueue, arrived>>
                /\ UNCHANGED <<commands, outbound, serverVars, outStatus>>
<1>1. /\ toServer \in Seq(Packet) /\ toClient \in Seq(Packet)
      /\ outbound \in Seq(Flight) /\ serverOut \in Seq(Flight)
  BY FlowFacts
<1>2. PICK p \in Range(toClient) :
        /\ \/ \E q \in ById(inbound, p.id) :
                /\ FromServer(p, "PUBREL", <<Reply("PUBCOMP", p)>>)
                /\ inbound' = inbound \ {q}
                /\ IF ~Version5
                   THEN ProcessPublication(q.msg, taken,
                                           [store EXCEPT !.received = @ \ ById(@, p.id)])
                   ELSE /\ store' = [store EXCEPT !.received = @ \ ById(@, p.id)]
                        /\ UNCHANGED <<messageQueue, arrived>>
           \/ /\ ById(inbound, p.id) = {}
              /\ FromServer(p, "PUBREL", IF p.dup THEN <<Reply("PUBCOMP", p)>> ELSE <<>>)
              /\ UNCHANGED <<inbound, store, messageQueue, arrived>>
        /\ UNCHANGED <<commands, outbound, serverVars, outStatus>>
  BY DEF HandlePubrel
<1> DEFINE a == Reply("PUBCOMP", p)
<1>3. FromServer(p, "PUBREL", <<a>>) \/ FromServer(p, "PUBREL", <<>>)
  BY <1>2
<1>4. p \in Packet
  BY <1>1 DEF Range
<1>5. a \in Packet /\ a.type = "PUBCOMP" /\ a.id = p.id /\ a.msg = p.msg
  BY <1>4, ReplyFacts
<1> HIDE DEF a
<1>6. /\ toClient # <<>> /\ p = Head(toClient) /\ p.type = "PUBREL" /\ toClient' = Tail(toClient)
      /\ serverOut' = serverOut /\ outbound' = outbound
  BY <1>2, <1>3 DEF FromServer, serverVars
<1>7. toServer' = toServer \/ toServer' = Append(toServer, a)
  <2>1. toServer' = toServer \o <<a>> \/ toServer' = toServer \o <<>>
    BY <1>3 DEF FromServer
  <2>2. QED
    BY <1>1, <1>5, <2>1, Joined
<1>8. /\ p.type \in Requests /\ p.type \notin Answers /\ a.type \in Answers /\ a.type \notin Requests
  BY <1>5, <1>6 DEF Answers, Requests
<1>9. Linked(outbound, toServer, toClient) /\ Linked(serverOut, toClient, toServer)
  BY DEF LinkInv
<1>10. Asked(serverOut, p)
  BY <1>1, <1>6, <1>8, <1>9, LinkAnswer
<1>11. PICK f \in Range(serverOut) : f.id = p.id /\ f.msg = p.msg /\ f.next = "PUBCOMP"
  BY <1>6, <1>10 DEF Asked
<1>12. Answered(serverOut, a)
  BY <1>5, <1>11 DEF Answered
<1>13. Linked(serverOut, Tail(toClient), Append(toServer, a)) /\ Linked(serverOut, Tail(toClient), toServer)
  BY <1>1, <1>5, <1>6, <1>8, <1>9, <1>12, LinkAnswer
<1>14. Linked(outbound, Append(toServer, a), Tail(toClient)) /\ Linked(outbound, toServer, Tail(toClient))
  BY <1>1, <1>5, <1>6, <1>8, <1>9, LinkPassRequest
<1>15. LinkInv'
  BY <1>6, <1>7, <1>13, <1>14 DEF LinkInv
<1>16. Range(toClient') \subseteq Range(toClient)
  BY <1>1, <1>6, TailFacts
<1>17. toServer' \in {toServer, Append(toServer, Reply("PUBCOMP", p))}
  BY <1>7 DEF a
<1>18. QED
  BY <1>2, <1>4, <1>6, <1>11, <1>15, <1>16, <1>17

\* The connection is closed or the process stops: the packets are gone.
LEMMA ClosedLinks ==
    ASSUME FlowInv, FlowInv', LinkInv, HandleWhileWriting \/ ConnectionLost \/ Restart
    PROVE  /\ LinkInv' /\ toServer' = <<>> /\ toClient' = <<>>
           /\ Range(outbound') = Range(outbound) /\ Range(commands') = Range(commands)
           /\ UNCHANGED <<serverVars, outStatus, arrived, messageQueue>>
<1>1. /\ toServer' = <<>> /\ toClient' = <<>> /\ UNCHANGED <<serverVars, outStatus, arrived>>
  BY DEF HandleWhileWriting, ConnectionLost, Restart, Disconnected
<1>2. /\ Range(outbound') = Range(outbound) /\ Range(commands') = Range(commands)
      /\ messageQueue' = messageQueue
  <2>1. CASE HandleWhileWriting \/ ConnectionLost
    BY <2>1 DEF HandleWhileWriting, ConnectionLost, clientVars
  <2>2. CASE Restart
    <3>1. StoreMatchesMemory /\ StoreMatchesMemory'
      BY DEF FlowInv, StoreInv
    <3>2. commands' = commands /\ messageQueue' = messageQueue
      BY <2>2, <3>1 DEF Restart, StoreMatchesMemory
    <3>3. store \in StoreType /\ \A q \in store.sent : q \in Queued
      BY DEF FlowInv, TypeInv, DataTypes, StoreType
    <3>4. Range(outbound') = {Restored(q) : q \in store.sent}
      <4> DEFINE S == {Restored(q) : q \in store.sent}
      <4>1. Range(outbound) = S /\ outbound \in Seq(Flight) /\ UniqueIds(outbound)
        BY <3>1, FlowFacts DEF StoreMatchesMemory
      <4>2. IsFiniteSet(S) /\ S \subseteq Flight /\ \A x, y \in S : x.id = y.id => x = y
        BY <4>1, RangeFacts
      <4>3. outbound' = InOrder(S)
        BY <2>2 DEF Restart
      <4> HIDE DEF S
      <4>4. \A x \in S : x.id \in Int
        BY <4>2 DEF Flight, Ids
      <4>5. Range(InOrder(S)) = S
        BY <4>2, <4>4, InOrderFacts
      <4>6. QED
        BY <4>3, <4>5 DEF S
    <3>5. QED
      BY <3>1, <3>2, <3>4 DEF StoreMatchesMemory
  <2>3. QED
    BY <2>1, <2>2
<1>3. /\ \A f \in Range(outbound') : f.next = "PUBACK" <=> f.msg \notin Qos2
      /\ \A f \in Range(serverOut') : f.next = "PUBACK" <=> f.msg \notin Qos2
  BY <1>1, <1>2, Waits DEF serverVars
<1>4. LinkInv'
  BY <1>1, <1>3, LinkEmpty DEF LinkInv
<1>5. QED
  BY <1>1, <1>2, <1>4

\* MQTTProtocol_retry: one request for each message in flight that it comes to.
LEMMA ConnectLinks ==
    ASSUME FlowInv, LinkInv, Connect
    PROVE  /\ LinkInv'
           /\ \A p \in Range(toServer') : p.type \in Requests
           /\ \A p \in Range(toClient') : p.type \in Requests
           /\ \A p \in Range(toServer') : \E f \in Range(outbound) : p.msg = f.msg
           /\ UNCHANGED <<clientVars, store, serverVars, outStatus, arrived>>
<1>1. outbound \in Seq(Flight) /\ serverOut \in Seq(Flight)
      /\ UniqueIds(outbound) /\ UniqueIds(serverOut)
  BY FlowFacts
<1>2. PICK k \in 0 .. Len(outbound) :
        /\ toServer' = ResentTo(outbound, k, FALSE) /\ toClient' = Resent(serverOut, PubrelDup)
        /\ UNCHANGED <<clientVars, store, serverVars, outStatus, arrived>>
  BY DEF Connect, ResendTo, ResentTo, Resent
<1>3. PubrelDup \in BOOLEAN /\ FALSE \in BOOLEAN
  BY FlowAssumption
<1>4. /\ toServer' \in Seq(Packet) /\ DOMAIN toServer' \subseteq DOMAIN outbound
      /\ \A n \in DOMAIN toServer' : toServer'[n] = Retry(outbound[n], FALSE)
  <2>1. toServer' \in Seq(Packet) /\ DOMAIN toServer' \subseteq DOMAIN outbound
    BY <1>1, <1>2, <1>3, ResentToFacts
  <2>2. \A n \in DOMAIN toServer' : toServer'[n] = Retry(outbound[n], FALSE)
    BY <1>2 DEF ResentTo
  <2>3. QED
    BY <2>1, <2>2
<1>5. \A p \in Range(toServer') : \E f \in Range(outbound) : p = Retry(f, FALSE)
  BY <1>4 DEF Range
<1>6. /\ toClient' \in Seq(Packet) /\ DOMAIN toClient' \subseteq DOMAIN serverOut
       /\ \A n \in DOMAIN toClient' : toClient'[n] = Retry(serverOut[n], PubrelDup)
  BY <1>1, <1>2, <1>3, ResentFacts
<1>7. \A p \in Range(toClient') : \E f \in Range(serverOut) : p = Retry(f, PubrelDup)
  BY <1>1, <1>2, <1>3, ResentFacts
<1>8. \A f : /\ Retry(f, FALSE).type \in Requests /\ Retry(f, PubrelDup).type \in Requests
             /\ Retry(f, FALSE).msg = f.msg
  BY DEF Retry, Pub, Requests
<1>9. /\ \A p \in Range(toServer') : p.type \in Requests
      /\ \A p \in Range(toClient') : p.type \in Requests
      /\ \A p \in Range(toServer') : \E f \in Range(outbound) : p.msg = f.msg
  BY ZenonT(60), <1>5, <1>7, <1>8
<1>10. Linked(outbound, toServer', toClient')
  BY <1>1, <1>3, <1>4, <1>6, <1>9, Waits, LinkResent
<1>11. Linked(serverOut, toClient', toServer')
  BY <1>1, <1>3, <1>4, <1>6, <1>9, Waits, LinkResent
<1>12. LinkInv'
  BY <1>2, <1>10, <1>11 DEF LinkInv, clientVars, serverVars
<1>13. QED
  BY <1>2, <1>9, <1>12

\* The server sends a message.
LEMMA ServerPublishLinks ==
    ASSUME FlowInv, LinkInv, NEW m \in InMsgs, NEW i \in Ids, ServerPublish(m, i)
    PROVE  /\ LinkInv'
           /\ \E f \in Flight :
                /\ f.id = i /\ f.msg = m /\ f.next # "PUBCOMP" /\ i \notin IdsIn(serverOut)
                /\ Range(serverOut') = Range(serverOut) \cup {f}
           /\ \A p \in Range(toClient') : p \in Range(toClient) \/ (p.type = "PUBLISH" /\ p.id = i)
           /\ inStatus[m] = "new" /\ inStatus' = [inStatus EXCEPT ![m] = "pending"]
           /\ UNCHANGED <<clientVars, store, connected, toServer, serverIn, outStatus,
                          atServer, arrived>>
<1> DEFINE q == [msg |-> m, id |-> i]
           f == CreateMessage(q)
           p == Pub(f, FALSE)
<1>1. /\ toServer \in Seq(Packet) /\ toClient \in Seq(Packet) /\ serverOut \in Seq(Flight)
      /\ outbound \in Seq(Flight)
  BY FlowFacts
<1>2. /\ i \notin IdsIn(serverOut) /\ serverOut' = Append(serverOut, f)
      /\ \/ toClient' = Append(toClient, p)
         \/ toClient' = toClient
      /\ inStatus[m] = "new" /\ inStatus' = [inStatus EXCEPT ![m] = "pending"]
      /\ UNCHANGED <<clientVars, store, connected, toServer, serverIn, outStatus,
                     atServer, arrived>>
  BY DEF ServerPublish
<1>3. q \in Queued /\ q.id = i /\ q.msg = m
  BY DEF Queued, Msgs
<1> HIDE DEF q
<1>4. /\ f \in Flight /\ f.id = i /\ f.msg = m /\ f.next # "PUBCOMP"
      /\ f.next = "PUBACK" <=> f.msg \notin Qos2
  BY <1>3, FirstWait
<1> HIDE DEF f
<1>5. p \in Packet /\ p.type = "PUBLISH" /\ p.id = i /\ p.msg = m
  BY <1>4, MadeFacts DEF Pub
<1> HIDE DEF p
<1>6. Range(serverOut') = Range(serverOut) \cup {f}
  BY <1>1, <1>2, <1>4, AppendFacts
<1>7. Linked(outbound, toServer, toClient) /\ Linked(serverOut, toClient, toServer)
  BY DEF LinkInv
<1>8. outbound' = outbound /\ toServer' = toServer
  BY <1>2 DEF clientVars
<1>9. LinkInv' /\ \A x \in Range(toClient') : x \in Range(toClient) \/ (x.type = "PUBLISH" /\ x.id = i)
  <2>1. CASE toClient' = Append(toClient, p)
    <3>1. Range(toClient') = Range(toClient) \cup {p}
      BY <1>1, <1>5, <2>1, AppendFacts
    <3>2. Linked(Append(serverOut, f), Append(toClient, p), toServer)
      BY <1>1, <1>2, <1>4, <1>5, <1>7, LinkSend
    <3>3. p.type \notin Answers
      BY <1>5 DEF Answers
    <3>4. Linked(outbound, toServer, Append(toClient, p))
      BY <1>1, <1>5, <1>7, <3>3, LinkBeside
    <3>5. LinkInv'
      BY <1>2, <1>8, <2>1, <3>2, <3>4 DEF LinkInv
    <3>6. QED
      BY <1>5, <3>1, <3>5
  <2>2. CASE toClient' = toClient
    <3>1. Linked(serverOut', toClient, toServer)
      BY <1>4, <1>6, <1>7, LinkGrow
    <3>2. LinkInv'
      BY <1>7, <1>8, <2>2, <3>1 DEF LinkInv
    <3>3. QED
      BY <2>2, <3>2
  <2>3. QED
    BY <1>2, <2>1, <2>2
<1>10. QED
  BY <1>2, <1>4, <1>6, <1>9

\* The server takes a PUBLISH or a PUBREL and answers it.
LEMMA ServerTakesLinks ==
    ASSUME FlowInv, LinkInv, ServerTakes \/ ServerReleases
    PROVE  /\ LinkInv'
           /\ \E p \in Range(toServer), f \in Range(outbound), t \in Answers :
                /\ p \in Packet /\ f.id = p.id /\ f.msg = p.msg /\ f.next = t
                /\ toClient' = Append(toClient, Reply(t, p))
                /\ Range(toServer') \subseteq Range(toServer)
                /\ \A x \in Range(toClient) : x.type \in Answers => x.id # p.id
                /\ UNCHANGED <<clientVars, store, outStatus, arrived, serverOut, inStatus>>
                /\ \/ /\ t = IF p.msg \in Qos2 THEN "PUBREC" ELSE "PUBACK"
                      /\ atServer' = IF p.msg \in Qos2 /\ p.id \in serverIn THEN atServer
                                     ELSE Tick(atServer, p.msg)
                      /\ serverIn' = IF p.msg \in Qos2 THEN serverIn \cup {p.id} ELSE serverIn
                   \/ /\ t = "PUBCOMP" /\ serverIn' = serverIn \ {p.id}
                      /\ UNCHANGED atServer
<1>1. /\ toServer \in Seq(Packet) /\ toClient \in Seq(Packet)
      /\ outbound \in Seq(Flight) /\ serverOut \in Seq(Flight)
      /\ \A f \in Range(outbound) : f \in Flight
  BY FlowFacts
<1>2. PICK p \in Range(toServer), t \in {"PUBACK", "PUBREC", "PUBCOMP"} :
        /\ FromClient(p, IF t = "PUBCOMP" THEN "PUBREL" ELSE "PUBLISH", <<Reply(t, p)>>)
        /\ UNCHANGED <<serverOut, inStatus>>
        /\ \/ /\ t = IF p.msg \in Qos2 THEN "PUBREC" ELSE "PUBACK"
              /\ atServer' = IF p.msg \in Qos2 /\ p.id \in serverIn THEN atServer
                             ELSE Tick(atServer, p.msg)
              /\ serverIn' = IF p.msg \in Qos2 THEN serverIn \cup {p.id} ELSE serverIn
           \/ /\ t = "PUBCOMP" /\ serverIn' = serverIn \ {p.id}
              /\ UNCHANGED atServer
  <2>1. CASE ServerTakes
    <3>1. PICK p \in Range(toServer) :
            /\ FromClient(p, "PUBLISH",
                          <<Reply(IF p.msg \in Qos2 THEN "PUBREC" ELSE "PUBACK", p)>>)
            /\ atServer' = IF p.msg \in Qos2 /\ p.id \in serverIn THEN atServer
                           ELSE Tick(atServer, p.msg)
            /\ serverIn' = IF p.msg \in Qos2 THEN serverIn \cup {p.id} ELSE serverIn
            /\ UNCHANGED <<serverOut, inStatus>>
      BY <2>1 DEF ServerTakes
    <3>2. PICK t \in {"PUBACK", "PUBREC", "PUBCOMP"} :
            t # "PUBCOMP" /\ t = IF p.msg \in Qos2 THEN "PUBREC" ELSE "PUBACK"
      OBVIOUS
    <3>3. FromClient(p, IF t = "PUBCOMP" THEN "PUBREL" ELSE "PUBLISH", <<Reply(t, p)>>)
      BY <3>1, <3>2
    <3>4. QED
      BY <3>1, <3>2, <3>3
  <2>2. CASE ServerReleases
    <3>1. PICK p \in Range(toServer) :
            /\ FromClient(p, "PUBREL", <<Reply("PUBCOMP", p)>>)
            /\ serverIn' = serverIn \ {p.id}
            /\ UNCHANGED <<serverOut, inStatus, atServer>>
      BY <2>2 DEF ServerReleases
    <3>2. FromClient(p, IF "PUBCOMP" = "PUBCOMP" THEN "PUBREL" ELSE "PUBLISH", <<Reply("PUBCOMP", p)>>)
      BY <3>1
    <3>3. QED
      BY <3>1, <3>2
  <2>3. QED
    BY <2>1, <2>2
<1> DEFINE a == Reply(t, p)
<1>3. p \in Packet
  BY <1>1 DEF Range
<1>4. a \in Packet /\ a.type = t /\ a.id = p.id /\ a.msg = p.msg
  BY <1>3, ReplyFacts
<1>5. /\ toServer # <<>> /\ p = Head(toServer)
      /\ p.type = IF t = "PUBCOMP" THEN "PUBREL" ELSE "PUBLISH"
      /\ toServer' = Tail(toServer) /\ toClient' = toClient \o <<a>>
      /\ UNCHANGED <<clientVars, store, outStatus, arrived>>
  BY <1>2 DEF FromClient
<1> HIDE DEF a
<1>6. toClient' = Append(toClient, a)
  BY <1>1, <1>4, <1>5, Joined
<1>7. p.type \in Requests /\ p.type \notin Answers /\ a.type \in Answers /\ a.type \notin Requests
  BY <1>4, <1>5 DEF Requests, Answers
<1>8. Linked(outbound, toServer, toClient) /\ Linked(serverOut, toClient, toServer)
  BY DEF LinkInv
<1>9. Asked(outbound, p)
  BY <1>1, <1>5, <1>7, <1>8, LinkAnswer
<1>10. PICK f \in Range(outbound) : f.id = p.id /\ f.msg = p.msg /\ (p.type = "PUBREL" <=> f.next = "PUBCOMP")
  BY <1>9 DEF Asked
<1>11. f.next = t
  <2>1. f.next \in {"PUBACK", "PUBREC", "PUBCOMP"} /\ (f.next = "PUBACK" <=> f.msg \notin Qos2)
    BY <1>1, Waits DEF Flight
  <2>2. CASE t = "PUBCOMP"
    BY <1>5, <1>10, <2>2
  <2>3. CASE t # "PUBCOMP"
    <3>1. t = IF p.msg \in Qos2 THEN "PUBREC" ELSE "PUBACK"
      BY <1>2, <2>3
    <3>2. f.next # "PUBCOMP"
      BY <1>5, <1>10, <2>3
    <3>3. QED
      BY <1>10, <2>1, <3>1, <3>2
  <2>4. QED
    BY <2>2, <2>3
<1>12. Answered(outbound, a)
  BY <1>4, <1>10, <1>11 DEF Answered
<1>13. Linked(outbound, Tail(toServer), Append(toClient, a))
  BY <1>1, <1>4, <1>5, <1>7, <1>8, <1>12, LinkAnswer
<1>14. Linked(serverOut, Append(toClient, a), Tail(toServer))
  BY <1>1, <1>4, <1>5, <1>7, <1>8, LinkPassRequest
<1>15. LinkInv'
  BY <1>2, <1>5, <1>6, <1>13, <1>14 DEF LinkInv, clientVars
<1>16. Range(toServer') \subseteq Range(toServer)
  BY <1>1, <1>5, TailFacts
<1>17. \A x \in Range(toClient) : x.type \in Answers => x.id # p.id
  <2>1. p.id \in IdsOf(toServer, Requests)
    BY <1>7, PacketIds
  <2>2. IdsOf(toServer, Requests) \cap IdsOf(toClient, Answers) = {}
    BY <1>8 DEF Linked
  <2>3. QED
    BY <2>1, <2>2, PacketIds
<1>18. t \in Answers /\ toClient' = Append(toClient, Reply(t, p))
  BY <1>6 DEF Answers, a
<1>19. UNCHANGED <<clientVars, store, outStatus, arrived, serverOut, inStatus>>
  BY <1>2, <1>5
<1>20. QED
  BY <1>2, <1>3, <1>10, <1>11, <1>15, <1>16, <1>17, <1>18, <1>19

\* The client's PUBREC reaches the server.
LEMMA ServerPubrecLinks ==
    ASSUME FlowInv, LinkInv, ServerPubrec
    PROVE  /\ LinkInv'
           /\ \E p \in Range(toServer), f \in Range(serverOut) :
                /\ p \in Packet /\ p.type = "PUBREC"
                /\ f.id = p.id /\ f.msg = p.msg /\ f.next = "PUBREC"
                /\ serverOut' = AwaitPubcomp(serverOut, p.id)
                /\ toClient' = Append(toClient, Reply("PUBREL", p))
                /\ Range(toServer') \subseteq Range(toServer)
                /\ UNCHANGED <<clientVars, store, outStatus, arrived, serverIn, inStatus, atServer>>
<1>1. /\ toServer \in Seq(Packet) /\ toClient \in Seq(Packet)
      /\ outbound \in Seq(Flight) /\ serverOut \in Seq(Flight) /\ UniqueIds(serverOut)
  BY FlowFacts
<1>2. PICK p \in Range(toServer) :
        /\ FromClient(p, "PUBREC", <<Reply("PUBREL", p)>>)
        /\ serverOut' = AwaitPubcomp(serverOut, p.id)
        /\ UNCHANGED <<serverIn, inStatus, atServer>>
  BY DEF ServerPubrec
<1> DEFINE a == Reply("PUBREL", p)
<1>3. p \in Packet
  BY <1>1 DEF Range
<1>4. a \in Packet /\ a.type = "PUBREL" /\ a.id = p.id /\ a.msg = p.msg
  BY <1>3, ReplyFacts
<1>5. /\ toServer # <<>> /\ p = Head(toServer) /\ p.type = "PUBREC"
      /\ toServer' = Tail(toServer) /\ toClient' = toClient \o <<a>>
      /\ UNCHANGED <<clientVars, store, outStatus, arrived>>
  BY <1>2 DEF FromClient
<1> HIDE DEF a
<1>6. toClient' = Append(toClient, a)
  BY <1>1, <1>4, <1>5, Joined
<1>7. p.type \notin Requests /\ a.type \notin Answers
  BY <1>4, <1>5 DEF Requests, Answers
<1>8. Linked(outbound, toServer, toClient) /\ Linked(serverOut, toClient, toServer)
  BY DEF LinkInv
<1>9. Answered(serverOut, p) /\ Linked(AwaitPubcomp(serverOut, a.id), Append(toClient, a), Tail(toServer))
  BY <1>1, <1>4, <1>5, <1>8, LinkRelease
<1>10. PICK f \in Range(serverOut) : f.id = p.id /\ f.msg = p.msg /\ f.next = "PUBREC"
  BY <1>5, <1>9 DEF Answered
<1>11. Linked(outbound, Tail(toServer), Append(toClient, a))
  BY <1>1, <1>4, <1>5, <1>7, <1>8, LinkPassAnswer
<1>12. LinkInv'
  BY <1>2, <1>4, <1>5, <1>6, <1>9, <1>11 DEF LinkInv, clientVars
<1>13. Range(toServer') \subseteq Range(toServer)
  BY <1>1, <1>5, TailFacts
<1>14. QED
  BY <1>2, <1>3, <1>5, <1>6, <1>10, <1>12, <1>13 DEF a

\* The client's last answer reaches the server.
LEMMA ServerCompletesLinks ==
    ASSUME FlowInv, LinkInv, NEW type \in {"PUBACK", "PUBCOMP"}, ServerCompletes(type)
    PROVE  /\ LinkInv'
           /\ \E p \in Range(toServer), f \in Range(serverOut) :
                /\ p.type = type /\ f.id = p.id /\ f.msg = p.msg /\ f.next = type
                /\ Range(serverOut') = {x \in Range(serverOut) : x.id # p.id}
                /\ toClient' = toClient /\ Range(toServer') \subseteq Range(toServer)
                /\ \A x \in Range(toServer') : x.type \in Answers => x.id # p.id
                /\ inStatus' = [m \in InMsgs |-> IF m = f.msg THEN "complete" ELSE inStatus[m]]
                /\ UNCHANGED <<clientVars, store, outStatus, arrived, serverIn, atServer>>
<1>1. /\ toServer \in Seq(Packet) /\ toClient \in Seq(Packet)
      /\ outbound \in Seq(Flight) /\ serverOut \in Seq(Flight) /\ UniqueIds(serverOut)
  BY FlowFacts
<1>2. PICK p \in Range(toServer) :
        /\ FromClient(p, type, <<>>)
        /\ serverOut' = Without(serverOut, p.id)
        /\ inStatus' = [m \in InMsgs |->
                          IF \E n \in DOMAIN serverOut : serverOut[n].id = p.id
                                                         /\ serverOut[n].msg = m
                          THEN "complete" ELSE inStatus[m]]
        /\ UNCHANGED <<serverIn, atServer>>
  BY DEF ServerCompletes
<1>3. /\ toServer # <<>> /\ p = Head(toServer) /\ p.type = type
      /\ toServer' = Tail(toServer) /\ toClient' = toClient \o <<>>
      /\ UNCHANGED <<clientVars, store, outStatus, arrived>>
  BY <1>2 DEF FromClient
<1>4. toClient' = toClient
  BY <1>1, <1>3, Joined
<1>5. p.type \in Answers /\ p.type \notin Requests
  BY <1>3 DEF Answers, Requests
<1>6. Linked(outbound, toServer, toClient) /\ Linked(serverOut, toClient, toServer)
  BY DEF LinkInv
<1>7. Answered(serverOut, p) /\ Linked(Without(serverOut, p.id), toClient, Tail(toServer))
  BY <1>1, <1>3, <1>5, <1>6, LinkComplete
<1>8. PICK f \in Range(serverOut) : f.id = p.id /\ f.msg = p.msg /\ f.next = type
  BY <1>3, <1>7 DEF Answered
<1>9. Linked(outbound, Tail(toServer), toClient)
  BY <1>1, <1>3, <1>5, <1>6, LinkPassAnswer
<1>10. LinkInv'
  BY <1>2, <1>3, <1>4, <1>7, <1>9 DEF LinkInv, clientVars
<1>11. Range(serverOut') = {x \in Range(serverOut) : x.id # p.id}
  BY <1>1, <1>2, WithoutFacts
<1>12. /\ Range(toServer') \subseteq Range(toServer) /\ p.id \notin IdsOf(toServer', Answers)
  BY <1>1, <1>3, <1>5, <1>6, PacketTail DEF Linked
<1>13. \A x \in Range(toServer') : x.type \in Answers => x.id # p.id
  BY <1>12, PacketIds
<1>14. inStatus' = [m \in InMsgs |-> IF m = f.msg THEN "complete" ELSE inStatus[m]]
  <2>1. \A m : (\E n \in DOMAIN serverOut : serverOut[n].id = p.id /\ serverOut[n].msg = m) <=> m = f.msg
    <3>1. PICK k \in DOMAIN serverOut : serverOut[k] = f
      BY DEF Range
    <3>2. \A n \in DOMAIN serverOut : serverOut[n].id = p.id => n = k
      BY <1>1, <1>8, <3>1 DEF UniqueIds
    <3>3. QED
      BY <1>8, <3>1, <3>2
  <2>2. QED
    BY <1>2, <2>1
<1>15. QED
  BY <1>2, <1>3, <1>4, <1>8, <1>10, <1>11, <1>12, <1>13, <1>14

\* A step that touches no packet and no message in flight.
LEMMA LinksKept ==
    ASSUME LinkInv, UNCHANGED <<outbound, serverOut, toServer, toClient>>
    PROVE  LinkInv'
BY DEF LinkInv

\* Nothing is in flight at the start.
LEMMA LinksInit == Init => LinkInv
<1> SUFFICES ASSUME Init PROVE LinkInv
  OBVIOUS
<1>1. outbound = <<>> /\ serverOut = <<>> /\ toServer = <<>> /\ toClient = <<>>
  BY DEF Init
<1>2. \A f \in Range(<<>>) : f.next = "PUBACK" <=> f.msg \notin Qos2
  BY DEF Range
<1>3. QED
  BY <1>1, <1>2, LinkEmpty DEF LinkInv

\* messageArrived is offered a queued message, or is about to be
QueueOffered == SocketEvent \/ \E taken \in BOOLEAN : DeliverQueued(taken)

\* Only the queue may change then, in memory and in the store.
LEMMA OfferKeeps ==
    ASSUME QueueOffered
    PROVE  /\ UNCHANGED <<commands, outbound, inbound, toServer, toClient, serverVars, outStatus>>
           /\ store' = store \/ store' = [store EXCEPT !.queue = messageQueue']
<1>1. CASE SocketEvent
  BY <1>1 DEF SocketEvent, clientVars
<1>2. CASE \E taken \in BOOLEAN : DeliverQueued(taken)
  BY <1>2 DEF DeliverQueued
<1>3. QED
  BY <1>1, <1>2 DEF QueueOffered

\* Every step keeps at most one packet per message, and the right one.
LEMMA LinkStep ==
    ASSUME FlowInv, FlowInv', LinkInv, [Next]_vars
    PROVE  LinkInv'
<1>1. CASE \/ \E m \in OutMsgs, i \in Ids : Publish(m, i)
           \/ QueueOffered
           \/ UNCHANGED vars
  <2>1. UNCHANGED <<outbound, serverOut, toServer, toClient>>
    BY <1>1, OfferKeeps DEF Publish, vars, netVars, serverVars, clientVars
  <2>2. QED
    BY <2>1, LinksKept
<1>2. CASE \E m \in InMsgs, i \in Ids : ServerPublish(m, i)
  BY <1>2, ServerPublishLinks
<1>3. CASE Send
  BY <1>3, ProcessLinks DEF Send
<1>4. CASE Receive
  BY <1>4, PubackLinks, PubrecLinks, PublishLinks, PubrelLinks, ClosedLinks DEF Receive
<1>5. CASE Server
  BY <1>5, ServerTakesLinks, ServerPubrecLinks, ServerCompletesLinks DEF Server
<1>6. CASE Connect
  BY <1>6, ConnectLinks
<1>7. CASE ConnectionLost \/ Restart
  BY <1>7, ClosedLinks
<1>8. QED
  BY <1>1, <1>2, <1>3, <1>4, <1>5, <1>6, <1>7 DEF Next, QueueOffered

\* A request and an answer on the connection are about different messages.
LEMMA LinkApart ==
    ASSUME NEW fl, NEW fwd, NEW back, Linked(fl, fwd, back),
           NEW p \in Range(fwd), p.type \in Requests, NEW x \in Range(back), x.type \in Answers
    PROVE  x.id # p.id
BY PacketIds DEF Linked

----------------------------------------------------------------------------
(* QoS 2 messages received *)

\* A step of the sending side.
LEMMA ReceivedKept ==
    ASSUME ReceivedInv, inbound' = inbound, store'.received = store.received,
           serverOut' = serverOut,
           \A p \in Range(toServer') : p \in Range(toServer) \/ p.type \in Requests
    PROVE  ReceivedInv'
<1>1. "PUBREC" \notin Requests /\ "PUBCOMP" \notin Requests
  BY DEF Requests
<1>2. QED
  BY <1>1 DEF ReceivedInv

\* What Protocol_processPublication leaves of the store.
LEMMA PublicationKeeps ==
    ASSUME FlowInv, NEW m \in InMsgs, NEW taken \in BOOLEAN, NEW st \in StoreType,
           st.queue = store.queue, ProcessPublication(m, taken, st)
    PROVE  store'.received = st.received
<1>1. DataTypes /\ st.queue = messageQueue
  BY DEF FlowInv, TypeInv, StoreInv, StoreMatchesMemory
<1>2. QED
  BY <1>1, PublicationFacts

\* The entry of a packet or of a message in flight.
LEMMA EntryFacts ==
    /\ \A x : Entry(x).msg = x.msg /\ Entry(x).id = x.id
    /\ \A x, y : x.msg = y.msg /\ x.id = y.id => Entry(x) = Entry(y)
    /\ \A q \in Queued : Entry(q) = q
BY DEF Entry, Queued

\* MQTTProtocol_handlePublishes records the message and answers PUBREC.
LEMMA PublishReceived ==
    ASSUME FlowInv, LinkInv, ReceivedInv, NEW taken \in BOOLEAN, HandlePublish(taken)
    PROVE  ReceivedInv'
<1>1. PICK p \in Range(toClient), f \in Range(serverOut) :
        /\ p \in Packet /\ p.type = "PUBLISH" /\ f.id = p.id /\ f.msg = p.msg
        /\ f.next = IF p.msg \in Qos2 THEN "PUBREC" ELSE "PUBACK"
        /\ toServer' = Append(toServer,
                         Reply(IF p.msg \in Qos2 THEN "PUBREC" ELSE "PUBACK", p))
        /\ Range(toClient') \subseteq Range(toClient)
        /\ IF p.msg \in Qos2
           THEN /\ inbound' = (inbound \ ById(inbound, p.id))
                                  \cup {[msg |-> p.msg, id |-> p.id]}
                /\ IF Version5 /\ ById(inbound, p.id) = {}
                   THEN ProcessPublication(p.msg, taken, Received(p))
                   ELSE store' = Received(p) /\ UNCHANGED <<messageQueue, arrived>>
           ELSE UNCHANGED inbound /\ ProcessPublication(p.msg, taken, store)
        /\ UNCHANGED <<commands, outbound, serverVars, outStatus>>
  BY PublishLinks
<1>2. /\ toServer \in Seq(Packet) /\ UniqueIds(serverOut) /\ serverOut \in Seq(Flight)
      /\ \A g \in Range(serverOut) : g \in Flight /\ g.msg \in InMsgs
      /\ \A q \in store.received : q \in Queued
  BY FlowFacts
<1>3. \A g \in Range(serverOut) : g.id = p.id => g = f
  BY <1>1, <1>2, RangeFacts
<1>4. p.msg \in InMsgs /\ TypeInv /\ StoreInv /\ store \in StoreType /\ serverOut' = serverOut
  BY <1>1, <1>2 DEF FlowInv, TypeInv, DataTypes, StoreType, serverVars
<1>5. CASE p.msg \notin Qos2
  <2>1. toServer' = Append(toServer, Reply("PUBACK", p)) /\ inbound' = inbound
        /\ ProcessPublication(p.msg, taken, store)
    BY <1>1, <1>5
  <2>2. store'.received = store.received
    BY <1>4, <2>1, PublicationKeeps
  <2>3. Reply("PUBACK", p) \in Packet /\ Reply("PUBACK", p).type = "PUBACK"
    BY <1>1, ReplyFacts
  <2>4. Range(toServer') = Range(toServer) \cup {Reply("PUBACK", p)}
    BY <1>2, <2>1, <2>3, AppendFacts
  <2>5. \A x \in Range(toServer') : x.type \in {"PUBREC", "PUBCOMP"} => x \in Range(toServer)
    BY <2>3, <2>4
  <2>6. QED
    BY <1>4, <2>1, <2>2, <2>5 DEF ReceivedInv
<1>6. CASE p.msg \in Qos2
  <2> DEFINE a == Reply("PUBREC", p)
             e == [msg |-> p.msg, id |-> p.id]
  <2>1. /\ toServer' = Append(toServer, a) /\ inbound' = (inbound \ ById(inbound, p.id)) \cup {e}
        /\ ProcessPublication(p.msg, taken, Received(p)) \/ store' = Received(p)
    BY <1>1, <1>6
  <2>2. /\ Received(p) \in StoreType /\ Received(p).queue = store.queue
        /\ Received(p).received = (store.received \ ById(store.received, p.id)) \cup {e}
    BY <1>1, <1>4, <1>6, ReceivedFacts
  <2>3. store'.received = (store.received \ ById(store.received, p.id)) \cup {e}
    BY <1>4, <2>1, <2>2, PublicationKeeps
  <2>4. a \in Packet /\ a.type = "PUBREC" /\ a.id = p.id /\ a.msg = p.msg
    BY <1>1, ReplyFacts
  <2>5. e.id = p.id /\ e.msg = p.msg /\ e = Entry(p) /\ Entry(a) = e
    BY <2>4, EntryFacts DEF Entry
  <2> HIDE DEF a, e
  <2>6. Range(toServer') = Range(toServer) \cup {a}
    BY <1>2, <2>1, <2>4, AppendFacts
  <2>7. \A x \in Range(toServer) : x.type \in Answers => x.id # p.id
    <3>1. p.type \in Requests
      BY <1>1 DEF Requests
    <3>2. QED
      BY <3>1, LinkApart DEF LinkInv
  <2>8. ASSUME NEW x \in Range(toServer')
        PROVE  /\ x.type = "PUBREC" => Entry(x) \in inbound'
               /\ x.type = "PUBCOMP" => ById(store'.received, x.id) = {}
    <3>1. CASE x = a
      BY <2>1, <2>4, <2>5, <3>1
    <3>2. CASE x \in Range(toServer) /\ x.type \in Answers
      <4>1. x.id # p.id
        BY <2>7, <3>2
      <4>2. x.type = "PUBREC" => Entry(x) \in inbound'
        BY <2>1, <3>2, <4>1, EntryFacts DEF ReceivedInv, ById
      <4>3. x.type = "PUBCOMP" => ById(store'.received, x.id) = {}
        BY <2>3, <2>5, <3>2, <4>1 DEF ReceivedInv, ById
      <4>4. QED
        BY <4>2, <4>3
    <3>3. CASE x.type \notin Answers
      BY <3>3 DEF Answers
    <3>4. QED
      BY <2>6, <3>1, <3>2, <3>3
  <2>9. ASSUME NEW g \in Range(serverOut), g.next = "PUBCOMP"
        PROVE  Entry(g) \in inbound' \/ ById(store'.received, g.id) = {}
    <3>1. g.id # p.id
      BY <1>1, <1>3, <1>6, <2>9
    <3>2. Entry(g) \in inbound \/ ById(store.received, g.id) = {}
      BY <2>9 DEF ReceivedInv
    <3>3. CASE Entry(g) \in inbound
      BY <2>1, <3>1, <3>3, EntryFacts DEF ById
    <3>4. CASE ById(store.received, g.id) = {}
      BY <2>3, <2>5, <3>1, <3>4 DEF ById
    <3>5. QED
      BY <3>2, <3>3, <3>4
  <2>10. ASSUME NEW q \in store'.received
         PROVE  \E g \in Range(serverOut) : g.id = q.id /\ g.msg = q.msg /\ g.msg \in Qos2
    BY <1>1, <1>6, <2>3, <2>5 DEF ReceivedInv
  <2>11. QED
    BY <1>4, <2>8, <2>9, <2>10 DEF ReceivedInv
<1>7. QED
  BY <1>5, <1>6

\* MQTTProtocol_handlePubrels forgets the message, in the store too, and answers
\* PUBCOMP.
LEMMA PubrelReceived ==
    ASSUME FlowInv, LinkInv, ReceivedInv, NEW taken \in BOOLEAN, HandlePubrel(taken)
    PROVE  ReceivedInv'
<1>1. PICK p \in Range(toClient), f \in Range(serverOut) :
        /\ p \in Packet /\ p.type = "PUBREL"
        /\ f.id = p.id /\ f.msg = p.msg /\ f.next = "PUBCOMP"
        /\ toServer' \in {toServer, Append(toServer, Reply("PUBCOMP", p))}
        /\ Range(toClient') \subseteq Range(toClient)
        /\ \/ \E q \in ById(inbound, p.id) :
                /\ inbound' = inbound \ {q}
                /\ IF ~Version5
                   THEN ProcessPublication(q.msg, taken,
                           [store EXCEPT !.received = @ \ ById(@, p.id)])
                   ELSE /\ store' = [store EXCEPT !.received = @ \ ById(@, p.id)]
                        /\ UNCHANGED <<messageQueue, arrived>>
           \/ /\ ById(inbound, p.id) = {}
              /\ UNCHANGED <<inbound, store, messageQueue, arrived>>
        /\ UNCHANGED <<commands, outbound, serverVars, outStatus>>
  BY PubrelLinks
<1>2. /\ toServer \in Seq(Packet) /\ inbound \subseteq store.received
      /\ \A q \in store.received : q \in Queued /\ q.msg \in InMsgs
  BY FlowFacts
<1> DEFINE a == Reply("PUBCOMP", p)
<1>3. a \in Packet /\ a.type = "PUBCOMP" /\ a.id = p.id
  BY <1>1, ReplyFacts
<1>4. toServer' = toServer \/ toServer' = Append(toServer, a)
  BY <1>1
<1> HIDE DEF a
<1>5. \A x \in Range(toServer') : x \in Range(toServer) \/ x = a
  <2>1. Range(Append(toServer, a)) = Range(toServer) \cup {a}
    BY <1>2, <1>3, AppendFacts
  <2>2. QED
    BY <1>4, <2>1
<1>6. \A x \in Range(toServer) : x.type \in Answers => x.id # p.id
  <2>1. p.type \in Requests
    BY <1>1 DEF Requests
  <2>2. QED
    BY <2>1, LinkApart DEF LinkInv
<1>7. "PUBREC" \in Answers /\ "PUBCOMP" \in Answers
  BY DEF Answers
<1>8. serverOut' = serverOut
  BY <1>1 DEF serverVars
<1>9. CASE ById(inbound, p.id) = {} /\ UNCHANGED <<inbound, store>>
  <2>1. Entry(f) \notin inbound
    BY <1>1, <1>9, EntryFacts DEF ById
  <2>2. ById(store.received, p.id) = {}
    BY <1>1, <2>1 DEF ReceivedInv
  <2>3. QED
    BY <1>3, <1>5, <1>8, <1>9, <2>2 DEF ReceivedInv
<1>10. ASSUME NEW q \in ById(inbound, p.id), inbound' = inbound \ {q},
              \/ ProcessPublication(q.msg, taken, [store EXCEPT !.received = @ \ ById(@, p.id)])
              \/ store' = [store EXCEPT !.received = @ \ ById(@, p.id)]
       PROVE  ReceivedInv'
  <2> DEFINE S == store.received \ ById(store.received, p.id)
             st == [store EXCEPT !.received = @ \ ById(@, p.id)]
  <2>1. st \in StoreType /\ st.received = S /\ st.queue = store.queue
    <3>1. store \in StoreType /\ st = [store EXCEPT !.received = S]
      BY DEF FlowInv, TypeInv, DataTypes, StoreType
    <3>2. S \in SUBSET Queued
      BY <1>2
    <3> HIDE DEF S, st
    <3>3. QED
      BY ONLY <3>1, <3>2 DEF StoreType
  <2>2. q \in inbound /\ q.id = p.id /\ q.msg \in InMsgs
    BY <1>2 DEF ById
  <2> HIDE DEF st
  <2>3. store'.received = S
    BY <1>10, <2>1, <2>2, PublicationKeeps DEF st
  <2>4. ById(S, p.id) = {} /\ \A i : ById(store.received, i) = {} => ById(S, i) = {}
    BY DEF ById
  <2>5. S \subseteq store.received
    OBVIOUS
  <2> HIDE DEF S
  <2>6. ASSUME NEW x \in Range(toServer')
        PROVE  /\ x.type = "PUBREC" => Entry(x) \in inbound'
               /\ x.type = "PUBCOMP" => ById(store'.received, x.id) = {}
    <3>1. CASE x = a
      BY <1>3, <2>3, <2>4, <3>1
    <3>2. CASE x \in Range(toServer)
      <4>1. x.type = "PUBREC" => Entry(x) \in inbound'
        BY <1>6, <1>7, <1>10, <2>2, <3>2, EntryFacts DEF ReceivedInv
      <4>2. x.type = "PUBCOMP" => ById(store'.received, x.id) = {}
        BY <2>3, <2>4, <3>2 DEF ReceivedInv
      <4>3. QED
        BY <4>1, <4>2
    <3>3. QED
      BY <1>5, <3>1, <3>2
  <2>7. ASSUME NEW g \in Range(serverOut), g.next = "PUBCOMP"
        PROVE  Entry(g) \in inbound' \/ ById(store'.received, g.id) = {}
    <3>1. CASE g.id = p.id
      BY <2>3, <2>4, <3>1
    <3>2. CASE g.id # p.id
      BY <1>10, <2>2, <2>3, <2>4, <2>7, <3>2, EntryFacts DEF ReceivedInv
    <3>3. QED
      BY <3>1, <3>2
  <2>8. QED
    BY <1>8, <2>3, <2>5, <2>6, <2>7 DEF ReceivedInv
<1>11. QED
  BY <1>1, <1>9, <1>10

\* The session is closed, or the process restarted with what the store has.
LEMMA ClosedReceived ==
    ASSUME FlowInv, FlowInv', LinkInv, ReceivedInv,
           HandleWhileWriting \/ ConnectionLost \/ Restart
    PROVE  ReceivedInv'
<1>1. toServer' = <<>> /\ toClient' = <<>> /\ serverOut' = serverOut
  BY ClosedLinks DEF serverVars
<1>2. /\ toClient \in Seq(Packet) /\ inbound \subseteq store.received
      /\ serverOut \in Seq(Flight) /\ UniqueIds(serverOut)
  BY FlowFacts
<1>3. Range(toServer') = {}
  BY <1>1 DEF Range
<1>4. CASE \/ inbound' = inbound /\ store'.received = store.received
           \/ inbound' = store.received /\ store'.received = store.received
  BY <1>1, <1>2, <1>3, <1>4 DEF ReceivedInv
<1>5. CASE ConnectionLost
  BY <1>4, <1>5 DEF ConnectionLost, clientVars
<1>6. CASE Restart
  <2>1. store \in StoreType
    BY DEF FlowInv, TypeInv, DataTypes, StoreType
  <2>2. inbound' = store.received /\ store' = [store EXCEPT !.pubrel = @ \cap {q.id : q \in store.sent}]
    BY <1>6 DEF Restart
  <2>3. store'.received = store.received
    BY <2>1, <2>2 DEF StoreType
  <2>4. QED
    BY <1>4, <2>2, <2>3
<1>7. CASE HandleWhileWriting
  <2> DEFINE p == Head(toClient)
  <2>1. /\ toClient # <<>> /\ inbound' = inbound
        /\ store' = IF p.type = "PUBLISH" THEN Received(p) ELSE store
    BY <1>7 DEF HandleWhileWriting, clientVars
  <2>2. p \in Packet /\ p \in Range(toClient)
    BY <1>2, <2>1, TailFacts
  <2> HIDE DEF p
  <2>3. CASE p.type = "PUBLISH" /\ p.msg \in Qos2
    <3> DEFINE e == [msg |-> p.msg, id |-> p.id]
    <3>1. p.msg \in InMsgs /\ TypeInv /\ StoreInv
      BY <2>2, <2>3 DEF FlowInv, TypeInv
    <3>2. store'.received = (store.received \ ById(store.received, p.id)) \cup {e}
      BY <2>1, <2>2, <2>3, <3>1, ReceivedFacts
    <3>3. e.id = p.id /\ e.msg = p.msg
      OBVIOUS
    <3> HIDE DEF e
    <3>4. p.type \in Requests
      BY <2>3 DEF Requests
    <3>5. PICK f \in Range(serverOut) : f.id = p.id /\ f.msg = p.msg /\ f.next # "PUBCOMP"
      BY <2>2, <2>3, <3>4 DEF LinkInv, Linked, Asked
    <3>6. \A g \in Range(serverOut) : g.id = p.id => g = f
      BY <1>2, <3>5, RangeFacts
    <3>7. ASSUME NEW g \in Range(serverOut), g.next = "PUBCOMP"
          PROVE  Entry(g) \in inbound' \/ ById(store'.received, g.id) = {}
      <4>1. g.id # p.id
        BY <3>5, <3>6, <3>7
      <4>2. ById(store.received, g.id) = {} => ById(store'.received, g.id) = {}
        BY <3>2, <3>3, <4>1 DEF ById
      <4>3. QED
        BY <2>1, <3>7, <4>2 DEF ReceivedInv
    <3>8. ASSUME NEW q \in store'.received
          PROVE  \E g \in Range(serverOut) : g.id = q.id /\ g.msg = q.msg /\ g.msg \in Qos2
      BY <2>3, <3>2, <3>3, <3>5 DEF ReceivedInv
    <3>9. QED
      BY <1>1, <1>3, <3>7, <3>8 DEF ReceivedInv
  <2>4. CASE ~(p.type = "PUBLISH" /\ p.msg \in Qos2)
    <3>1. store' = store
      BY <2>1, <2>4 DEF Received
    <3>2. QED
      BY <1>4, <2>1, <3>1
  <2>5. QED
    BY <2>3, <2>4
<1>8. QED
  BY <1>5, <1>6, <1>7

\* The server's side of its QoS 2 messages.
LEMMA ServerReceived ==
    ASSUME FlowInv, LinkInv, ReceivedInv,
           \/ \E m \in InMsgs, i \in Ids : ServerPublish(m, i)
           \/ ServerPubrec
           \/ \E type \in {"PUBACK", "PUBCOMP"} : ServerCompletes(type)
    PROVE  ReceivedInv'
<1>1. /\ serverOut \in Seq(Flight) /\ UniqueIds(serverOut)
      /\ \A g \in Range(serverOut) : g \in Flight
  BY FlowFacts
<1>2. ASSUME NEW m \in InMsgs, NEW i \in Ids, ServerPublish(m, i) PROVE ReceivedInv'
  <2>1. PICK f \in Flight : f.next # "PUBCOMP" /\ Range(serverOut') = Range(serverOut) \cup {f}
    BY <1>2, ServerPublishLinks
  <2>2. inbound' = inbound /\ store' = store /\ toServer' = toServer
    BY <1>2, ServerPublishLinks DEF clientVars
  <2>3. QED
    BY <2>1, <2>2 DEF ReceivedInv
<1>3. CASE ServerPubrec
  <2>1. PICK p \in Range(toServer), f \in Range(serverOut) :
          /\ p \in Packet /\ p.type = "PUBREC"
          /\ f.id = p.id /\ f.msg = p.msg /\ f.next = "PUBREC"
          /\ serverOut' = AwaitPubcomp(serverOut, p.id)
          /\ toClient' = Append(toClient, Reply("PUBREL", p))
          /\ Range(toServer') \subseteq Range(toServer)
          /\ UNCHANGED <<clientVars, store, outStatus, arrived, serverIn, inStatus, atServer>>
    BY <1>3, ServerPubrecLinks
  <2>2. inbound' = inbound /\ store' = store
    BY <2>1 DEF clientVars
  <2> DEFINE M(x) == IF x.id = p.id THEN [x EXCEPT !.next = "PUBCOMP"] ELSE x
  <2>3. /\ \A y \in Range(serverOut') : \E x \in Range(serverOut) : y = M(x)
        /\ \A x \in Range(serverOut) : M(x) \in Range(serverOut')
    BY <1>1, <2>1, AwaitFacts
  <2>4. \A x \in Flight : M(x).id = x.id /\ M(x).msg = x.msg /\ (x.id # p.id => M(x) = x)
    BY DEF Flight
  <2> HIDE DEF M
  <2>5. \A x \in Range(serverOut) : x.id = p.id => x = f
    BY <1>1, <2>1, RangeFacts
  <2>6. ASSUME NEW y \in Range(serverOut'), y.next = "PUBCOMP"
        PROVE  Entry(y) \in inbound' \/ ById(store'.received, y.id) = {}
    <3>1. PICK x \in Range(serverOut) : y = M(x)
      BY <2>3
    <3>2. CASE x.id = p.id
      <4>1. Entry(y) = Entry(p)
        <5>1. y.id = p.id /\ y.msg = p.msg
          BY <1>1, <2>1, <2>4, <2>5, <3>1, <3>2
        <5>2. QED
          BY <5>1, EntryFacts
      <4>2. QED
        BY <2>1, <2>2, <4>1 DEF ReceivedInv
    <3>3. CASE x.id # p.id
      BY <1>1, <2>2, <2>4, <2>6, <3>1, <3>3 DEF ReceivedInv
    <3>4. QED
      BY <3>2, <3>3
  <2>7. ASSUME NEW q \in store'.received
        PROVE  \E g \in Range(serverOut') : g.id = q.id /\ g.msg = q.msg /\ g.msg \in Qos2
    <3>1. PICK x \in Range(serverOut) : x.id = q.id /\ x.msg = q.msg /\ x.msg \in Qos2
      BY <2>2, <2>7 DEF ReceivedInv
    <3>2. M(x).id = x.id /\ M(x).msg = x.msg /\ M(x) \in Range(serverOut')
      BY <1>1, <2>3, <2>4
    <3>3. QED
      BY <3>1, <3>2
  <2>8. QED
    BY <2>1, <2>2, <2>6, <2>7 DEF ReceivedInv
<1>4. ASSUME NEW type \in {"PUBACK", "PUBCOMP"}, ServerCompletes(type) PROVE ReceivedInv'
  <2>1. PICK p \in Range(toServer), f \in Range(serverOut) :
          /\ p.type = type /\ f.id = p.id /\ f.msg = p.msg /\ f.next = type
          /\ Range(serverOut') = {x \in Range(serverOut) : x.id # p.id}
          /\ toClient' = toClient /\ Range(toServer') \subseteq Range(toServer)
          /\ \A x \in Range(toServer') : x.type \in Answers => x.id # p.id
          /\ inStatus' = [m \in InMsgs |-> IF m = f.msg THEN "complete" ELSE inStatus[m]]
          /\ UNCHANGED <<clientVars, store, outStatus, arrived, serverIn, atServer>>
    BY <1>4, ServerCompletesLinks
  <2>2. inbound' = inbound /\ store' = store
    BY <2>1 DEF clientVars
  <2>3. ASSUME NEW q \in store.received PROVE q.id # p.id
    <3>1. CASE type = "PUBCOMP"
      BY <2>1, <3>1 DEF ReceivedInv, ById
    <3>2. CASE type = "PUBACK"
      <4>1. f.msg \notin Qos2
        BY <2>1, <3>2, Waits
      <4>2. PICK g \in Range(serverOut) : g.id = q.id /\ g.msg \in Qos2
        BY DEF ReceivedInv
      <4>3. g.id # f.id
        BY <1>1, <4>1, <4>2, RangeFacts
      <4>4. QED
        BY <2>1, <4>2, <4>3
    <3>3. QED
      BY <3>1, <3>2
  <2>4. QED
    BY <2>1, <2>2, <2>3 DEF ReceivedInv
<1>5. QED
  BY <1>2, <1>3, <1>4

\* Nothing has been received at the start.
LEMMA ReceivedInit == Init => ReceivedInv
BY DEF Init, ReceivedInv, Range

\* a step that leaves what the server sends alone
Quiet ==
    /\ store'.received = store.received
    /\ UNCHANGED <<inbound, serverOut, inStatus, arrived, messageQueue>>
    /\ \A p \in Range(toServer') : p \in Range(toServer) \/ p.type \in Requests

\* The sending side's steps.
LEMMA QuietSteps ==
    ASSUME FlowInv, LinkInv,
           \/ \E m \in OutMsgs, i \in Ids : Publish(m, i)
           \/ Send
           \/ \E type \in {"PUBACK", "PUBCOMP"} : HandlePuback(type)
           \/ HandlePubrec
           \/ ServerTakes \/ ServerReleases
           \/ Connect
           \/ UNCHANGED vars
    PROVE  Quiet
<1>1. store \in StoreType /\ toServer \in Seq(Packet)
  BY DEF FlowInv, TypeInv, DataTypes, StoreType
<1>2. "PUBLISH" \in Requests /\ "PUBREL" \in Requests
  BY DEF Requests
<1>3. ASSUME NEW m \in OutMsgs, NEW i \in Ids, Publish(m, i) PROVE Quiet
  <2>1. /\ toServer' = toServer /\ UNCHANGED <<inbound, serverOut, inStatus, arrived, messageQueue>>
        /\ store' = [store EXCEPT !.commands = commands']
    BY <1>3 DEF Publish, netVars, serverVars
  <2>2. store'.received = store.received
    BY <1>1, <2>1 DEF StoreType
  <2>3. QED
    BY <2>1, <2>2 DEF Quiet
<1>4. CASE Send
  <2>1. PICK ok \in BOOLEAN : ProcessPublish(ok)
    BY <1>4 DEF Send
  <2>2. /\ UNCHANGED <<inbound, serverOut, inStatus, arrived, messageQueue>>
        /\ store' = [store EXCEPT !.commands = Tail(commands), !.sent = @ \cup {Head(commands)}]
    BY <2>1 DEF ProcessPublish, serverVars
  <2>3. store'.received = store.received
    BY <1>1, <2>2 DEF StoreType
  <2>4. \A p \in Range(toServer') : p \in Range(toServer) \/ p.type \in Requests
    BY <1>2, <2>1, ProcessLinks
  <2>5. QED
    BY <2>2, <2>3, <2>4 DEF Quiet
<1>5. ASSUME NEW type \in {"PUBACK", "PUBCOMP"}, HandlePuback(type) PROVE Quiet
  <2>1. toServer' = toServer
    BY SMTT(60), <1>5, PubackLinks
  <2>2. /\ UNCHANGED <<inbound, serverOut, inStatus, arrived, messageQueue>>
        /\ \/ \E f : store' = [store EXCEPT !.sent = @ \ ById(@, f.id), !.pubrel = @ \ {f.id}]
           \/ store' = store
    BY <1>5 DEF HandlePuback, Finish, serverVars
  <2>3. store'.received = store.received
    BY <1>1, <2>2 DEF StoreType
  <2>4. QED
    BY <2>1, <2>2, <2>3 DEF Quiet
<1>6. CASE HandlePubrec
  <2>1. PICK p \in Range(toClient) : toServer' = Append(toServer, Reply("PUBREL", p)) /\ p \in Packet
    BY <1>6, PubrecLinks
  <2>2. Reply("PUBREL", p) \in Packet /\ Reply("PUBREL", p).type = "PUBREL"
    BY <2>1, ReplyFacts
  <2>3. Range(toServer') = Range(toServer) \cup {Reply("PUBREL", p)}
    BY <1>1, <2>1, <2>2, AppendFacts
  <2>4. /\ UNCHANGED <<inbound, serverOut, inStatus, arrived, messageQueue>>
        /\ \/ \E x : store' = [store EXCEPT !.pubrel = @ \cup {x}]
           \/ store' = store
    BY <1>6 DEF HandlePubrec, serverVars
  <2>5. store'.received = store.received
    BY <1>1, <2>4 DEF StoreType
  <2>6. QED
    BY <1>2, <2>2, <2>3, <2>4, <2>5 DEF Quiet
<1>7. CASE ServerTakes \/ ServerReleases
  <2>1. /\ Range(toServer') \subseteq Range(toServer) /\ store' = store
        /\ UNCHANGED <<inbound, serverOut, inStatus, arrived, messageQueue>>
    BY <1>7, ServerTakesLinks DEF clientVars
  <2>2. QED
    BY <2>1 DEF Quiet
<1>8. CASE Connect
  <2>1. /\ \A p \in Range(toServer') : p.type \in Requests
        /\ store' = store /\ UNCHANGED <<inbound, serverOut, inStatus, arrived, messageQueue>>
    BY <1>8, ConnectLinks DEF clientVars, serverVars
  <2>2. QED
    BY <2>1 DEF Quiet
<1>9. CASE UNCHANGED vars
  BY <1>9 DEF Quiet, vars, clientVars, netVars, serverVars
<1>10. QED
  BY <1>3, <1>4, <1>5, <1>6, <1>7, <1>8, <1>9

\* Every step keeps what was received as long as the server has it in flight.
LEMMA ReceivedStep ==
    ASSUME FlowInv, FlowInv', LinkInv, ReceivedInv, [Next]_vars
    PROVE  ReceivedInv'
<1>1. store \in StoreType
  BY DEF FlowInv, TypeInv, DataTypes, StoreType
<1>2. ASSUME Quiet PROVE ReceivedInv'
  BY <1>2, ReceivedKept DEF Quiet
<1>3. CASE \/ \E m \in OutMsgs, i \in Ids : Publish(m, i)
           \/ Send
           \/ ServerTakes \/ ServerReleases
           \/ Connect
           \/ UNCHANGED vars
  BY <1>2, <1>3, QuietSteps
<1>4. CASE Receive
  <2>1. CASE \/ \E type \in {"PUBACK", "PUBCOMP"} : HandlePuback(type)
             \/ HandlePubrec
    BY <1>2, <2>1, QuietSteps
  <2>2. CASE \E taken \in BOOLEAN : HandlePublish(taken) \/ HandlePubrel(taken)
    BY <2>2, PublishReceived, PubrelReceived
  <2>3. CASE HandleWhileWriting
    BY <2>3, ClosedReceived
  <2>4. QED
    BY <1>4, <2>1, <2>2, <2>3 DEF Receive
<1>5. CASE QueueOffered
  <2>1. /\ inbound' = inbound /\ serverOut' = serverOut /\ toServer' = toServer
        /\ store' = store \/ store' = [store EXCEPT !.queue = messageQueue']
    BY <1>5, OfferKeeps DEF serverVars
  <2>2. store'.received = store.received
    BY <1>1, <2>1 DEF StoreType
  <2>3. QED
    BY <2>1, <2>2, ReceivedKept
<1>6. CASE ConnectionLost \/ Restart
  BY <1>6, ClosedReceived
<1>7. CASE \/ \E m \in InMsgs, i \in Ids : ServerPublish(m, i)
           \/ ServerPubrec
           \/ \E type \in {"PUBACK", "PUBCOMP"} : ServerCompletes(type)
  BY <1>7, ServerReceived
<1>8. QED
  BY <1>3, <1>4, <1>5, <1>6, <1>7 DEF Next, Server, QueueOffered

----------------------------------------------------------------------------
(* The store and the memory *)

MemoryInv == FlowInv /\ LinkInv /\ ReceivedInv

\* A PUBLISH belongs to a message in flight of its direction, and what the store
\* has under its id is that message.
LEMMA Related ==
    ASSUME MemoryInv
    PROVE  UpInv /\ SameInv
<1>1. FlowInv /\ LinkInv /\ ReceivedInv
  BY DEF MemoryInv
<1>2. /\ \A f \in Range(outbound) : f.msg \in OutMsgs
      /\ serverOut \in Seq(Flight) /\ UniqueIds(serverOut)
  BY <1>1, FlowFacts
<1>3. "PUBLISH" \in Requests
  BY DEF Requests
<1>4. UpInv
  BY <1>1, <1>2, <1>3 DEF UpInv, LinkInv, Linked, Asked
<1>5. ASSUME NEW p \in Range(toClient), NEW q \in store.received, p.type = "PUBLISH", q.id = p.id
      PROVE  q.msg = p.msg
  <2>1. PICK f \in Range(serverOut) : f.id = p.id /\ f.msg = p.msg
    BY <1>1, <1>3, <1>5 DEF LinkInv, Linked, Asked
  <2>2. PICK g \in Range(serverOut) : g.id = q.id /\ g.msg = q.msg
    BY <1>1 DEF ReceivedInv
  <2>3. f = g
    BY <1>2, <1>5, <2>1, <2>2, RangeFacts
  <2>4. QED
    BY <2>1, <2>2, <2>3
<1>6. QED
  BY <1>4, <1>5 DEF SameInv

\* Every step keeps the store and the memory alike.
LEMMA MemoryStep ==
    ASSUME MemoryInv, [Next]_vars
    PROVE  MemoryInv'
<1>1. FlowInv /\ LinkInv /\ ReceivedInv
  BY DEF MemoryInv
<1>2. FlowInv'
  BY <1>1, Related, FlowStep
<1>3. LinkInv'
  BY <1>1, <1>2, LinkStep
<1>4. ReceivedInv'
  BY <1>1, <1>2, ReceivedStep
<1>5. QED
  BY <1>2, <1>3, <1>4 DEF MemoryInv

\* The invariant holds of the flows, whatever connections are lost and processes
\* restarted.
THEOREM MemoryAlways == Spec => []MemoryInv
<1>1. Init => MemoryInv
  BY FlowInit, LinksInit, ReceivedInit DEF MemoryInv
<1>2. MemoryInv /\ [Next]_vars => MemoryInv'
  BY MemoryStep
<1>3. QED
  BY <1>1, <1>2, PTL DEF Spec

\* what a reconnect has not sent again, and whether messageArrived is offered a message
SideTypes == stalled \in SUBSET OutMsgs /\ offer \in BOOLEAN

\* Only a reconnect adds to what has not been sent again.
LEMMA SideStep ==
    ASSUME FlowInv, SideTypes, [Next]_vars
    PROVE  SideTypes'
<1>1. CASE Connect
  <2>1. PICK k \in 0 .. Len(outbound) : stalled' = {outbound[n].msg : n \in k + 1 .. Len(outbound)}
    BY <1>1 DEF Connect, ResendTo
  <2>2. /\ outbound \in Seq(Flight) /\ \A f \in Range(outbound) : f.msg \in OutMsgs
        /\ offer' = offer
    BY <1>1, FlowFacts DEF Connect
  <2>3. DOMAIN outbound = 1 .. Len(outbound) /\ Len(outbound) \in Nat /\ k \in Nat
    BY <2>2
  <2>4. \A n \in k + 1 .. Len(outbound) : n \in DOMAIN outbound
    BY <2>3
  <2>5. stalled' \subseteq OutMsgs
    BY <2>1, <2>2, <2>4 DEF Range
  <2>6. QED
    BY <2>2, <2>5 DEF SideTypes
<1>2. CASE Receive
  BY <1>2 DEF SideTypes, Receive, HandlePuback, HandlePubrec, HandlePublish, HandlePubrel,
              HandleWhileWriting, FromServer, OfferNext, Disconnected
<1>3. CASE QueueOffered
  BY <1>3 DEF SideTypes, QueueOffered, SocketEvent, DeliverQueued
<1>4. CASE Server
  BY <1>4 DEF SideTypes, Server, ServerTakes, ServerReleases, ServerPubrec, ServerCompletes,
              FromClient
<1>5. CASE Send \/ ConnectionLost \/ Restart
  BY <1>5 DEF SideTypes, Send, ProcessPublish, ConnectionLost, Restart, Disconnected
<1>6. CASE \/ \E m \in OutMsgs, i \in Ids : Publish(m, i)
           \/ \E m \in InMsgs, i \in Ids : ServerPublish(m, i)
           \/ UNCHANGED vars
  BY <1>6 DEF SideTypes, Publish, ServerPublish, vars, netVars
<1>7. QED
  BY <1>1, <1>2, <1>3, <1>4, <1>5, <1>6 DEF Next, QueueOffered

\* Every list, packet and count keeps its type.
THEOREM FlowTypes == Spec => []TypeOK
<1>1. Init => SideTypes
  BY DEF Init, SideTypes
<1>2. MemoryInv /\ SideTypes /\ [Next]_vars => SideTypes'
  BY SideStep DEF MemoryInv
<1>3. Spec => []SideTypes
  BY <1>1, <1>2, MemoryAlways, PTL DEF Spec
<1>4. MemoryInv /\ SideTypes => TypeOK
  BY DEF MemoryInv, FlowInv, TypeInv, SideTypes, TypeOK
<1>5. QED
  BY <1>3, <1>4, MemoryAlways, PTL

\* MQTTPersistence_restorePackets and its companions would restore exactly what the
\* client has in memory, after any step.
THEOREM StoreMatches == Spec => []StoreMatchesMemory
<1>1. MemoryInv => StoreMatchesMemory
  BY DEF MemoryInv, FlowInv, StoreInv
<1>2. QED
  BY <1>1, MemoryAlways, PTL

\* A message that MQTTAsync_send accepted is in the command list or in flight until
\* its flow ends.
THEOREM NothingLost == Spec => []NoMessageLost
<1>1. MemoryInv => NoMessageLost
  BY DEF MemoryInv, FlowInv
<1>2. QED
  BY <1>1, MemoryAlways, PTL

----------------------------------------------------------------------------
(* The application's messages reach the server *)

\* a step of Delivery, or none
OutStep == [Out!Next]_<<outStatus, atServer>>

\* The counts and states of messages.
LEMMA CountFacts ==
    ASSUME FlowInv
    PROVE  /\ atServer \in [OutMsgs -> 0 .. Many] /\ Many \in Nat /\ Many > 1
           /\ outStatus \in [OutMsgs -> {"new", "pending", "complete"}]
BY FlowAssumption DEF FlowInv, TypeInv, DataTypes

\* A step of the other direction, or one that only sends again.
LEMMA SentKept ==
    ASSUME SentInv, Range(outbound') = Range(outbound), Range(commands') = Range(commands),
           UNCHANGED <<serverIn, atServer, outStatus>>,
           \A p \in Range(toClient') : p \in Range(toClient) \/ p.type \in Requests
    PROVE  SentInv' /\ OutStep
<1>1. \A p \in Range(toClient') : p.type \in Answers => p \in Range(toClient)
  BY TwoKinds
<1>2. "PUBACK" \in Answers /\ "PUBREC" \in Answers /\ "PUBCOMP" \in Answers
  BY DEF Answers
<1>3. SentInv'
  BY <1>1, <1>2 DEF SentInv
<1>4. QED
  BY <1>3 DEF OutStep

\* MQTTAsync_send accepts a message.
LEMMA PublishSent ==
    ASSUME MemoryInv, SentInv, NEW m \in OutMsgs, NEW i \in Ids, Publish(m, i)
    PROVE  SentInv' /\ OutStep
<1>1. FlowInv
  BY DEF MemoryInv
<1>2. /\ commands \in Seq(Queued) /\ \A q \in Range(commands) : q.msg \in OutMsgs
      /\ \A f \in Range(outbound) : f.msg \in OutMsgs
  BY <1>1, FlowFacts
<1> DEFINE e == [msg |-> m, id |-> i]
<1>3. /\ outStatus[m] = "new" /\ commands' = Append(commands, e)
      /\ outStatus' = [outStatus EXCEPT ![m] = "pending"]
      /\ UNCHANGED <<outbound, serverIn, atServer, toClient>>
  BY DEF Publish, serverVars, netVars
<1>4. e \in Queued /\ e.msg = m
  BY DEF Queued, Msgs
<1> HIDE DEF e
<1>5. Range(commands') = Range(commands) \cup {e}
  BY <1>2, <1>3, <1>4, AppendFacts
<1>6. /\ outStatus'[m] = "pending"
      /\ \A x \in OutMsgs : x # m => outStatus'[x] = outStatus[x]
  BY <1>1, <1>3, CountFacts
<1>7. /\ \A q \in Range(commands) : q.msg # m
      /\ \A f \in Range(outbound) : f.msg # m
  BY <1>3 DEF SentInv
<1>8. atServer[m] = 0
  BY <1>3 DEF SentInv
<1>9. SentInv'
  <2>1. \A q \in Range(commands') : outStatus'[q.msg] = "pending" /\ atServer'[q.msg] = 0
    BY <1>2, <1>3, <1>4, <1>5, <1>6, <1>7, <1>8 DEF SentInv
  <2>2. \A f \in Range(outbound') : outStatus'[f.msg] = "pending"
    BY <1>2, <1>3, <1>6, <1>7 DEF SentInv
  <2>3. \A x \in OutMsgs : outStatus'[x] = "new" => atServer'[x] = 0
    BY <1>3, <1>6 DEF SentInv
  <2>4. \A q, r \in Range(commands') : q.msg = r.msg => q = r
    BY <1>4, <1>5, <1>7 DEF SentInv
  <2>5. \A q \in Range(commands'), f \in Range(outbound') : q.msg # f.msg
    BY <1>3, <1>4, <1>5, <1>7 DEF SentInv
  <2>6. QED
    BY <1>3, <2>1, <2>2, <2>3, <2>4, <2>5 DEF SentInv
<1>10. Out!Accept(m)
  BY <1>3 DEF Out!Accept
<1>11. QED
  BY <1>9, <1>10 DEF OutStep, Out!Next

\* MQTTAsync_processCommand: a message in flight instead of a command.
LEMMA ProcessSent ==
    ASSUME MemoryInv, SentInv, NEW ok \in BOOLEAN, ProcessPublish(ok)
    PROVE  SentInv' /\ OutStep
<1>1. FlowInv /\ LinkInv
  BY DEF MemoryInv
<1>2. \A x \in Range(commands) : x \in Queued
  BY <1>1, FlowFacts
<1>3. PICK q \in Range(commands) :
        /\ Range(commands') \subseteq Range(commands) /\ q.id \notin IdsIn(commands')
        /\ Range(outbound') = Range(outbound) \cup {CreateMessage(q)}
        /\ q.id \notin IdsIn(outbound)
        /\ Range(toClient') \subseteq Range(toClient)
  BY <1>1, ProcessLinks
<1>4. UNCHANGED <<serverIn, atServer, outStatus>>
  BY DEF ProcessPublish, serverVars
<1> DEFINE f == CreateMessage(q)
<1>5. f.id = q.id /\ f.msg = q.msg /\ f.next # "PUBCOMP" /\ f.next \in {"PUBACK", "PUBREC", "PUBCOMP"}
  BY <1>2, FirstWait DEF Flight
<1> HIDE DEF f
<1>6. Range(outbound') = Range(outbound) \cup {f}
  BY <1>3 DEF f
<1>7. outStatus[q.msg] = "pending" /\ atServer[q.msg] = 0 /\ q.id \notin serverIn
  <2>1. \A x \in Range(outbound) : x.id # q.id
    BY <1>3 DEF IdsIn, Range
  <2>2. QED
    BY <2>1 DEF SentInv
<1>8. \A r \in Range(commands') : r \in Range(commands) /\ r.msg # q.msg
  <2>1. \A r \in Range(commands') : r.id # q.id
    BY <1>3 DEF IdsIn, Range
  <2>2. QED
    BY <1>3, <2>1 DEF SentInv
<1>9. \A x \in Range(outbound') :
        /\ outStatus[x.msg] = "pending"
        /\ x.next = "PUBREC" => (x.id \in serverIn <=> atServer[x.msg] > 0)
        /\ x.next = "PUBCOMP" => atServer[x.msg] > 0
  BY <1>5, <1>6, <1>7 DEF SentInv
<1>10. \A x, y \in Range(outbound') : x.msg = y.msg => x = y
  BY <1>5, <1>6 DEF SentInv
<1>11. \A r \in Range(commands'), x \in Range(outbound') : r.msg # x.msg
  BY <1>5, <1>6, <1>8 DEF SentInv
<1>12. \A i \in serverIn : \E x \in Range(outbound') : x.id = i /\ x.msg \in Qos2
  BY <1>6 DEF SentInv
<1>13. SentInv'
  BY <1>3, <1>4, <1>8, <1>9, <1>10, <1>11, <1>12 DEF SentInv
<1>14. QED
  BY <1>4, <1>13 DEF OutStep

\* The flow ends: the server has the message.
LEMMA PubackSent ==
    ASSUME MemoryInv, SentInv, NEW type \in {"PUBACK", "PUBCOMP"}, HandlePuback(type)
    PROVE  SentInv' /\ OutStep
<1>1. FlowInv /\ LinkInv
  BY DEF MemoryInv
<1>2. /\ outbound \in Seq(Flight) /\ UniqueIds(outbound)
      /\ \A x \in Range(outbound) : x.msg \in OutMsgs
      /\ \A q \in Range(commands) : q.msg \in OutMsgs
  BY <1>1, FlowFacts
<1>3. PICK p \in Range(toClient), f \in Range(outbound) :
        /\ p.type = type /\ f.id = p.id /\ f.msg = p.msg /\ f.next = type
        /\ Range(outbound') = {x \in Range(outbound) : x.id # p.id}
        /\ outStatus' = [outStatus EXCEPT ![f.msg] = "complete"]
        /\ Range(toClient') \subseteq Range(toClient)
  BY <1>1, PubackLinks
<1>4. UNCHANGED <<serverIn, atServer, commands>>
  BY DEF HandlePuback, serverVars
<1>5. f.msg \in OutMsgs /\ outStatus[f.msg] = "pending" /\ atServer[f.msg] > 0
  BY <1>2, <1>3 DEF SentInv
<1>6. /\ \A x \in OutMsgs : x # f.msg => outStatus'[x] = outStatus[x]
      /\ outStatus'[f.msg] = "complete"
  BY <1>1, <1>3, <1>5, CountFacts
<1>7. \A x \in Range(outbound') : x \in Range(outbound) /\ x.msg # f.msg
  BY <1>3 DEF SentInv
<1>8. \A x \in Range(outbound) : x.id = p.id => x = f
  BY <1>2, <1>3, RangeFacts
<1>9. \A i \in serverIn : \E x \in Range(outbound') : x.id = i /\ x.msg \in Qos2
  <2>1. ASSUME NEW i \in serverIn PROVE \E x \in Range(outbound') : x.id = i /\ x.msg \in Qos2
    <3>1. PICK x \in Range(outbound) : x.id = i /\ x.msg \in Qos2
      BY DEF SentInv
    <3>2. i # p.id
      <4>1. CASE type = "PUBCOMP"
        BY <1>3, <4>1 DEF SentInv
      <4>2. CASE type = "PUBACK"
        <5>1. f.msg \notin Qos2
          BY <1>1, <1>3, <4>2, Waits
        <5>2. QED
          BY <1>8, <3>1, <5>1
      <4>3. QED
        BY <4>1, <4>2
    <3>3. QED
      BY <1>3, <3>1, <3>2
  <2>2. QED
    BY <2>1
<1>10. \A q \in Range(commands) : outStatus'[q.msg] = "pending" /\ atServer[q.msg] = 0
  BY <1>2, <1>6 DEF SentInv
<1>11. \A m \in OutMsgs : outStatus'[m] = "new" => atServer[m] = 0
  BY <1>6 DEF SentInv
<1>12. \A x \in Range(outbound') :
         /\ outStatus'[x.msg] = "pending"
         /\ x.next = "PUBREC" => (x.id \in serverIn <=> atServer[x.msg] > 0)
         /\ x.next = "PUBCOMP" => atServer[x.msg] > 0
  BY <1>2, <1>6, <1>7 DEF SentInv
<1>13. SentInv'
  BY <1>3, <1>4, <1>7, <1>9, <1>10, <1>11, <1>12 DEF SentInv
<1>14. Out!Complete(f.msg)
  BY <1>3, <1>4, <1>5 DEF Out!Complete
<1>15. QED
  BY <1>5, <1>13, <1>14 DEF OutStep, Out!Next

\* MQTTProtocol_handlePubrecs: the server has the message.
LEMMA PubrecSent ==
    ASSUME MemoryInv, SentInv, HandlePubrec
    PROVE  SentInv' /\ OutStep
<1>1. FlowInv /\ LinkInv
  BY DEF MemoryInv
<1>2. /\ outbound \in Seq(Flight) /\ UniqueIds(outbound) /\ \A x \in Range(outbound) : x \in Flight
  BY <1>1, FlowFacts
<1>3. PICK p \in Range(toClient), f \in Range(outbound) :
        /\ p.type = "PUBREC" /\ f.id = p.id /\ f.msg = p.msg /\ f.next = "PUBREC"
        /\ outbound' = AwaitPubcomp(outbound, p.id)
        /\ Range(toClient') \subseteq Range(toClient)
  BY <1>1, PubrecLinks
<1>4. UNCHANGED <<serverIn, atServer, commands, outStatus>>
  BY DEF HandlePubrec, serverVars
<1> DEFINE M(x) == IF x.id = p.id THEN [x EXCEPT !.next = "PUBCOMP"] ELSE x
<1>5. /\ \A y \in Range(outbound') : \E x \in Range(outbound) : y = M(x)
      /\ \A x \in Range(outbound) : M(x) \in Range(outbound')
  BY <1>2, <1>3, AwaitFacts
<1>6. \A x \in Flight : /\ M(x).id = x.id /\ M(x).msg = x.msg
                        /\ x.id # p.id => M(x) = x
                        /\ x.id = p.id => M(x).next = "PUBCOMP"
  BY DEF Flight
<1> HIDE DEF M
<1>7. \A x \in Range(outbound) : x.id = p.id => x = f
  BY <1>2, <1>3, RangeFacts
<1>8. atServer[f.msg] > 0
  BY <1>3 DEF SentInv
<1>9. ASSUME NEW y \in Range(outbound')
      PROVE  /\ outStatus[y.msg] = "pending"
             /\ y.next = "PUBREC" => (y.id \in serverIn <=> atServer[y.msg] > 0)
             /\ y.next = "PUBCOMP" => atServer[y.msg] > 0
  <2>1. PICK x \in Range(outbound) : y = M(x)
    BY <1>5
  <2>2. CASE x.id = p.id
    BY <1>2, <1>6, <1>7, <1>8, <2>1, <2>2 DEF SentInv
  <2>3. CASE x.id # p.id
    BY <1>2, <1>6, <2>1, <2>3 DEF SentInv
  <2>4. QED
    BY <2>2, <2>3
<1>10. \A x, y \in Range(outbound') : x.msg = y.msg => x = y
  <2>1. ASSUME NEW x \in Range(outbound'), NEW y \in Range(outbound'), x.msg = y.msg PROVE x = y
    <3>1. PICK a \in Range(outbound) : x = M(a)
      BY <1>5
    <3>2. PICK b \in Range(outbound) : y = M(b)
      BY <1>5
    <3>3. a.msg = b.msg
      BY <1>2, <1>6, <2>1, <3>1, <3>2
    <3>4. a = b
      BY <3>3 DEF SentInv
    <3>5. QED
      BY <3>1, <3>2, <3>4
  <2>2. QED
    BY <2>1
<1>11. \A q \in Range(commands), y \in Range(outbound') : q.msg # y.msg
  <2>1. \A y \in Range(outbound') : \E x \in Range(outbound) : y.msg = x.msg
    BY <1>2, <1>5, <1>6
  <2>2. QED
    BY <2>1 DEF SentInv
<1>12. \A i \in serverIn : \E y \in Range(outbound') : y.id = i /\ y.msg \in Qos2
  <2>1. ASSUME NEW i \in serverIn PROVE \E y \in Range(outbound') : y.id = i /\ y.msg \in Qos2
    <3>1. PICK x \in Range(outbound) : x.id = i /\ x.msg \in Qos2
      BY DEF SentInv
    <3>2. M(x) \in Range(outbound') /\ M(x).id = i /\ M(x).msg \in Qos2
      BY <1>2, <1>5, <1>6, <3>1
    <3>3. QED
      BY <3>2
  <2>2. QED
    BY <2>1
<1>13. SentInv'
  BY <1>3, <1>4, <1>9, <1>10, <1>11, <1>12 DEF SentInv
<1>14. QED
  BY <1>4, <1>13 DEF OutStep

\* The server takes a PUBLISH, once for each id it has not released, or a PUBREL.
LEMMA ServerTakesSent ==
    ASSUME MemoryInv, SentInv, ServerTakes \/ ServerReleases
    PROVE  SentInv' /\ OutStep
<1>1. FlowInv /\ LinkInv
  BY DEF MemoryInv
<1>2. /\ outbound \in Seq(Flight) /\ UniqueIds(outbound) /\ toClient \in Seq(Packet)
      /\ \A x \in Range(outbound) : x \in Flight /\ x.msg \in OutMsgs
      /\ \A q \in Range(commands) : q.msg \in OutMsgs
      /\ \A x \in Range(toClient) : x \in Packet
  BY <1>1, FlowFacts DEF Range
<1>3. PICK p \in Range(toServer), f \in Range(outbound), t \in Answers :
        /\ p \in Packet /\ f.id = p.id /\ f.msg = p.msg /\ f.next = t
        /\ toClient' = Append(toClient, Reply(t, p))
        /\ \A x \in Range(toClient) : x.type \in Answers => x.id # p.id
        /\ UNCHANGED <<clientVars, store, outStatus, arrived, serverOut, inStatus>>
        /\ \/ /\ t = IF p.msg \in Qos2 THEN "PUBREC" ELSE "PUBACK"
              /\ atServer' = IF p.msg \in Qos2 /\ p.id \in serverIn THEN atServer
                             ELSE Tick(atServer, p.msg)
              /\ serverIn' = IF p.msg \in Qos2 THEN serverIn \cup {p.id} ELSE serverIn
           \/ /\ t = "PUBCOMP" /\ serverIn' = serverIn \ {p.id}
              /\ UNCHANGED atServer
  BY <1>1, ServerTakesLinks
<1> DEFINE a == Reply(t, p)
<1>4. a \in Packet /\ a.type = t /\ a.id = p.id /\ a.msg = p.msg
  BY <1>3, ReplyFacts DEF Answers
<1> HIDE DEF a
<1>5. Range(toClient') = Range(toClient) \cup {a}
  BY <1>2, <1>3, <1>4, AppendFacts DEF a
<1>6. UNCHANGED <<outbound, commands, outStatus>>
  BY <1>3 DEF clientVars
<1>7. \A x \in Range(outbound) : (x.id = f.id \/ x.msg = f.msg) => x = f
  <2>1. \A x \in Range(outbound) : x.id = f.id => x = f
    BY <1>2, RangeFacts
  <2>2. QED
    BY <2>1 DEF SentInv
<1>8. f.msg \in OutMsgs /\ outStatus[f.msg] = "pending"
  BY <1>2 DEF SentInv
<1>9. \A q \in Range(commands) : q.msg # f.msg
  BY DEF SentInv
<1>10. /\ atServer \in [OutMsgs -> 0 .. Many] /\ Many \in Nat /\ Many > 1
  BY <1>1, CountFacts
<1>11. "PUBACK" \in Answers /\ "PUBREC" \in Answers /\ "PUBCOMP" \in Answers
  BY DEF Answers
<1>12. CASE /\ t = "PUBCOMP" /\ serverIn' = serverIn \ {p.id}
            /\ UNCHANGED atServer
  <2>1. ASSUME NEW x \in Range(toClient')
        PROVE  /\ x.type \in {"PUBACK", "PUBREC"} => atServer[x.msg] > 0
               /\ x.type = "PUBCOMP" => x.id \notin serverIn'
    <3>1. CASE x = a
      BY <1>4, <1>12, <3>1
    <3>2. CASE x \in Range(toClient)
      BY <1>12, <3>2 DEF SentInv
    <3>3. QED
      BY <1>5, <3>1, <3>2
  <2>2. ASSUME NEW x \in Range(outbound)
        PROVE  /\ outStatus[x.msg] = "pending"
               /\ x.next = "PUBREC" => (x.id \in serverIn' <=> atServer[x.msg] > 0)
               /\ x.next = "PUBCOMP" => atServer[x.msg] > 0
    <3>1. CASE x = f
      BY <1>3, <1>12, <3>1 DEF SentInv
    <3>2. CASE x # f
      <4>1. x.id # p.id
        BY <1>3, <1>7, <3>2
      <4>2. QED
        BY <1>12, <4>1 DEF SentInv
    <3>3. QED
      BY <3>1, <3>2
  <2>3. SentInv'
    BY <1>6, <1>12, <2>1, <2>2 DEF SentInv
  <2>4. QED
    BY <1>6, <1>12, <2>3 DEF OutStep
<1>13. CASE /\ t = IF p.msg \in Qos2 THEN "PUBREC" ELSE "PUBACK"
            /\ atServer' = IF p.msg \in Qos2 /\ p.id \in serverIn THEN atServer
                           ELSE Tick(atServer, p.msg)
            /\ serverIn' = IF p.msg \in Qos2 THEN serverIn \cup {p.id} ELSE serverIn
  <2>1. f.next # "PUBCOMP" /\ (p.msg \in Qos2 => f.next = "PUBREC")
    BY <1>3, <1>13
  <2>2. /\ Tick(atServer, p.msg) = [atServer EXCEPT ![p.msg] = IF @ < Many THEN @ + 1 ELSE Many]
        /\ Tick(atServer, p.msg)[p.msg] > 0
        /\ \A m \in OutMsgs : m # p.msg => Tick(atServer, p.msg)[m] = atServer[m]
    <3>1. p.msg \in OutMsgs /\ atServer \in [OutMsgs -> 0 .. Many] /\ Many \in Nat /\ Many > 1
      BY <1>3, <1>8, <1>10
    <3>2. atServer[p.msg] \in 0 .. Many
      BY ONLY <3>1
    <3>3. atServer[p.msg] < Many \/ atServer[p.msg] = Many
      BY <3>1, <3>2
    <3>4. Tick(atServer, p.msg) = [atServer EXCEPT ![p.msg] = IF @ < Many THEN @ + 1 ELSE Many]
      BY <3>3 DEF Tick
    <3>5. Tick(atServer, p.msg)[p.msg] > 0
      BY <3>1, <3>2, <3>3 DEF Tick
    <3>6. QED
      BY <3>1, <3>4, <3>5 DEF Tick
  <2>3. /\ atServer'[p.msg] > 0
        /\ \A m \in OutMsgs : m # p.msg => atServer'[m] = atServer[m]
    <3>1. CASE p.msg \in Qos2 /\ p.id \in serverIn
      <4>1. atServer[f.msg] > 0
        BY <1>3, <2>1, <3>1 DEF SentInv
      <4>2. QED
        BY <1>3, <1>13, <3>1, <4>1
    <3>2. CASE ~(p.msg \in Qos2 /\ p.id \in serverIn)
      BY <1>13, <2>2, <3>2
    <3>3. QED
      BY <3>1, <3>2
  <2>4. ASSUME NEW x \in Range(toClient')
        PROVE  /\ x.type \in {"PUBACK", "PUBREC"} => atServer'[x.msg] > 0
               /\ x.type = "PUBCOMP" => x.id \notin serverIn'
    <3>1. CASE x = a
      BY <1>4, <1>13, <2>3, <3>1
    <3>2. CASE x \in Range(toClient)
      <4>1. ASSUME x.type \in {"PUBACK", "PUBREC"} PROVE atServer'[x.msg] > 0
        <5>1. atServer[x.msg] > 0 /\ x.msg \in OutMsgs
          <6>1. Answered(outbound, x)
            BY <1>1, <1>11, <3>2, <4>1 DEF LinkInv, Linked
          <6>2. QED
            BY <1>2, <3>2, <4>1, <6>1 DEF SentInv, Answered
        <5>2. QED
          BY <2>3, <5>1
      <4>2. ASSUME x.type = "PUBCOMP" PROVE x.id \notin serverIn'
        <5>1. x.id \notin serverIn /\ x.id # p.id
          BY <1>3, <1>11, <3>2, <4>2 DEF SentInv
        <5>2. QED
          BY <1>13, <5>1
      <4>3. QED
        BY <4>1, <4>2
    <3>3. QED
      BY <1>5, <3>1, <3>2
  <2>5. ASSUME NEW x \in Range(outbound)
        PROVE  /\ outStatus[x.msg] = "pending"
               /\ x.next = "PUBREC" => (x.id \in serverIn' <=> atServer'[x.msg] > 0)
               /\ x.next = "PUBCOMP" => atServer'[x.msg] > 0
    <3>1. CASE x = f
      <4>1. x.next = "PUBREC" => x.msg \in Qos2
        BY <1>1, <1>2, Waits DEF Flight
      <4>2. x.next = "PUBREC" => x.id \in serverIn'
        BY <1>3, <1>13, <3>1, <4>1
      <4>3. QED
        BY <1>3, <1>8, <2>1, <2>3, <3>1, <4>2
    <3>2. CASE x # f
      <4>1. x.id # p.id /\ x.msg # p.msg /\ x.msg \in OutMsgs
        BY <1>2, <1>3, <1>7, <3>2
      <4>2. (x.id \in serverIn' <=> x.id \in serverIn) /\ atServer'[x.msg] = atServer[x.msg]
        BY <1>13, <2>3, <4>1
      <4>3. QED
        BY <4>2 DEF SentInv
    <3>3. QED
      BY <3>1, <3>2
  <2>6. \A i \in serverIn' : \E x \in Range(outbound) : x.id = i /\ x.msg \in Qos2
    <3>1. \A i \in serverIn' : i \in serverIn \/ (i = p.id /\ p.msg \in Qos2)
      BY <1>13
    <3>2. QED
      BY <1>3, <3>1 DEF SentInv
  <2>7. \A q \in Range(commands) : outStatus[q.msg] = "pending" /\ atServer'[q.msg] = 0
    BY <1>2, <1>3, <1>9, <2>3 DEF SentInv
  <2>8. \A m \in OutMsgs : outStatus[m] = "new" => atServer'[m] = 0
    BY <1>3, <1>8, <2>3 DEF SentInv
  <2>9. SentInv'
    BY <1>6, <2>4, <2>5, <2>6, <2>7, <2>8 DEF SentInv
  <2>10. OutStep
    <3>1. CASE p.msg \in Qos2 /\ p.id \in serverIn
      BY <1>6, <1>13, <3>1 DEF OutStep
    <3>2. CASE ~(p.msg \in Qos2 /\ p.id \in serverIn)
      <4>1. p.msg \in Qos2 => atServer[p.msg] = 0
        <5>1. ASSUME p.msg \in Qos2 PROVE atServer[p.msg] = 0
          <6>1. ~(atServer[p.msg] > 0)
            BY <1>3, <2>1, <3>2, <5>1 DEF SentInv
          <6>2. atServer[p.msg] \in 0 .. Many
            BY <1>3, <1>8, <1>10
          <6>3. QED
            BY <6>1, <6>2
        <5>2. QED
          BY <5>1
      <4>2. Out!Deliver(p.msg)
        BY <1>3, <1>6, <1>8, <1>13, <2>2, <3>2, <4>1 DEF Out!Deliver
      <4>3. QED
        BY <1>3, <1>8, <4>2 DEF OutStep, Out!Next
    <3>3. QED
      BY <3>1, <3>2
  <2>11. QED
    BY <2>9, <2>10
<1>14. QED
  BY <1>3, <1>12, <1>13

\* Every step of the flows is a step of Delivery for the application's messages.
LEMMA SentStep ==
    ASSUME MemoryInv, MemoryInv', SentInv, [Next]_vars
    PROVE  SentInv' /\ OutStep
<1>1. FlowInv /\ FlowInv' /\ LinkInv /\ toClient \in Seq(Packet)
  BY FlowFacts DEF MemoryInv
<1>2. "PUBLISH" \in Requests /\ "PUBREL" \in Requests
  BY DEF Requests
<1>3. CASE \E m \in OutMsgs, i \in Ids : Publish(m, i)
  BY <1>3, PublishSent
<1>4. CASE Send
  BY <1>4, ProcessSent DEF Send
<1>5. CASE Receive
  <2>1. CASE \E type \in {"PUBACK", "PUBCOMP"} : HandlePuback(type)
    BY <2>1, PubackSent
  <2>2. CASE HandlePubrec
    BY <2>2, PubrecSent
  <2>3. ASSUME NEW taken \in BOOLEAN, HandlePublish(taken) PROVE SentInv' /\ OutStep
    <3>1. Range(toClient') \subseteq Range(toClient)
          /\ UNCHANGED <<commands, outbound, serverVars, outStatus>>
      BY <1>1, <2>3, PublishLinks
    <3>2. QED
      BY <3>1, SentKept DEF serverVars
  <2>4. ASSUME NEW taken \in BOOLEAN, HandlePubrel(taken) PROVE SentInv' /\ OutStep
    <3>1. Range(toClient') \subseteq Range(toClient)
          /\ UNCHANGED <<commands, outbound, serverVars, outStatus>>
      BY <1>1, <2>4, PubrelLinks
    <3>2. QED
      BY <3>1, SentKept DEF serverVars
  <2>5. CASE HandleWhileWriting
    <3>1. /\ toClient' = <<>> /\ Range(outbound') = Range(outbound)
          /\ Range(commands') = Range(commands) /\ UNCHANGED <<serverVars, outStatus>>
      BY <1>1, <2>5, ClosedLinks
    <3>2. Range(toClient') = {}
      BY <3>1 DEF Range
    <3>3. QED
      BY <3>1, <3>2, SentKept DEF serverVars
  <2>6. QED
    BY <1>5, <2>1, <2>2, <2>3, <2>4, <2>5 DEF Receive
<1>6. CASE ServerTakes \/ ServerReleases
  BY <1>6, ServerTakesSent
<1>7. ASSUME NEW m \in InMsgs, NEW i \in Ids, ServerPublish(m, i) PROVE SentInv' /\ OutStep
  <2>1. /\ \A p \in Range(toClient') : p \in Range(toClient) \/ (p.type = "PUBLISH" /\ p.id = i)
        /\ UNCHANGED <<clientVars, serverIn, outStatus, atServer>>
    BY <1>1, <1>7, ServerPublishLinks
  <2>2. QED
    BY <1>2, <2>1, SentKept DEF clientVars
<1>8. CASE ServerPubrec
  <2>1. PICK p \in Range(toServer) :
          /\ p \in Packet /\ toClient' = Append(toClient, Reply("PUBREL", p))
          /\ UNCHANGED <<clientVars, outStatus, serverIn, atServer>>
    BY <1>1, <1>8, ServerPubrecLinks
  <2>2. Reply("PUBREL", p) \in Packet /\ Reply("PUBREL", p).type = "PUBREL"
    BY <2>1, ReplyFacts
  <2>3. Range(toClient') = Range(toClient) \cup {Reply("PUBREL", p)}
    BY <1>1, <2>1, <2>2, AppendFacts
  <2>4. QED
    BY <1>2, <2>1, <2>2, <2>3, SentKept DEF clientVars
<1>9. ASSUME NEW type \in {"PUBACK", "PUBCOMP"}, ServerCompletes(type) PROVE SentInv' /\ OutStep
  <2>1. toClient' = toClient /\ UNCHANGED <<clientVars, outStatus, serverIn, atServer>>
    BY <1>1, <1>9, ServerCompletesLinks
  <2>2. QED
    BY <2>1, SentKept DEF clientVars
<1>10. CASE Connect
  <2>1. /\ \A p \in Range(toClient') : p.type \in Requests
        /\ UNCHANGED <<clientVars, serverVars, outStatus>>
    BY <1>1, <1>10, ConnectLinks
  <2>2. QED
    BY <2>1, SentKept DEF clientVars, serverVars
<1>11. CASE ConnectionLost \/ Restart
  <2>1. /\ toClient' = <<>> /\ Range(outbound') = Range(outbound)
        /\ Range(commands') = Range(commands) /\ UNCHANGED <<serverVars, outStatus>>
    BY <1>1, <1>11, ClosedLinks
  <2>2. Range(toClient') = {}
    BY <2>1 DEF Range
  <2>3. QED
    BY <2>1, <2>2, SentKept DEF serverVars
<1>12. CASE QueueOffered \/ UNCHANGED vars
  <2>1. UNCHANGED <<commands, outbound, toClient, serverIn, atServer, outStatus>>
    BY <1>12, OfferKeeps DEF vars, clientVars, netVars, serverVars
  <2>2. QED
    BY <2>1, SentKept
<1>13. QED
  BY <1>3, <1>4, <1>5, <1>6, <1>7, <1>8, <1>9, <1>10, <1>11, <1>12 DEF Next, Server, QueueOffered

\* The flows implement Delivery for the messages of the application: each reaches
\* the server at least once, with QoS 2 exactly once, before MQTTAsync reports it
\* complete, whatever connections are lost and processes restarted.
THEOREM OutboundRefines == Spec => OutboundDelivery
<1>1. Init => SentInv
  BY DEF Init, SentInv, Range
<1>2. Init => Out!Init
  BY DEF Init, Out!Init
<1>3. MemoryInv /\ MemoryInv' /\ SentInv /\ [Next]_vars => SentInv' /\ OutStep
  BY SentStep
<1>4. Spec => []SentInv
  BY <1>1, <1>3, MemoryAlways, PTL DEF Spec
<1>5. MemoryInv /\ MemoryInv' /\ SentInv /\ [Next]_vars => [Out!Next]_(Out!dvars)
  BY <1>3 DEF OutStep, Out!dvars
<1>6. QED
  BY <1>2, <1>4, <1>5, MemoryAlways, PTL DEF Spec, OutboundDelivery, Out!Spec

----------------------------------------------------------------------------
(* The server's messages reach the application *)

\* a step of Delivery, or none
InStep == [In!Next]_<<inStatus, Handed>>

\* how often message m is in the list
Occurs(s, m) == Cardinality({n \in DOMAIN s : s[n] = m})

\* A message is queued.
LEMMA OccursAppend ==
    ASSUME NEW s \in Seq(InMsgs), NEW x \in InMsgs, NEW m
    PROVE  /\ Occurs(s, m) \in Nat
           /\ Occurs(Append(s, x), m) = IF m = x THEN Occurs(s, m) + 1 ELSE Occurs(s, m)
<1> DEFINE S == {n \in DOMAIN s : s[n] = m}
           a == Append(s, x)
           l == Len(s) + 1
           T == {n \in DOMAIN a : a[n] = m}
<1>1. /\ DOMAIN s = 1 .. Len(s) /\ Len(s) \in Nat /\ l \notin DOMAIN s /\ l \in DOMAIN a
      /\ \A i \in DOMAIN s : i \in DOMAIN a /\ a[i] = s[i]
      /\ \A i \in DOMAIN a : i \in DOMAIN s \/ i = l
      /\ a[l] = x
  OBVIOUS
<1>2. IsFiniteSet(DOMAIN s)
  BY <1>1, FS_Interval
<1> HIDE DEF a, l
<1>3. IsFiniteSet(S) /\ l \notin S
  <2>1. S \in SUBSET (DOMAIN s)
    OBVIOUS
  <2>2. QED
    BY <1>1, <1>2, <2>1, FS_Subset
<1>4. T = IF m = x THEN S \cup {l} ELSE S
  <2>1. CASE m = x
    BY <1>1, <2>1
  <2>2. CASE m # x
    BY <1>1, <2>2
  <2>3. QED
    BY <2>1, <2>2
<1> HIDE DEF S, T
<1>5. Cardinality(S) \in Nat /\ Cardinality(S \cup {l}) = Cardinality(S) + 1
  BY <1>3, FS_CardinalityType, FS_AddElement
<1>6. Occurs(s, m) = Cardinality(S) /\ Occurs(a, m) = Cardinality(T)
  BY DEF Occurs, S, T
<1>7. QED
  BY <1>4, <1>5, <1>6 DEF a

\* The first message is taken.
LEMMA OccursTail ==
    ASSUME NEW s \in Seq(InMsgs), s # <<>>, NEW m
    PROVE  /\ Occurs(Tail(s), m) \in Nat
           /\ Occurs(s, m) = IF m = Head(s) THEN Occurs(Tail(s), m) + 1 ELSE Occurs(Tail(s), m)
<1> DEFINE t == Tail(s)
           S == {n \in DOMAIN s : s[n] = m}
           R == {n \in DOMAIN s : s[n] = m /\ n # 1}
           T == {n \in DOMAIN t : t[n] = m}
           h == [n \in T |-> n + 1]
<1>1. /\ Head(s) = s[1] /\ 1 \in DOMAIN s /\ DOMAIN s = 1 .. Len(s) /\ Len(s) \in Nat
      /\ DOMAIN t = 1 .. Len(s) - 1 /\ \A i \in DOMAIN t : t[i] = s[i + 1]
  OBVIOUS
<1>2. IsFiniteSet(DOMAIN t)
  BY <1>1, FS_Interval
<1> HIDE DEF t
<1>3. IsFiniteSet(T)
  <2>1. T \in SUBSET (DOMAIN t)
    OBVIOUS
  <2>2. QED
    BY <1>2, <2>1, FS_Subset
<1>4. h \in Bijection(T, R)
  <2>1. \A n \in T : n \in Int /\ n + 1 \in R
    <3>1. \A i \in DOMAIN t : i \in Int /\ i + 1 \in DOMAIN s /\ i + 1 # 1 /\ t[i] = s[i + 1]
      BY <1>1
    <3>2. QED
      BY <3>1
  <2>2. \A n \in R : n - 1 \in T /\ (n - 1) + 1 = n
    <3>1. \A i \in DOMAIN s : i # 1 => i - 1 \in DOMAIN t /\ (i - 1) + 1 = i
      BY <1>1
    <3>2. ASSUME NEW n \in R PROVE t[n - 1] = m
      <4>1. n \in DOMAIN s /\ n # 1 /\ s[n] = m
        OBVIOUS
      <4>2. n - 1 \in DOMAIN t /\ (n - 1) + 1 = n
        BY <3>1, <4>1
      <4>3. t[n - 1] = s[(n - 1) + 1]
        BY <1>1, <4>2
      <4>4. QED
        BY <4>1, <4>2, <4>3
    <3>3. QED
      BY <3>1, <3>2
  <2> HIDE DEF T, R
  <2>3. h \in [T -> R]
    BY <2>1
  <2>4. \A a, b \in T : h[a] = h[b] => a = b
    BY <2>1
  <2>5. \A n \in R : \E a \in T : h[a] = n
    BY <2>2
  <2>6. QED
    BY <2>3, <2>4, <2>5 DEF Bijection, Injection, Surjection, IsInjective
<1>5. S = IF m = Head(s) THEN R \cup {1} ELSE R
  <2>1. CASE m = Head(s)
    BY <1>1, <2>1
  <2>2. CASE m # Head(s)
    BY <1>1, <2>2
  <2>3. QED
    BY <2>1, <2>2
<1>6. 1 \notin R
  OBVIOUS
<1>7. Occurs(s, m) = Cardinality(S) /\ Occurs(t, m) = Cardinality(T)
  BY DEF Occurs
<1> HIDE DEF S, R, T, h
<1>8. IsFiniteSet(R) /\ Cardinality(R) = Cardinality(T)
  BY <1>3, <1>4, FS_Bijection DEF ExistsBijection
<1>9. Cardinality(T) \in Nat /\ Cardinality(R \cup {1}) = Cardinality(R) + 1
  BY <1>3, <1>6, <1>8, FS_CardinalityType, FS_AddElement
<1>10. QED
  BY <1>5, <1>7, <1>8, <1>9 DEF t

\* The count of what the application has, in its own hands or in the queue.
LEMMA HandedFacts ==
    ASSUME FlowInv
    PROVE  /\ Handed \in [InMsgs -> 0 .. Many] /\ Many \in Nat /\ Many > 1
           /\ messageQueue \in Seq(InMsgs) /\ arrived \in [InMsgs -> 0 .. Many]
           /\ inStatus \in [InMsgs -> {"new", "pending", "complete"}]
           /\ \A m \in InMsgs : Occurs(messageQueue, m) \in Nat /\ arrived[m] \in 0 .. Many
<1>1. /\ Many \in Nat /\ Many > 1 /\ messageQueue \in Seq(InMsgs)
      /\ arrived \in [InMsgs -> 0 .. Many]
      /\ inStatus \in [InMsgs -> {"new", "pending", "complete"}]
  BY FlowAssumption DEF FlowInv, TypeInv, DataTypes
<1>2. ASSUME NEW m \in InMsgs PROVE Occurs(messageQueue, m) \in Nat /\ arrived[m] \in 0 .. Many
  BY <1>1, OccursAppend
<1>3. \A m \in InMsgs : Count(m) = Occurs(messageQueue, m)
  BY DEF Count, Occurs
<1>4. Handed \in [InMsgs -> 0 .. Many]
  BY <1>1, <1>2, <1>3 DEF Handed
<1>5. QED
  BY <1>1, <1>2, <1>4

\* Handed, written out.
LEMMA HandedIs ==
    /\ Handed = [m \in InMsgs |->
         IF arrived[m] + Occurs(messageQueue, m) < Many
         THEN arrived[m] + Occurs(messageQueue, m) ELSE Many]
    /\ Handed' = [m \in InMsgs |->
         IF arrived'[m] + Occurs(messageQueue', m) < Many
         THEN arrived'[m] + Occurs(messageQueue', m) ELSE Many]
BY DEF Handed, Count, Occurs

\* one more copy of m, up to Many
More(m) == [Handed EXCEPT ![m] = IF @ < Many THEN @ + 1 ELSE Many]

\* Protocol_processPublication hands one copy over, in whichever way.
LEMMA HandedOne ==
    ASSUME FlowInv, NEW m \in InMsgs, NEW taken \in BOOLEAN, NEW st,
           ProcessPublication(m, taken, st)
    PROVE  Handed' = More(m)
<1>1. /\ Handed \in [InMsgs -> 0 .. Many] /\ Many \in Nat /\ Many > 1
      /\ messageQueue \in Seq(InMsgs) /\ arrived \in [InMsgs -> 0 .. Many]
      /\ \A x \in InMsgs : Occurs(messageQueue, x) \in Nat /\ arrived[x] \in 0 .. Many
  BY HandedFacts
<1> DEFINE v(x) == arrived[x] + Occurs(messageQueue, x)
           w(x) == arrived'[x] + Occurs(messageQueue', x)
           cap(n) == IF n < Many THEN n ELSE Many
<1>2. /\ \A x \in InMsgs : x # m => w(x) = v(x)
      /\ cap(w(m)) = cap(v(m) + 1)
  <2>1. CASE taken /\ messageQueue = <<>>
    <3>1. arrived' = Tick(arrived, m) /\ messageQueue' = messageQueue
      BY <2>1 DEF ProcessPublication
    <3>2. /\ \A x \in InMsgs : x # m => arrived'[x] = arrived[x]
          /\ arrived'[m] = IF arrived[m] < Many THEN arrived[m] + 1 ELSE arrived[m]
      BY <1>1, <3>1 DEF Tick
    <3>3. cap(w(m)) = cap(v(m) + 1)
      <4>1. arrived[m] \in 0 .. Many /\ Occurs(messageQueue, m) \in Nat
        BY <1>1
      <4>2. w(m) = arrived'[m] + Occurs(messageQueue, m)
        BY <3>1
      <4>3. QED
        BY <1>1, <3>2, <4>1, <4>2
    <3>4. QED
      BY <3>1, <3>2, <3>3
  <2>2. CASE ~(taken /\ messageQueue = <<>>)
    <3>1. arrived' = arrived /\ messageQueue' = Append(messageQueue, m)
      BY <2>2 DEF ProcessPublication
    <3>2. \A x \in InMsgs : Occurs(messageQueue', x) =
            IF x = m THEN Occurs(messageQueue, x) + 1 ELSE Occurs(messageQueue, x)
      BY <1>1, <3>1, OccursAppend
    <3>3. w(m) = v(m) + 1
      BY <1>1, <3>1, <3>2
    <3>4. \A x \in InMsgs : x # m => w(x) = v(x)
      BY <3>1, <3>2
    <3> HIDE DEF v, w
    <3>5. QED
      BY <3>3, <3>4
  <2>3. QED
    BY <2>1, <2>2
<1>3. /\ Handed = [x \in InMsgs |-> cap(v(x))]
      /\ Handed' = [x \in InMsgs |-> cap(w(x))]
  BY HandedIs
<1>4. \A x \in InMsgs : v(x) \in Nat
  BY <1>1
<1> HIDE DEF v, w
<1>5. cap(v(m) + 1) = IF cap(v(m)) < Many THEN cap(v(m)) + 1 ELSE Many
  <2>1. v(m) \in Nat
    BY <1>4
  <2>2. QED
    BY <1>1, <2>1
<1> HIDE DEF cap
<1>6. More(m) = [x \in InMsgs |-> IF x = m THEN cap(v(m) + 1) ELSE cap(v(x))]
  BY <1>3, <1>5 DEF More
<1>7. QED
  BY <1>2, <1>3, <1>6

\* What the application takes out of the queue it already had.
LEMMA HandedSame ==
    ASSUME FlowInv, DeliverQueued(TRUE)
    PROVE  Handed' = Handed
<1>1. /\ Many \in Nat /\ Many > 1
      /\ messageQueue \in Seq(InMsgs) /\ arrived \in [InMsgs -> 0 .. Many]
      /\ \A x \in InMsgs : Occurs(messageQueue, x) \in Nat /\ arrived[x] \in 0 .. Many
  BY HandedFacts
<1> DEFINE m == Head(messageQueue)
<1>2. /\ messageQueue # <<>> /\ arrived' = Tick(arrived, m) /\ messageQueue' = Tail(messageQueue)
  BY DEF DeliverQueued
<1>3. m \in InMsgs
  BY <1>1, <1>2
<1>4. \A x \in InMsgs : /\ Occurs(messageQueue', x) \in Nat
                        /\ Occurs(messageQueue, x) =
                             IF x = m THEN Occurs(messageQueue', x) + 1 ELSE Occurs(messageQueue', x)
  BY <1>1, <1>2, OccursTail
<1> HIDE DEF m
<1>5. \A x \in InMsgs : arrived'[x] =
        IF x = m /\ arrived[m] < Many THEN arrived[m] + 1 ELSE arrived[x]
  BY <1>1, <1>2, <1>3 DEF Tick
<1> DEFINE v(x) == arrived[x] + Occurs(messageQueue, x)
           w(x) == arrived'[x] + Occurs(messageQueue', x)
           cap(n) == IF n < Many THEN n ELSE Many
<1>6. ASSUME NEW x \in InMsgs PROVE cap(w(x)) = cap(v(x))
  <2>1. arrived[x] \in 0 .. Many /\ Occurs(messageQueue', x) \in Nat
    BY <1>1, <1>4
  <2>2. CASE x # m
    BY <1>4, <1>5, <2>2
  <2>3. CASE x = m
    <3>1. /\ Occurs(messageQueue, x) = Occurs(messageQueue', x) + 1
          /\ arrived'[x] = IF arrived[x] < Many THEN arrived[x] + 1 ELSE arrived[x]
      BY <1>4, <1>5, <2>3
    <3>2. QED
      BY <1>1, <2>1, <3>1
  <2>4. QED
    BY <2>2, <2>3
<1>7. /\ Handed = [x \in InMsgs |-> cap(v(x))]
      /\ Handed' = [x \in InMsgs |-> cap(w(x))]
  BY HandedIs
<1> HIDE DEF cap, v, w
<1>8. QED
  BY <1>6, <1>7

\* Nothing is handed over where nothing is taken or queued.
LEMMA HandedStays ==
    ASSUME UNCHANGED <<arrived, messageQueue>>
    PROVE  Handed' = Handed
BY HandedIs

\* A step that hands nothing over; a QoS 2 message may have come again.
LEMMA HandedKept ==
    ASSUME FlowInv, HandedInv, Handed' = Handed, inStatus' = inStatus, serverOut' = serverOut,
           \A p \in Range(toServer') :
              p \in Range(toServer) \/ p.type \notin {"PUBACK", "PUBCOMP"},
           \A f \in Range(serverOut) : Entry(f) \in inbound /\ f.next = "PUBCOMP"
                                         => Entry(f) \in inbound',
           \A q \in store'.received : q \in store.received \/
              \E f \in Range(serverOut) : f.next = "PUBREC" /\ f.id = q.id /\ f.msg = q.msg
    PROVE  HandedInv' /\ InStep
<1>1. serverOut \in Seq(Flight) /\ UniqueIds(serverOut)
  BY FlowFacts
<1>2. ASSUME NEW f \in Range(serverOut), f.next = "PUBCOMP", ById(store.received, f.id) = {}
      PROVE  ById(store'.received, f.id) = {}
  <2>1. ASSUME NEW q \in store'.received, q.id = f.id PROVE FALSE
    <3>1. q \notin store.received
      BY <1>2, <2>1 DEF ById
    <3>2. PICK g \in Range(serverOut) : g.next = "PUBREC" /\ g.id = q.id
      BY <3>1
    <3>3. g = f
      BY <1>1, <2>1, <3>2, RangeFacts
    <3>4. QED
      BY <1>2, <3>2, <3>3
  <2>2. QED
    BY <2>1 DEF ById
<1>3. \A q \in store'.received : Handed[q.msg] = 0
  BY DEF HandedInv
<1>4. \A p \in Range(toServer') : p.type \in {"PUBACK", "PUBCOMP"} => Handed[p.msg] > 0
  BY DEF HandedInv
<1>5. \A f \in Range(serverOut) :
        f.next = "PUBCOMP" => \/ Entry(f) \in inbound' /\ Handed[f.msg] = 0
                              \/ ById(store'.received, f.id) = {} /\ Handed[f.msg] > 0
  BY <1>2 DEF HandedInv
<1>6. HandedInv'
  BY <1>3, <1>4, <1>5 DEF HandedInv
<1>7. QED
  BY <1>6 DEF InStep

\* Message m, which the server has in flight as f, is handed over: with QoS 1 each
\* time its PUBLISH comes, with QoS 2 when its PUBREL comes.
LEMMA HandedOver ==
    ASSUME MemoryInv, HandedInv, NEW f \in Range(serverOut), Handed' = More(f.msg),
           inStatus' = inStatus, serverOut' = serverOut, f.next # "PUBREC",
           f.next = "PUBCOMP" => Handed[f.msg] = 0,
           \A p \in Range(toServer') :
              p \in Range(toServer) \/ p.type \notin {"PUBACK", "PUBCOMP"} \/ p.msg = f.msg,
           \A g \in Range(serverOut) : g # f /\ Entry(g) \in inbound => Entry(g) \in inbound',
           store'.received = {q \in store.received : q.id # f.id}
    PROVE  HandedInv' /\ InStep
<1>1. FlowInv /\ LinkInv /\ ReceivedInv
  BY DEF MemoryInv
<1>2. /\ serverOut \in Seq(Flight) /\ UniqueIds(serverOut)
      /\ \A g \in Range(serverOut) : g \in Flight /\ g.msg \in InMsgs
      /\ \A q \in store.received : q \in Queued /\ q.msg \in InMsgs
  BY <1>1, FlowFacts
<1>3. Handed \in [InMsgs -> 0 .. Many] /\ Many \in Nat /\ Many > 1
      /\ inStatus \in [InMsgs -> {"new", "pending", "complete"}]
  BY <1>1, HandedFacts
<1>4. /\ \A m \in InMsgs : m # f.msg => Handed'[m] = Handed[m]
      /\ \A m \in InMsgs : Handed[m] > 0 => Handed'[m] > 0
      /\ Handed'[f.msg] > 0
  <2>1. f.msg \in InMsgs
    BY <1>2
  <2>2. QED
    BY <1>3, <2>1 DEF More
<1>5. \A g \in Range(serverOut) : (g.id = f.id => g = f) /\ (g.msg = f.msg => g = f)
  BY <1>2, RangeFacts DEF HandedInv
<1>6. inStatus[f.msg] = "pending" /\ f.msg \in InMsgs
  BY <1>2 DEF HandedInv
<1>7. ASSUME NEW p \in Range(toServer'), p.type \in {"PUBACK", "PUBCOMP"}
      PROVE  Handed'[p.msg] > 0
  <2>1. CASE p.msg = f.msg
    BY <1>4, <2>1
  <2>2. CASE p.msg # f.msg
    <3>1. p \in Range(toServer) /\ Handed[p.msg] > 0
      BY <1>7, <2>2 DEF HandedInv
    <3>2. p.type \in Answers
      BY <1>7 DEF Answers
    <3>3. \E g \in Range(serverOut) : g.msg = p.msg
      BY <1>1, <3>1, <3>2 DEF LinkInv, Linked, Answered
    <3>4. QED
      BY <1>2, <1>4, <3>1, <3>3
  <2>3. QED
    BY <2>1, <2>2
<1>8. ASSUME NEW g \in Range(serverOut)
      PROVE  /\ inStatus[g.msg] = "pending"
             /\ g.next = "PUBREC" => Handed'[g.msg] = 0
             /\ g.next = "PUBCOMP" => \/ Entry(g) \in inbound' /\ Handed'[g.msg] = 0
                                      \/ ById(store'.received, g.id) = {} /\ Handed'[g.msg] > 0
  <2>1. CASE g = f
    <3>1. ById(store'.received, f.id) = {}
      BY DEF ById
    <3>2. QED
      BY <1>4, <1>6, <2>1, <3>1
  <2>2. CASE g # f
    <3>1. Handed'[g.msg] = Handed[g.msg]
      BY <1>2, <1>4, <1>5, <2>2
    <3>2. ById(store.received, g.id) = {} => ById(store'.received, g.id) = {}
      BY DEF ById
    <3>3. QED
      BY <2>2, <3>1, <3>2 DEF HandedInv
  <2>3. QED
    BY <2>1, <2>2
<1>9. ASSUME NEW q \in store'.received PROVE Handed'[q.msg] = 0
  <2>1. q \in store.received /\ q.id # f.id
    OBVIOUS
  <2>2. PICK g \in Range(serverOut) : g.id = q.id /\ g.msg = q.msg
    BY <1>1, <2>1 DEF ReceivedInv
  <2>3. q.msg # f.msg /\ q.msg \in InMsgs
    BY <1>2, <1>5, <2>1, <2>2
  <2>4. QED
    BY <1>4, <2>1, <2>3 DEF HandedInv
<1>10. ASSUME NEW m \in InMsgs, inStatus[m] = "new" PROVE Handed'[m] = 0
  BY <1>4, <1>6, <1>10 DEF HandedInv
<1>11. HandedInv'
  BY <1>7, <1>8, <1>9, <1>10 DEF HandedInv
<1>12. In!Deliver(f.msg)
  <2>1. f.msg \in Qos2 => f.next = "PUBCOMP"
    <3>1. f.next \in {"PUBACK", "PUBREC", "PUBCOMP"}
      BY <1>2 DEF Flight
    <3>2. QED
      BY <1>1, <3>1, Waits
  <2>2. QED
    BY <1>6, <2>1 DEF In!Deliver, More
<1>13. QED
  BY <1>6, <1>11, <1>12 DEF InStep, In!Next

\* MQTTProtocol_handlePublishes: QoS 1 is handed over, QoS 2 recorded.
LEMMA PublishHanded ==
    ASSUME ~Version5, MemoryInv, HandedInv, NEW taken \in BOOLEAN, HandlePublish(taken)
    PROVE  HandedInv' /\ InStep
<1>1. FlowInv /\ LinkInv /\ ReceivedInv
  BY DEF MemoryInv
<1>2. PICK p \in Range(toClient), f \in Range(serverOut) :
        /\ p \in Packet /\ p.type = "PUBLISH" /\ f.id = p.id /\ f.msg = p.msg
        /\ f.next = IF p.msg \in Qos2 THEN "PUBREC" ELSE "PUBACK"
        /\ toServer' = Append(toServer,
                         Reply(IF p.msg \in Qos2 THEN "PUBREC" ELSE "PUBACK", p))
        /\ Range(toClient') \subseteq Range(toClient)
        /\ IF p.msg \in Qos2
           THEN /\ inbound' = (inbound \ ById(inbound, p.id))
                                  \cup {[msg |-> p.msg, id |-> p.id]}
                /\ IF Version5 /\ ById(inbound, p.id) = {}
                   THEN ProcessPublication(p.msg, taken, Received(p))
                   ELSE store' = Received(p) /\ UNCHANGED <<messageQueue, arrived>>
           ELSE UNCHANGED inbound /\ ProcessPublication(p.msg, taken, store)
        /\ UNCHANGED <<commands, outbound, serverVars, outStatus>>
  BY <1>1, PublishLinks
<1>3. /\ toServer \in Seq(Packet) /\ UniqueIds(serverOut) /\ serverOut \in Seq(Flight)
      /\ \A g \in Range(serverOut) : g \in Flight /\ g.msg \in InMsgs
  BY <1>1, FlowFacts
<1>4. \A g \in Range(serverOut) : g.id = p.id => g = f
  BY <1>2, <1>3, RangeFacts
<1>5. p.msg \in InMsgs /\ TypeInv /\ StoreInv /\ store \in StoreType
  BY <1>1, <1>2, <1>3 DEF FlowInv, TypeInv, DataTypes, StoreType
<1>6. serverOut' = serverOut /\ inStatus' = inStatus
  BY <1>2 DEF serverVars
<1>7. CASE p.msg \notin Qos2
  <2>1. toServer' = Append(toServer, Reply("PUBACK", p)) /\ inbound' = inbound
        /\ ProcessPublication(p.msg, taken, store) /\ f.next = "PUBACK"
    BY <1>2, <1>7
  <2>2. store'.received = store.received
    BY <1>1, <1>5, <2>1, PublicationKeeps
  <2>3. Handed' = More(f.msg)
    BY <1>1, <1>2, <1>5, <2>1, HandedOne
  <2>4. Reply("PUBACK", p) \in Packet /\ Reply("PUBACK", p).msg = f.msg
    BY <1>2, ReplyFacts
  <2>5. Range(toServer') = Range(toServer) \cup {Reply("PUBACK", p)}
    BY <1>3, <2>1, <2>4, AppendFacts
  <2>6. ASSUME NEW q \in store.received PROVE q.id # f.id
    <3>1. PICK g \in Range(serverOut) : g.id = q.id /\ g.msg \in Qos2
      BY <1>1 DEF ReceivedInv
    <3>2. QED
      BY <1>2, <1>4, <1>7, <3>1
  <2>7. store'.received = {q \in store.received : q.id # f.id}
    BY <2>2, <2>6
  <2>8. \A x \in Range(toServer') : x \in Range(toServer) \/ x.msg = f.msg
    BY <2>4, <2>5
  <2>9. QED
    BY ONLY MemoryInv, HandedInv, <1>2, <1>6, <2>1, <2>3, <2>7, <2>8, HandedOver
<1>8. CASE p.msg \in Qos2
  <2> DEFINE a == Reply("PUBREC", p)
             e == [msg |-> p.msg, id |-> p.id]
  <2>1. /\ toServer' = Append(toServer, a) /\ inbound' = (inbound \ ById(inbound, p.id)) \cup {e}
        /\ store' = Received(p) /\ UNCHANGED <<arrived, messageQueue>> /\ f.next = "PUBREC"
    BY <1>2, <1>8
  <2>2. store'.received = (store.received \ ById(store.received, p.id)) \cup {e}
    BY <1>2, <1>5, <1>8, <2>1, ReceivedFacts
  <2>3. a \in Packet /\ a.type = "PUBREC" /\ e.id = f.id /\ e.msg = f.msg
    BY <1>2, ReplyFacts
  <2> HIDE DEF a, e
  <2>4. Range(toServer') = Range(toServer) \cup {a}
    BY <1>3, <2>1, <2>3, AppendFacts
  <2>5. Handed' = Handed
    BY <2>1, HandedStays
  <2>6. \A x \in Range(toServer') : x \in Range(toServer) \/ x.type \notin {"PUBACK", "PUBCOMP"}
    BY <2>3, <2>4
  <2>7. ASSUME NEW g \in Range(serverOut), Entry(g) \in inbound, g.next = "PUBCOMP"
        PROVE  Entry(g) \in inbound'
    <3>1. g.id # p.id
      BY <1>4, <2>1, <2>7
    <3>2. QED
      BY <2>1, <2>7, <3>1, EntryFacts DEF ById
  <2>8. \A q \in store'.received : q \in store.received \/
          \E g \in Range(serverOut) : g.next = "PUBREC" /\ g.id = q.id /\ g.msg = q.msg
    BY <2>1, <2>2, <2>3
  <2>9. QED
    BY ONLY <1>1, HandedInv, <1>6, <2>5, <2>6, <2>7, <2>8, HandedKept
<1>9. QED
  BY <1>7, <1>8

\* MQTTProtocol_handlePubrels hands a message it knows over; it has handed over one
\* it does not know.
LEMMA PubrelHanded ==
    ASSUME ~Version5, MemoryInv, HandedInv, NEW taken \in BOOLEAN, HandlePubrel(taken)
    PROVE  HandedInv' /\ InStep
<1>1. FlowInv /\ LinkInv /\ ReceivedInv
  BY DEF MemoryInv
<1>2. PICK p \in Range(toClient), f \in Range(serverOut) :
        /\ p \in Packet /\ p.type = "PUBREL"
        /\ f.id = p.id /\ f.msg = p.msg /\ f.next = "PUBCOMP"
        /\ toServer' \in {toServer, Append(toServer, Reply("PUBCOMP", p))}
        /\ Range(toClient') \subseteq Range(toClient)
        /\ \/ \E q \in ById(inbound, p.id) :
                /\ inbound' = inbound \ {q}
                /\ IF ~Version5
                   THEN ProcessPublication(q.msg, taken,
                           [store EXCEPT !.received = @ \ ById(@, p.id)])
                   ELSE /\ store' = [store EXCEPT !.received = @ \ ById(@, p.id)]
                        /\ UNCHANGED <<messageQueue, arrived>>
           \/ /\ ById(inbound, p.id) = {}
              /\ UNCHANGED <<inbound, store, messageQueue, arrived>>
        /\ UNCHANGED <<commands, outbound, serverVars, outStatus>>
  BY <1>1, PubrelLinks
<1>3. /\ toServer \in Seq(Packet) /\ inbound \subseteq store.received
      /\ UniqueIds(serverOut) /\ serverOut \in Seq(Flight)
      /\ \A g \in Range(serverOut) : g.msg \in InMsgs
      /\ \A q \in store.received : q \in Queued /\ q.msg \in InMsgs
  BY <1>1, FlowFacts
<1>4. serverOut' = serverOut /\ inStatus' = inStatus
  BY <1>2 DEF serverVars
<1> DEFINE a == Reply("PUBCOMP", p)
<1>5. a \in Packet /\ a.type = "PUBCOMP" /\ a.msg = f.msg
  BY <1>2, ReplyFacts
<1>6. toServer' = toServer \/ toServer' = Append(toServer, a)
  BY <1>2
<1> HIDE DEF a
<1>7. \A x \in Range(toServer') : x \in Range(toServer) \/ x = a
  <2>1. Range(Append(toServer, a)) = Range(toServer) \cup {a}
    BY <1>3, <1>5, AppendFacts
  <2>2. QED
    BY <1>6, <2>1
<1>8. CASE ById(inbound, p.id) = {} /\ UNCHANGED <<inbound, store, messageQueue, arrived>>
  <2>1. Entry(f) \notin inbound
    BY <1>2, <1>8, EntryFacts DEF ById
  <2>2. Handed[f.msg] > 0
    BY <1>2, <2>1 DEF HandedInv
  <2>3. Handed' = Handed
    BY <1>8, HandedStays
  <2>4. HandedInv'
    BY <1>4, <1>5, <1>7, <1>8, <2>2, <2>3 DEF HandedInv
  <2>5. QED
    BY <1>4, <2>3, <2>4 DEF InStep
<1>9. ASSUME NEW q \in ById(inbound, p.id), inbound' = inbound \ {q},
             ProcessPublication(q.msg, taken, [store EXCEPT !.received = @ \ ById(@, p.id)])
      PROVE  HandedInv' /\ InStep
  <2> DEFINE S == store.received \ ById(store.received, p.id)
             st == [store EXCEPT !.received = @ \ ById(@, p.id)]
  <2>1. st \in StoreType /\ st.received = S /\ st.queue = store.queue
    <3>1. store \in StoreType /\ st = [store EXCEPT !.received = S]
      BY <1>1 DEF FlowInv, TypeInv, DataTypes, StoreType
    <3>2. S \in SUBSET Queued
      BY <1>3
    <3> HIDE DEF S, st
    <3>3. QED
      BY ONLY <3>1, <3>2 DEF StoreType
  <2>2. q \in inbound /\ q \in store.received /\ q.id = f.id /\ q.msg \in InMsgs
    BY <1>2, <1>3 DEF ById
  <2>3. q.msg = f.msg
    <3>1. PICK g \in Range(serverOut) : g.id = q.id /\ g.msg = q.msg
      BY <1>1, <2>2 DEF ReceivedInv
    <3>2. QED
      BY <1>3, <2>2, <3>1, RangeFacts
  <2>4. ProcessPublication(q.msg, taken, st)
    BY <1>9
  <2> HIDE DEF st
  <2>5. Handed' = More(f.msg)
    BY <1>1, <2>2, <2>3, <2>4, HandedOne
  <2>6. store'.received = {x \in store.received : x.id # f.id}
    <3>1. store'.received = S
      BY <1>1, <2>1, <2>2, <2>4, PublicationKeeps
    <3>2. QED
      BY <1>2, <3>1 DEF ById
  <2>7. Handed[f.msg] = 0
    BY <2>2, <2>3 DEF HandedInv
  <2>8. \A g \in Range(serverOut) : g # f /\ Entry(g) \in inbound => Entry(g) \in inbound'
    <3>1. \A g \in Range(serverOut) : g # f => g.id # q.id
      BY <1>3, <2>2, RangeFacts
    <3>2. QED
      BY <1>9, <3>1, EntryFacts
  <2>9. \A x \in Range(toServer') : x \in Range(toServer) \/ x.msg = f.msg
    BY <1>5, <1>7
  <2>10. f \in Range(serverOut) /\ f.next # "PUBREC"
    BY <1>2
  <2>11. QED
    BY ONLY MemoryInv, HandedInv, <1>4, <2>5, <2>6, <2>7, <2>8, <2>9, <2>10, HandedOver
<1>10. QED
  BY <1>2, <1>8, <1>9

\* The session is closed, or the process restarted with what the store has.
LEMMA ClosedHanded ==
    ASSUME MemoryInv, MemoryInv', HandedInv, HandleWhileWriting \/ ConnectionLost \/ Restart
    PROVE  HandedInv' /\ InStep
<1>1. FlowInv /\ FlowInv' /\ LinkInv /\ ReceivedInv
  BY DEF MemoryInv
<1>2. toServer' = <<>> /\ UNCHANGED <<serverVars, arrived, messageQueue>>
  BY <1>1, ClosedLinks
<1>3. serverOut' = serverOut /\ inStatus' = inStatus /\ Handed' = Handed /\ Range(toServer') = {}
  BY <1>2, HandedStays DEF serverVars, Range
<1>4. /\ toClient \in Seq(Packet) /\ inbound \subseteq store.received
      /\ serverOut \in Seq(Flight) /\ \A g \in Range(serverOut) : g \in Flight
  BY <1>1, FlowFacts
<1>5. ASSUME inbound \subseteq inbound',
             \A q \in store'.received : q \in store.received \/
               \E f \in Range(serverOut) : f.next = "PUBREC" /\ f.id = q.id /\ f.msg = q.msg
      PROVE  HandedInv' /\ InStep
  BY <1>1, <1>3, <1>5, HandedKept
<1>6. CASE ConnectionLost
  <2>1. inbound' = inbound /\ store' = store
    BY <1>6 DEF ConnectionLost, clientVars
  <2>2. QED
    BY <1>5, <2>1
<1>7. CASE Restart
  <2>1. store \in StoreType
    BY <1>1 DEF FlowInv, TypeInv, DataTypes, StoreType
  <2>2. inbound' = store.received /\ store' = [store EXCEPT !.pubrel = @ \cap {q.id : q \in store.sent}]
    BY <1>7 DEF Restart
  <2>3. store'.received = store.received
    BY <2>1, <2>2 DEF StoreType
  <2>4. QED
    BY <1>4, <1>5, <2>2, <2>3
<1>8. CASE HandleWhileWriting
  <2> DEFINE p == Head(toClient)
  <2>1. /\ toClient # <<>> /\ inbound' = inbound
        /\ store' = IF p.type = "PUBLISH" THEN Received(p) ELSE store
    BY <1>8 DEF HandleWhileWriting, clientVars
  <2>2. p \in Packet /\ p \in Range(toClient)
    BY <1>4, <2>1, TailFacts
  <2> HIDE DEF p
  <2>3. CASE p.type = "PUBLISH" /\ p.msg \in Qos2
    <3> DEFINE e == [msg |-> p.msg, id |-> p.id]
    <3>1. p.msg \in InMsgs /\ TypeInv /\ StoreInv
      BY <1>1, <2>2, <2>3 DEF FlowInv, TypeInv
    <3>2. store'.received = (store.received \ ById(store.received, p.id)) \cup {e}
      BY <2>1, <2>2, <2>3, <3>1, ReceivedFacts
    <3>3. e.id = p.id /\ e.msg = p.msg
      OBVIOUS
    <3> HIDE DEF e
    <3>4. p.type \in Requests
      BY <2>3 DEF Requests
    <3>5. PICK f \in Range(serverOut) : f.id = p.id /\ f.msg = p.msg /\ f.next # "PUBCOMP"
      BY <1>1, <2>2, <2>3, <3>4 DEF LinkInv, Linked, Asked
    <3>6. f.next = "PUBREC"
      <4>1. f.next \in {"PUBACK", "PUBREC", "PUBCOMP"}
        BY <1>4 DEF Flight
      <4>2. QED
        BY <1>1, <2>3, <3>5, <4>1, Waits
    <3>7. \A q \in store'.received : q \in store.received \/
            \E g \in Range(serverOut) : g.next = "PUBREC" /\ g.id = q.id /\ g.msg = q.msg
      BY <3>2, <3>3, <3>5, <3>6
    <3>8. QED
      BY <1>5, <2>1, <3>7
  <2>4. CASE ~(p.type = "PUBLISH" /\ p.msg \in Qos2)
    <3>1. store' = store
      BY <2>1, <2>4 DEF Received
    <3>2. QED
      BY <1>5, <2>1, <3>1
  <2>5. QED
    BY <2>3, <2>4
<1>9. QED
  BY <1>6, <1>7, <1>8

\* The server takes a message on.
LEMMA ServerPublishHanded ==
    ASSUME MemoryInv, HandedInv, NEW m \in InMsgs, NEW i \in Ids, ServerPublish(m, i)
    PROVE  HandedInv' /\ InStep
<1>1. FlowInv /\ LinkInv /\ ReceivedInv
  BY DEF MemoryInv
<1>2. PICK f \in Flight :
        /\ f.msg = m /\ f.next # "PUBCOMP" /\ Range(serverOut') = Range(serverOut) \cup {f}
  BY <1>1, ServerPublishLinks
<1>3. /\ inStatus[m] = "new" /\ inStatus' = [inStatus EXCEPT ![m] = "pending"]
      /\ UNCHANGED <<clientVars, store, toServer, arrived>>
  BY <1>1, ServerPublishLinks
<1>4. inbound' = inbound /\ store' = store /\ toServer' = toServer /\ Handed' = Handed
  BY <1>3, HandedStays DEF clientVars
<1>5. inStatus \in [InMsgs -> {"new", "pending", "complete"}]
  BY <1>1, HandedFacts
<1>6. /\ inStatus'[m] = "pending" /\ \A x \in InMsgs : x # m => inStatus'[x] = inStatus[x]
      /\ Handed[m] = 0
  BY <1>3, <1>5 DEF HandedInv
<1>7. \A g \in Range(serverOut) : g.msg \in InMsgs /\ g.msg # m
  BY <1>1, <1>3, FlowFacts DEF HandedInv
<1>8. HandedInv'
  BY <1>2, <1>4, <1>6, <1>7 DEF HandedInv
<1>9. In!Accept(m)
  BY <1>3, <1>4 DEF In!Accept
<1>10. QED
  BY <1>8, <1>9 DEF InStep, In!Next

\* The server has PUBREC: the message is recorded, and not handed over yet.
LEMMA ServerPubrecHanded ==
    ASSUME MemoryInv, HandedInv, ServerPubrec
    PROVE  HandedInv' /\ InStep
<1>1. FlowInv /\ LinkInv /\ ReceivedInv
  BY DEF MemoryInv
<1>2. /\ serverOut \in Seq(Flight) /\ UniqueIds(serverOut)
      /\ \A g \in Range(serverOut) : g \in Flight
  BY <1>1, FlowFacts
<1>3. PICK p \in Range(toServer), f \in Range(serverOut) :
        /\ p \in Packet /\ p.type = "PUBREC"
        /\ f.id = p.id /\ f.msg = p.msg /\ f.next = "PUBREC"
        /\ serverOut' = AwaitPubcomp(serverOut, p.id)
        /\ toClient' = Append(toClient, Reply("PUBREL", p))
        /\ Range(toServer') \subseteq Range(toServer)
        /\ UNCHANGED <<clientVars, store, outStatus, arrived, serverIn, inStatus, atServer>>
  BY <1>1, ServerPubrecLinks
<1>4. inbound' = inbound /\ store' = store /\ Handed' = Handed /\ inStatus' = inStatus
  BY <1>3, HandedStays DEF clientVars
<1> DEFINE M(x) == IF x.id = p.id THEN [x EXCEPT !.next = "PUBCOMP"] ELSE x
<1>5. \A y \in Range(serverOut') : \E x \in Range(serverOut) : y = M(x)
  BY <1>2, <1>3, AwaitFacts
<1>6. \A x \in Flight : /\ M(x).id = x.id /\ M(x).msg = x.msg
                        /\ (x.id # p.id => M(x) = x) /\ (x.id = p.id => M(x).next = "PUBCOMP")
  BY DEF Flight
<1> HIDE DEF M
<1>7. \A x \in Range(serverOut) : x.id = p.id => x = f
  BY <1>2, <1>3, RangeFacts
<1>8. ASSUME NEW y \in Range(serverOut')
      PROVE  /\ inStatus[y.msg] = "pending"
             /\ y.next = "PUBREC" => Handed[y.msg] = 0
             /\ y.next = "PUBCOMP" => \/ Entry(y) \in inbound /\ Handed[y.msg] = 0
                                      \/ ById(store.received, y.id) = {} /\ Handed[y.msg] > 0
  <2>1. PICK x \in Range(serverOut) : y = M(x)
    BY <1>5
  <2>2. CASE x.id = p.id
    <3>1. x = f /\ y.msg = f.msg /\ y.id = p.id /\ y.next = "PUBCOMP"
      BY <1>2, <1>3, <1>6, <1>7, <2>1, <2>2
    <3>2. Entry(y) = Entry(p)
      BY <1>3, <3>1, EntryFacts
    <3>3. Entry(p) \in inbound
      BY <1>1, <1>3 DEF ReceivedInv
    <3>4. inStatus[f.msg] = "pending" /\ Handed[f.msg] = 0
      BY <1>3 DEF HandedInv
    <3>5. QED
      BY <3>1, <3>2, <3>3, <3>4
  <2>3. CASE x.id # p.id
    <3>1. y = x
      BY <1>2, <1>6, <2>1, <2>3
    <3>2. QED
      BY <3>1 DEF HandedInv
  <2>4. QED
    BY <2>2, <2>3
<1>9. ASSUME NEW y \in Range(serverOut'), NEW z \in Range(serverOut'), y.msg = z.msg
      PROVE  y = z
  <2>1. PICK x \in Range(serverOut) : y = M(x)
    BY <1>5
  <2>2. PICK w \in Range(serverOut) : z = M(w)
    BY <1>5
  <2>3. x.msg = w.msg
    BY <1>2, <1>6, <1>9, <2>1, <2>2
  <2>4. QED
    BY <2>1, <2>2, <2>3 DEF HandedInv
<1>10. \A x \in Range(toServer') : x.type \in {"PUBACK", "PUBCOMP"} => Handed[x.msg] > 0
  BY <1>3 DEF HandedInv
<1>11. HandedInv'
  BY <1>4, <1>8, <1>9, <1>10 DEF HandedInv
<1>12. QED
  BY <1>4, <1>11 DEF InStep

\* The server has the last answer: the application has the message.
LEMMA ServerCompletesHanded ==
    ASSUME MemoryInv, HandedInv, NEW type \in {"PUBACK", "PUBCOMP"}, ServerCompletes(type)
    PROVE  HandedInv' /\ InStep
<1>1. FlowInv /\ LinkInv /\ ReceivedInv
  BY DEF MemoryInv
<1>2. PICK p \in Range(toServer), f \in Range(serverOut) :
        /\ p.type = type /\ f.id = p.id /\ f.msg = p.msg /\ f.next = type
        /\ Range(serverOut') = {x \in Range(serverOut) : x.id # p.id}
        /\ toClient' = toClient /\ Range(toServer') \subseteq Range(toServer)
        /\ \A x \in Range(toServer') : x.type \in Answers => x.id # p.id
        /\ inStatus' = [m \in InMsgs |-> IF m = f.msg THEN "complete" ELSE inStatus[m]]
        /\ UNCHANGED <<clientVars, store, outStatus, arrived, serverIn, atServer>>
  BY <1>1, ServerCompletesLinks
<1>3. inbound' = inbound /\ store' = store /\ Handed' = Handed
  BY <1>2, HandedStays DEF clientVars
<1>4. /\ inStatus \in [InMsgs -> {"new", "pending", "complete"}]
      /\ \A g \in Range(serverOut) : g.msg \in InMsgs
  BY <1>1, HandedFacts, FlowFacts
<1>5. Handed[f.msg] > 0 /\ inStatus[f.msg] = "pending" /\ f.msg \in InMsgs
  BY <1>2, <1>4 DEF HandedInv
<1>6. \A g \in Range(serverOut') : g.msg # f.msg
  BY <1>2 DEF HandedInv
<1>7. \A g \in Range(serverOut') : inStatus'[g.msg] = "pending"
  BY <1>2, <1>4, <1>6 DEF HandedInv
<1>8. \A m \in InMsgs : inStatus'[m] = "new" => inStatus[m] = "new"
  BY <1>2
<1>9. HandedInv'
  BY <1>2, <1>3, <1>7, <1>8 DEF HandedInv
<1>10. inStatus' = [inStatus EXCEPT ![f.msg] = "complete"]
  BY <1>2, <1>4
<1>11. In!Complete(f.msg)
  BY <1>3, <1>5, <1>10 DEF In!Complete
<1>12. QED
  BY <1>5, <1>9, <1>11 DEF InStep, In!Next

\* Every step is one of Delivery, or none.
LEMMA HandedStep ==
    ASSUME ~Version5, MemoryInv, MemoryInv', HandedInv, [Next]_vars
    PROVE  HandedInv' /\ InStep
<1>1. FlowInv /\ FlowInv' /\ LinkInv
  BY DEF MemoryInv
<1>2. "PUBACK" \notin Requests /\ "PUBCOMP" \notin Requests
  BY DEF Requests
<1>3. ASSUME Quiet PROVE HandedInv' /\ InStep
  <2>1. Handed' = Handed
    BY <1>3, HandedStays DEF Quiet
  <2>2. QED
    BY <1>1, <1>2, <1>3, <2>1, HandedKept DEF Quiet
<1>4. CASE \/ \E m \in OutMsgs, i \in Ids : Publish(m, i)
           \/ Send
           \/ ServerTakes \/ ServerReleases
           \/ Connect
           \/ UNCHANGED vars
  BY <1>1, <1>3, <1>4, QuietSteps
<1>5. CASE Receive
  <2>1. CASE \/ \E type \in {"PUBACK", "PUBCOMP"} : HandlePuback(type)
             \/ HandlePubrec
    BY <1>1, <1>3, <2>1, QuietSteps
  <2>2. CASE \E taken \in BOOLEAN : HandlePublish(taken) \/ HandlePubrel(taken)
    BY <2>2, PublishHanded, PubrelHanded
  <2>3. CASE HandleWhileWriting
    BY <2>3, ClosedHanded
  <2>4. QED
    BY <1>5, <2>1, <2>2, <2>3 DEF Receive
<1>6. CASE QueueOffered
  <2>1. /\ inbound' = inbound /\ serverOut' = serverOut /\ toServer' = toServer
        /\ inStatus' = inStatus
        /\ store' = store \/ store' = [store EXCEPT !.queue = messageQueue']
    BY <1>6, OfferKeeps DEF serverVars
  <2>2. store \in StoreType
    BY <1>1 DEF FlowInv, TypeInv, DataTypes, StoreType
  <2>3. store'.received = store.received
    BY <2>1, <2>2 DEF StoreType
  <2>4. Handed' = Handed
    <3>1. CASE DeliverQueued(TRUE)
      BY <1>1, <3>1, HandedSame
    <3>2. CASE SocketEvent \/ DeliverQueued(FALSE)
      BY <3>2, HandedStays DEF SocketEvent, DeliverQueued, clientVars
    <3>3. \A taken \in BOOLEAN : taken = TRUE \/ taken = FALSE
      OBVIOUS
    <3>4. QED
      BY <1>6, <3>1, <3>2, <3>3 DEF QueueOffered
  <2>5. QED
    BY <1>1, <2>1, <2>3, <2>4, HandedKept
<1>7. CASE ConnectionLost \/ Restart
  BY <1>7, ClosedHanded
<1>8. CASE \/ \E m \in InMsgs, i \in Ids : ServerPublish(m, i)
           \/ ServerPubrec
           \/ \E type \in {"PUBACK", "PUBCOMP"} : ServerCompletes(type)
  BY <1>8, ServerPublishHanded, ServerPubrecHanded, ServerCompletesHanded
<1>9. QED
  BY <1>4, <1>5, <1>6, <1>7, <1>8 DEF Next, Server, QueueOffered

\* Nothing has been handed over at the start.
LEMMA HandedInit == Init => HandedInv /\ In!Init
<1>1. SUFFICES ASSUME Init PROVE HandedInv /\ In!Init
  OBVIOUS
<1>2. /\ messageQueue = <<>> /\ arrived = [m \in InMsgs |-> 0] /\ store.received = {}
      /\ Range(toServer) = {} /\ Range(serverOut) = {} /\ inStatus = [m \in InMsgs |-> "new"]
  BY <1>1 DEF Init, Range
<1>3. ASSUME NEW m PROVE Occurs(messageQueue, m) = 0
  <2>1. {n \in DOMAIN messageQueue : messageQueue[n] = m} = {}
    BY <1>2
  <2>2. QED
    BY <2>1, FS_EmptySet DEF Occurs
<1>4. Handed = [m \in InMsgs |-> 0]
  BY <1>2, <1>3, HandedIs, FlowAssumption
<1>5. QED
  BY <1>2, <1>4 DEF HandedInv, In!Init

\* With MQTT 3 the flows implement Delivery for the messages of the server too: the
\* application has each at least once, with QoS 2 exactly once, before the library
\* lets the server end the flow, whatever connections are lost and processes
\* restarted.
THEOREM InboundRefines ==
    ASSUME ~Version5
    PROVE  Spec => InboundDelivery
<1>1. MemoryInv /\ MemoryInv' /\ HandedInv /\ [Next]_vars => HandedInv' /\ InStep
  BY HandedStep
<1>2. Spec => []HandedInv
  BY <1>1, HandedInit, MemoryAlways, PTL DEF Spec
<1>3. MemoryInv /\ MemoryInv' /\ HandedInv /\ [Next]_vars => [In!Next]_(In!dvars)
  BY <1>1 DEF InStep, In!dvars
<1>4. QED
  BY <1>2, <1>3, HandedInit, MemoryAlways, PTL DEF Spec, InboundDelivery, In!Spec

====
