--------------------------- MODULE SyncClientProofs --------------------------
(***************************************************************************)
(* The safety properties of SyncClient, for every client, any number of    *)
(* calls of each kind and any number of message ids.  A step of the model  *)
(* maps one world [m, bg, net, hist] to the next, so the proofs are about  *)
(* worlds: WorldInv is what every world satisfies, Keeps(w, v) what is     *)
(* true of any piece of work that turns w into v without establishing a    *)
(* connection.                                                             *)
(***************************************************************************)
EXTENDS SyncClient, TLAPS, WellFoundedInduction

(***************************************************************************)
(* The fields of a world, and the types of those that matter.              *)
(***************************************************************************)
Entries == [id : Nat, msg : Nat]

ClientShape(c) ==
  /\ DOMAIN c = {"ma", "websocket", "clean", "v", "connected", "state", "open", "pending", "pack", "rc", "sem", "out",
                 "msgID", "queue"}
  /\ c.ma \in BOOLEAN /\ c.connected \in BOOLEAN /\ c.out \in SUBSET Entries

ThreadShape(b) ==
  /\ DOMAIN b = {"running", "tostop", "pc", "sock", "rc", "pack", "qe"}
  /\ b.running \in BOOLEAN /\ b.tostop \in BOOLEAN

Types == {"CONNECT", "CONNACK", "REFUSED", "subscribe", "SUBACK", "unsubscribe", "UNSUBACK", "PUBLISH", "PUBACK", "DISCONNECT"}
Packets == [type : Types, id : Nat]

NetShape(n) ==
  /\ DOMAIN n = {"tcp", "in", "eof", "req", "ws"}
  /\ n.in \in Seq(Packets) /\ n.req \in SUBSET Packets

HistShape(h) ==
  /\ DOMAIN h = {"conns", "ended", "lost", "disconnected", "raced", "ids", "acked", "discarded", "completed"}
  /\ h.conns \in Nat
  /\ h.lost \in Seq(Nat) /\ Len(h.lost) = h.conns
  /\ h.ids \in Seq(Nat)

Shape(w) ==
  /\ DOMAIN w = {"m", "bg", "net", "hist"}
  /\ ClientShape(w.m) /\ ThreadShape(w.bg) /\ NetShape(w.net) /\ HistShape(w.hist)

(***************************************************************************)
(* What every world satisfies.                                             *)
(***************************************************************************)
\* A connection that is over, one way or the other.
Over(h, k) == k \in h.ended \cup h.disconnected \/ h.lost[k] = 1

LossOK(c, h) ==
  /\ c.connected => h.conns > 0 /\ h.lost[h.conns] = 0
  /\ c.ma => \A k \in 1 .. h.conns : h.lost[k] <= 1 /\ (k < h.conns \/ ~c.connected => Over(h, k))

\* A message is acknowledged, thrown away, or in flight with its id.
DoneOK(c, h) ==
  /\ \A k \in DOMAIN h.ids : k \in h.acked \cup h.discarded \/ \E x \in c.out : x.id = h.ids[k] /\ x.msg = k
  /\ h.completed \subseteq h.acked \cup h.discarded

Alive(b) == b.running /\ b.pc # "off" /\ ~b.tostop

\* A DISCONNECT packet is only read from a connection, and acted upon while it lasts or by a thread that is
\* being stopped.
ThreadOK(c, b, n, h) ==
  /\ b.running <=> b.pc # "off"
  /\ b.tostop => b.running
  /\ c.ma /\ c.connected => Alive(b) \/ h.conns \in h.raced
  /\ \A i \in DOMAIN n.in : n.in[i].type = "DISCONNECT" => c.connected
  /\ (b.pc \in {"handle", "callback"} /\ b.pack = "DISCONNECT") \/ b.pc = "drain" => c.connected \/ b.tostop

WorldInv(w) ==
  /\ Shape(w)
  /\ LossOK(w.m, w.hist)
  /\ DoneOK(w.m, w.hist)
  /\ ThreadOK(w.m, w.bg, w.net, w.hist)

(***************************************************************************)
(* The call: a connect is not connected yet, and has a thread that will    *)
(* serve it unless it began while the thread was being stopped.            *)
(***************************************************************************)
CallOK(w, c) ==
  /\ c.name = "connect" => ~w.m.connected
  /\ c.name = "connect" /\ c.pc = "wait" /\ w.m.ma => Alive(w.bg) \/ w.hist.conns + 1 \in w.hist.raced
  /\ c.pc = "completing" => c.msg \in DOMAIN w.hist.ids
  /\ c.what = "resend" => c.name = "connect" /\ c.pc = "stopping"

CallShape(c) == DOMAIN c = {"name", "pc", "what", "mode", "version", "late", "msg"} /\ c.late \in BOOLEAN

SyncInv ==
  /\ left \in [Calls -> Nat]
  /\ WorldInv(World) /\ CallShape(call) /\ CallOK(World, call)

(***************************************************************************)
(* Work between two connections.                                           *)
(***************************************************************************)
Goes(w, v) ==
  /\ WorldInv(v)
  /\ v.m.ma = w.m.ma /\ (v.m.connected => w.m.connected)
  /\ v.hist.ids = w.hist.ids /\ v.hist.conns = w.hist.conns /\ v.hist.raced = w.hist.raced

\* nor does it stop a thread that has nothing to serve yet
Keeps(w, v) == Goes(w, v) /\ (Alive(w.bg) /\ ~w.m.connected => Alive(v.bg))

LEMMA KeepsRefl ==
  ASSUME NEW w, WorldInv(w)
  PROVE  Keeps(w, w)
BY DEF Keeps, Goes

LEMMA KeepsTrans ==
  ASSUME NEW u, NEW v, NEW w, Keeps(u, v), Keeps(v, w)
  PROVE  Keeps(u, w)
BY DEF Keeps, Goes

LEMMA LeastNat ==
  ASSUME NEW S \in SUBSET Nat, S # {}
  PROVE  \E i \in S : \A j \in S : i <= j
<1> DEFINE R == OpToRel(<, Nat)
<1>1. IsWellFoundedOn(R, Nat)
  BY NatLessThanWellFounded
<1>2. \A x, y \in Nat : y < x => <<y, x>> \in R
  BY DEF OpToRel
<1> HIDE DEF R
<1>3. PICK i \in S : \A j \in S : ~(<<j, i>> \in R)
  BY <1>1, WFMin
<1>4. ASSUME NEW j \in S
      PROVE  i <= j
  <2>1. i \in Nat /\ j \in Nat
    OBVIOUS
  <2>2. ~(j < i)
    BY <1>2, <1>3, <2>1
  <2> QED BY <2>1, <2>2
<1> QED BY <1>4

\* MQTTProtocol_assignMsgId returns a number
LEMMA NextIdNat ==
  ASSUME NEW w
  PROVE  NextId(w) \in Nat
<1> DEFINE free == 1 .. MaxIds \ ({x.id : x \in w.m.out} \cup {w.m.msgID})
           above == {i \in free : i > w.m.msgID}
           least(S) == CHOOSE i \in S : \A j \in S : i <= j
<1>1. ASSUME NEW S \in SUBSET Nat, S # {}
      PROVE  least(S) \in Nat
  BY <1>1, LeastNat
<1>2. free \in SUBSET Nat /\ above \in SUBSET Nat
  BY BoundsAssumption
<1>3. NextId(w) = IF free = {} THEN 0 ELSE IF above # {} THEN least(above) ELSE least(free)
  BY DEF NextId
<1> HIDE DEF free, above, least
<1> QED BY <1>1, <1>2, <1>3

(***************************************************************************)
(* Ending a session.                                                       *)
(***************************************************************************)
\* what MQTTClient_disconnect1 makes of a world
Closed(w, r, report, stop) ==
  /\ Shape(r)
  /\ r.net = NoNet
  /\ r.m.ma = w.m.ma /\ r.m.connected = FALSE
  /\ r.bg.running = w.bg.running /\ r.bg.pc = w.bg.pc /\ r.bg.pack = w.bg.pack
  /\ r.bg.tostop = (w.bg.tostop \/ (stop /\ w.bg.running))
  /\ \/ r.m.out = w.m.out /\ r.hist.discarded = w.hist.discarded
     \/ r.m.out = {} /\ r.hist.discarded = w.hist.discarded \cup {x.msg : x \in w.m.out}
  /\ r.hist.conns = w.hist.conns /\ r.hist.ended = w.hist.ended /\ r.hist.disconnected = w.hist.disconnected
  /\ r.hist.raced = w.hist.raced /\ r.hist.ids = w.hist.ids /\ r.hist.acked = w.hist.acked
  /\ r.hist.completed = w.hist.completed
  /\ r.hist.lost = IF report /\ w.m.ma /\ w.m.connected THEN [w.hist.lost EXCEPT ![w.hist.conns] = w.hist.lost[w.hist.conns] + 1]
                    ELSE w.hist.lost

LEMMA CloseFields ==
  ASSUME NEW w, Shape(w)
  PROVE  LET r == MQTTClient_closeSession(w)
         IN /\ Closed(w, r, FALSE, FALSE) /\ r.m.state = "NOT_IN_PROGRESS"
<1> DEFINE c == [w EXCEPT !.m.connected = FALSE, !.m.state = "NOT_IN_PROGRESS", !.m.open = FALSE, !.m.pending = FALSE,
                     !.net = NoNet]
<1>1. /\ DOMAIN c = DOMAIN w
      /\ c.m = [w.m EXCEPT !.connected = FALSE, !.state = "NOT_IN_PROGRESS", !.open = FALSE, !.pending = FALSE]
      /\ c.bg = w.bg /\ c.net = NoNet /\ c.hist = w.hist
  BY DEF Shape
<1> HIDE DEF c
<1>2. ClientShape(c.m) /\ c.m.ma = w.m.ma /\ c.m.connected = FALSE /\ c.m.state = "NOT_IN_PROGRESS" /\ c.m.out = w.m.out
  BY <1>1 DEF Shape, ClientShape
<1>3. NetShape(NoNet)
  BY DEF NetShape, NoNet
<1>4. Shape(c)
  BY <1>1, <1>2, <1>3 DEF Shape
<1>5. Closed(w, c, FALSE, FALSE)
  BY <1>1, <1>2, <1>4 DEF Closed, Shape, ThreadShape
<1>6. CASE w.m.clean /\ w.m.v # 5
  <2> DEFINE d == MQTTClient_cleanSession(c)
  <2>1. /\ DOMAIN d = DOMAIN c
        /\ d.m = [c.m EXCEPT !.out = {}, !.queue = <<>>, !.msgID = 0]
        /\ d.bg = c.bg /\ d.net = c.net
        /\ d.hist = [c.hist EXCEPT !.discarded = @ \cup {x.msg : x \in c.m.out}]
    BY <1>4 DEF Shape, MQTTClient_cleanSession
  <2>2. MQTTClient_closeSession(w) = d
    BY <1>6 DEF MQTTClient_closeSession, c
  <2> HIDE DEF d
  <2>3. ClientShape(d.m) /\ d.m.ma = c.m.ma /\ d.m.connected = c.m.connected /\ d.m.state = c.m.state /\ d.m.out = {}
    BY <2>1, <1>2 DEF ClientShape
  <2>4. /\ HistShape(d.hist) /\ d.hist.discarded = c.hist.discarded \cup {x.msg : x \in c.m.out}
        /\ d.hist.conns = c.hist.conns /\ d.hist.ended = c.hist.ended /\ d.hist.disconnected = c.hist.disconnected
        /\ d.hist.raced = c.hist.raced /\ d.hist.ids = c.hist.ids /\ d.hist.acked = c.hist.acked
        /\ d.hist.completed = c.hist.completed /\ d.hist.lost = c.hist.lost
    BY <2>1, <1>4 DEF Shape, HistShape
  <2>5. Shape(d)
    BY <2>1, <2>3, <2>4, <1>4 DEF Shape
  <2> QED BY ZenonT(60), <1>1, <1>2, <1>5, <2>1, <2>2, <2>3, <2>4, <2>5 DEF Closed
<1>7. CASE ~(w.m.clean /\ w.m.v # 5)
  BY <1>7, <1>2, <1>5 DEF MQTTClient_closeSession, c
<1> QED BY <1>6, <1>7

LEMMA DisconnectFields ==
  ASSUME NEW w, NEW report \in BOOLEAN, NEW stop \in BOOLEAN, Shape(w), w.m.connected => w.hist.conns > 0
  PROVE  Closed(w, MQTTClient_disconnect1(w, report, stop), report, stop)
<1> DEFINE c == MQTTClient_closeSession(w)
           s == IF stop THEN MQTTClient_stop(c) ELSE c
           r == MQTTClient_disconnect1(w, report, stop)
<1>1. Closed(w, c, FALSE, FALSE) /\ c.m.state = "NOT_IN_PROGRESS"
  BY CloseFields
<1> HIDE DEF c
<1>2. Shape(c) /\ ~InUse(c)
  BY <1>1 DEF Closed, InUse
<1>a. /\ c.net = NoNet
      /\ c.m.ma = w.m.ma /\ c.m.connected = FALSE
      /\ \/ c.m.out = w.m.out /\ c.hist.discarded = w.hist.discarded
         \/ c.m.out = {} /\ c.hist.discarded = w.hist.discarded \cup {x.msg : x \in w.m.out}
      /\ c.hist.conns = w.hist.conns /\ c.hist.ended = w.hist.ended /\ c.hist.disconnected = w.hist.disconnected
      /\ c.hist.raced = w.hist.raced /\ c.hist.ids = w.hist.ids /\ c.hist.acked = w.hist.acked
      /\ c.hist.completed = w.hist.completed
  BY <1>1 DEF Closed
<1>3. /\ Shape(s) /\ s.m = c.m /\ s.net = c.net /\ s.hist = c.hist
      /\ s.bg.running = w.bg.running /\ s.bg.pc = w.bg.pc /\ s.bg.pack = w.bg.pack
      /\ s.bg.tostop = (w.bg.tostop \/ (stop /\ w.bg.running))
  <2>1. c.bg.running = w.bg.running /\ c.bg.pc = w.bg.pc /\ c.bg.pack = w.bg.pack /\ c.bg.tostop = w.bg.tostop
        /\ c.bg.running \in BOOLEAN /\ c.bg.tostop \in BOOLEAN
    BY <1>1, <1>2 DEF Closed, Shape, ThreadShape
  <2>2. CASE stop /\ c.bg.running /\ ~c.bg.tostop
    <3>1. s = [c EXCEPT !.bg.tostop = TRUE]
      BY <2>2, <1>2 DEF MQTTClient_stop
    <3> HIDE DEF s
    <3>2. DOMAIN s = DOMAIN c /\ s.m = c.m /\ s.net = c.net /\ s.hist = c.hist /\ s.bg = [c.bg EXCEPT !.tostop = TRUE]
      BY <3>1, <1>2 DEF Shape
    <3>3. ThreadShape(s.bg) /\ s.bg.running = c.bg.running /\ s.bg.pc = c.bg.pc /\ s.bg.pack = c.bg.pack /\ s.bg.tostop = TRUE
      BY <3>2, <1>2 DEF Shape, ThreadShape
    <3>4. Shape(s)
      BY <3>2, <3>3, <1>2 DEF Shape
    <3> QED BY <3>2, <3>3, <3>4, <2>1, <2>2
  <2>3. CASE ~(stop /\ c.bg.running /\ ~c.bg.tostop)
    <3>1. s = c
      BY <2>3 DEF MQTTClient_stop
    <3> HIDE DEF s
    <3>2. w.bg.tostop = (w.bg.tostop \/ (stop /\ w.bg.running))
      BY <2>1, <2>3
    <3> QED BY <3>1, <3>2, <2>1, <1>2
  <2> QED BY <2>2, <2>3
<1> HIDE DEF s
<1> SUFFICES Closed(w, r, report, stop)
  OBVIOUS
<1>4. CASE report /\ w.m.ma /\ w.m.connected
  <2>1. r = [s EXCEPT !.hist.lost[s.hist.conns] = @ + 1]
    BY <1>4 DEF MQTTClient_disconnect1, ReportLost, c, s
  <2> HIDE DEF r
  <2>2. /\ DOMAIN r = DOMAIN s /\ r.m = s.m /\ r.bg = s.bg /\ r.net = s.net
        /\ r.hist = [s.hist EXCEPT !.lost = [s.hist.lost EXCEPT ![s.hist.conns] = s.hist.lost[s.hist.conns] + 1]]
    BY <2>1, <1>3 DEF Shape, HistShape
  <2>3. s.hist.lost = w.hist.lost /\ s.hist.conns = w.hist.conns /\ s.hist.conns \in 1 .. Len(s.hist.lost) /\ s.hist.lost \in Seq(Nat)
    BY <1>1, <1>3, <1>4 DEF Closed, Shape, HistShape
  <2> DEFINE l == [w.hist.lost EXCEPT ![w.hist.conns] = w.hist.lost[w.hist.conns] + 1]
  <2>4. l \in Seq(Nat) /\ Len(l) = Len(w.hist.lost)
    BY SMTT(60), <2>3
  <2>5. r.hist = [s.hist EXCEPT !.lost = l]
    BY <2>2, <2>3
  <2> HIDE DEF l
  <2>6. /\ HistShape(r.hist) /\ r.hist.discarded = s.hist.discarded
        /\ r.hist.conns = s.hist.conns /\ r.hist.ended = s.hist.ended /\ r.hist.disconnected = s.hist.disconnected
        /\ r.hist.raced = s.hist.raced /\ r.hist.ids = s.hist.ids /\ r.hist.acked = s.hist.acked
        /\ r.hist.completed = s.hist.completed /\ r.hist.lost = l
    BY <2>3, <2>4, <2>5, <1>3 DEF Shape, HistShape
  <2>7. Shape(r)
    BY <2>2, <2>6, <1>3 DEF Shape
  <2>8. r.hist.lost = IF report /\ w.m.ma /\ w.m.connected THEN l ELSE w.hist.lost
    BY <2>6, <1>4
  <2>9. r.bg = s.bg /\ r.m = c.m /\ r.net = c.net /\ r.hist.discarded = c.hist.discarded
        /\ r.hist.conns = c.hist.conns /\ r.hist.ended = c.hist.ended /\ r.hist.disconnected = c.hist.disconnected
        /\ r.hist.raced = c.hist.raced /\ r.hist.ids = c.hist.ids /\ r.hist.acked = c.hist.acked
        /\ r.hist.completed = c.hist.completed
    BY <1>3, <2>2, <2>6
  <2> QED BY <1>a, <1>3, <2>7, <2>8, <2>9 DEF Closed, l
<1>5. CASE ~(report /\ w.m.ma /\ w.m.connected)
  <2>1. r = s
    BY <1>5, <1>1 DEF MQTTClient_disconnect1, ReportLost, c, s
  <2> HIDE DEF r
  <2>2. r.hist.lost = IF report /\ w.m.ma /\ w.m.connected
                      THEN [w.hist.lost EXCEPT ![w.hist.conns] = w.hist.lost[w.hist.conns] + 1] ELSE w.hist.lost
    BY <1>1, <1>3, <1>5, <2>1 DEF Closed
  <2> QED BY <1>a, <1>3, <2>1, <2>2 DEF Closed
<1> QED BY <1>4, <1>5

LEMMA ClosedDone ==
  ASSUME NEW w, NEW r, NEW report, NEW stop, DoneOK(w.m, w.hist), Closed(w, r, report, stop)
  PROVE  DoneOK(r.m, r.hist)
<1>1. CASE r.m.out = w.m.out /\ r.hist.discarded = w.hist.discarded
  BY <1>1 DEF Closed, DoneOK
<1>2. CASE r.m.out = {} /\ r.hist.discarded = w.hist.discarded \cup {x.msg : x \in w.m.out}
  <2>1. r.hist.ids = w.hist.ids /\ r.hist.acked = w.hist.acked /\ r.hist.completed = w.hist.completed
    BY DEF Closed
  <2>2. r.hist.completed \subseteq r.hist.acked \cup r.hist.discarded
    BY <1>2, <2>1 DEF DoneOK
  <2>3. ASSUME NEW k \in DOMAIN r.hist.ids
        PROVE  k \in r.hist.acked \cup r.hist.discarded
    <3>1. k \in w.hist.acked \cup w.hist.discarded \/ \E x \in w.m.out : x.id = w.hist.ids[k] /\ x.msg = k
      BY <2>1 DEF DoneOK
    <3> QED BY <3>1, <1>2, <2>1
  <2> QED BY <2>2, <2>3 DEF DoneOK
<1> QED BY <1>1, <1>2 DEF Closed

\* the report, or what the application is told otherwise, goes with the connection
LEMMA LossClosed ==
  ASSUME NEW c, NEW d, NEW g, NEW h, NEW report \in BOOLEAN, LossOK(c, g), HistShape(g), c.ma \in BOOLEAN, c.connected \in BOOLEAN,
         d.ma = c.ma, d.connected = FALSE,
         h.conns = g.conns, g.ended \subseteq h.ended, g.disconnected \subseteq h.disconnected,
         h.lost = IF report /\ c.ma /\ c.connected THEN [g.lost EXCEPT ![g.conns] = g.lost[g.conns] + 1] ELSE g.lost,
         c.ma /\ c.connected => report \/ g.conns \in h.ended \cup h.disconnected
  PROVE  LossOK(d, h)
<1> SUFFICES ASSUME c.ma, NEW k \in 1 .. g.conns
             PROVE  h.lost[k] <= 1 /\ Over(h, k)
  BY DEF LossOK
<1>1. g.lost \in Seq(Nat) /\ Len(g.lost) = g.conns /\ k \in DOMAIN g.lost /\ g.conns \in Nat /\ k \in Nat
  BY DEF HistShape
<1>2. g.lost[k] <= 1 /\ (k < g.conns \/ ~c.connected => Over(g, k))
  BY DEF LossOK
<1>3. CASE k < g.conns \/ ~c.connected
  <2>1. h.lost[k] = g.lost[k]
    BY <1>1, <1>3
  <2> QED BY <1>2, <1>3, <2>1 DEF Over
<1>4. CASE k = g.conns /\ c.connected
  <2>1. g.lost[k] = 0
    BY <1>4 DEF LossOK
  <2>2. h.lost[k] = IF report THEN 1 ELSE 0
    BY <1>1, <1>4, <2>1
  <2> QED BY <1>4, <2>2 DEF Over
<1> QED BY <1>1, <1>3, <1>4

LEMMA ClosedThread ==
  ASSUME NEW w, NEW r, NEW report, NEW stop \in BOOLEAN, Shape(w), ThreadOK(w.m, w.bg, w.net, w.hist), Closed(w, r, report, stop),
         w.m.connected => stop
  PROVE  ThreadOK(r.m, r.bg, r.net, r.hist)
<1>1. /\ r.bg.running = w.bg.running /\ r.bg.pc = w.bg.pc /\ r.bg.pack = w.bg.pack /\ r.m.connected = FALSE
      /\ r.bg.tostop = (w.bg.tostop \/ (stop /\ w.bg.running))
      /\ r.net.in = <<>>
  BY DEF Closed, NoNet
<1>2. w.bg.running \in BOOLEAN /\ w.bg.tostop \in BOOLEAN
  BY DEF Shape, ThreadShape
<1>3. (r.bg.running <=> r.bg.pc # "off") /\ (r.bg.tostop => r.bg.running)
  BY <1>1, <1>2 DEF ThreadOK
<1>4. (r.bg.pc \in {"handle", "callback"} /\ r.bg.pack = "DISCONNECT") \/ r.bg.pc = "drain" => r.bg.tostop
  BY <1>1, <1>2 DEF ThreadOK
<1>5. DOMAIN r.net.in = {}
  BY <1>1
<1> QED BY <1>1, <1>3, <1>4, <1>5 DEF ThreadOK

\* the connection is over; the thread is stopped if a connection is ended with it
LEMMA DisconnectGoes ==
  ASSUME NEW w, NEW report \in BOOLEAN, NEW stop \in BOOLEAN, WorldInv(w), w.m.connected => stop,
         w.m.ma /\ w.m.connected => report \/ w.hist.conns \in w.hist.ended \cup w.hist.disconnected
  PROVE  LET r == MQTTClient_disconnect1(w, report, stop)
         IN /\ Goes(w, r) /\ ~r.m.connected
            /\ r.bg.running = w.bg.running /\ r.bg.pc = w.bg.pc
            /\ r.bg.tostop = (w.bg.tostop \/ (stop /\ w.bg.running))
<1> DEFINE r == MQTTClient_disconnect1(w, report, stop)
<1>1. Shape(w) /\ LossOK(w.m, w.hist) /\ DoneOK(w.m, w.hist) /\ ThreadOK(w.m, w.bg, w.net, w.hist)
  BY DEF WorldInv
<1>2. Closed(w, r, report, stop)
  BY <1>1, DisconnectFields DEF LossOK
<1> HIDE DEF r
<1>3. DoneOK(r.m, r.hist) /\ ThreadOK(r.m, r.bg, r.net, r.hist)
  BY <1>1, <1>2, ClosedDone, ClosedThread
<1>4. LossOK(r.m, r.hist)
  <2>1. HistShape(w.hist) /\ w.m.ma \in BOOLEAN /\ w.m.connected \in BOOLEAN
    BY <1>1 DEF Shape, ClientShape
  <2>2. /\ r.m.ma = w.m.ma /\ r.m.connected = FALSE /\ r.hist.conns = w.hist.conns
        /\ r.hist.ended = w.hist.ended /\ r.hist.disconnected = w.hist.disconnected
        /\ r.hist.lost = IF report /\ w.m.ma /\ w.m.connected
                         THEN [w.hist.lost EXCEPT ![w.hist.conns] = w.hist.lost[w.hist.conns] + 1] ELSE w.hist.lost
    BY <1>2 DEF Closed
  <2>3. w.m.ma /\ w.m.connected => report \/ w.hist.conns \in r.hist.ended \cup r.hist.disconnected
    BY <2>2
  <2> QED BY ONLY ZenonT(60), <1>1, <2>1, <2>2, <2>3, report \in BOOLEAN, LossClosed
<1>5. WorldInv(r)
  BY <1>2, <1>3, <1>4 DEF WorldInv, Closed
<1> QED BY <1>2, <1>5 DEF Closed, Goes, r

(***************************************************************************)
(* Work that leaves the connection and the messages alone.                 *)
(***************************************************************************)
Same(w, v) ==
  /\ Shape(v)
  /\ v.m.ma = w.m.ma /\ v.m.connected = w.m.connected /\ v.m.out = w.m.out
  /\ v.hist = w.hist

LEMMA SameGoes ==
  ASSUME NEW w, NEW v, WorldInv(w), Same(w, v), ThreadOK(v.m, v.bg, v.net, v.hist)
  PROVE  Goes(w, v)
<1>1. LossOK(v.m, v.hist) /\ DoneOK(v.m, v.hist)
  BY DEF WorldInv, Same, LossOK, DoneOK
<1> QED BY <1>1 DEF Same, WorldInv, Goes

\* only fields of the client change that are nobody else's
LEMMA ClientKeeps ==
  ASSUME NEW w, NEW v, WorldInv(w), DOMAIN v = DOMAIN w, v.bg = w.bg, v.net = w.net, v.hist = w.hist, ClientShape(v.m),
         v.m.ma = w.m.ma, v.m.connected = w.m.connected, v.m.out = w.m.out
  PROVE  Keeps(w, v)
<1>1. Same(w, v)
  BY DEF Same, WorldInv, Shape
<1>2. ThreadOK(v.m, v.bg, v.net, v.hist)
  BY DEF WorldInv, ThreadOK
<1> QED BY <1>1, <1>2, SameGoes DEF Keeps

\* only the thread's fields change
LEMMA ThreadKeeps ==
  ASSUME NEW w, NEW v, WorldInv(w), DOMAIN v = DOMAIN w, v.m = w.m, v.net = w.net, v.hist = w.hist, ThreadShape(v.bg),
         ThreadOK(v.m, v.bg, v.net, v.hist), Alive(w.bg) /\ ~w.m.connected => Alive(v.bg)
  PROVE  Keeps(w, v)
<1>1. Same(w, v)
  BY DEF Same, WorldInv, Shape
<1> QED BY <1>1, SameGoes DEF Keeps

LEMMA PostKeeps ==
  ASSUME NEW w, NEW sem, WorldInv(w)
  PROVE  Keeps(w, Post(w, sem)) /\ Post(w, sem).bg = w.bg
<1> DEFINE v == Post(w, sem)
<1>1. Shape(w)
  BY DEF WorldInv
<1>2. /\ DOMAIN v = DOMAIN w /\ v.bg = w.bg /\ v.net = w.net /\ v.hist = w.hist
      /\ DOMAIN v.m = DOMAIN w.m /\ v.m.ma = w.m.ma /\ v.m.connected = w.m.connected /\ v.m.out = w.m.out
  BY <1>1 DEF Post, Shape, ClientShape
<1> HIDE DEF v
<1>3. ClientShape(v.m)
  BY <1>1, <1>2 DEF Shape, ClientShape
<1>4. Keeps(w, v)
  BY <1>2, <1>3, ClientKeeps
<1> QED BY <1>2, <1>4 DEF v

LEMMA ExitKeeps ==
  ASSUME NEW w, WorldInv(w), w.bg.tostop
  PROVE  Keeps(w, Exit(w))
<1> DEFINE v == Exit(w)
<1>1. Shape(w) /\ ThreadOK(w.m, w.bg, w.net, w.hist)
  BY DEF WorldInv
<1>2. DOMAIN v = DOMAIN w /\ v.m = w.m /\ v.net = w.net /\ v.hist = w.hist /\ v.bg = Off
  BY <1>1 DEF Exit, Shape
<1> HIDE DEF v
<1>3. ThreadShape(v.bg)
  BY <1>2 DEF ThreadShape, Off
<1>4. ThreadOK(v.m, v.bg, v.net, v.hist) /\ ~Alive(w.bg)
  <2>1. v.bg.running = FALSE /\ v.bg.tostop = FALSE /\ v.bg.pc = "off"
    BY <1>2 DEF Off
  <2>2. ~Alive(w.bg)
    BY DEF Alive
  <2>3. v.m.ma /\ v.m.connected => v.hist.conns \in v.hist.raced
    BY <1>1, <1>2, <2>2 DEF ThreadOK
  <2>4. \A i \in DOMAIN v.net.in : v.net.in[i].type = "DISCONNECT" => v.m.connected
    BY <1>1, <1>2 DEF ThreadOK
  <2> QED BY <2>1, <2>2, <2>3, <2>4 DEF ThreadOK
<1>5. Keeps(w, v)
  BY <1>2, <1>3, <1>4, ThreadKeeps
<1> QED BY <1>5 DEF v

LEMMA LoopKeeps ==
  ASSUME NEW w, WorldInv(w)
  PROVE  Keeps(w, Loop(w))
<1>1. CASE w.bg.tostop
  BY <1>1, ExitKeeps DEF Loop
<1>2. CASE ~w.bg.tostop
  <2> DEFINE b == [Off EXCEPT !.running = TRUE, !.pc = "select"]
             v == [w EXCEPT !.bg = b]
  <2>1. Shape(w) /\ ThreadOK(w.m, w.bg, w.net, w.hist)
    BY DEF WorldInv
  <2>2. ThreadShape(b) /\ b.running = TRUE /\ b.tostop = FALSE /\ b.pc = "select"
    BY DEF ThreadShape, Off
  <2> HIDE DEF b
  <2>3. DOMAIN v = DOMAIN w /\ v.m = w.m /\ v.net = w.net /\ v.hist = w.hist /\ v.bg = b
    BY <2>1 DEF Shape
  <2>4. Loop(w) = v
    BY <1>2 DEF Loop, b
  <2> HIDE DEF v
  <2>5. ThreadOK(v.m, v.bg, v.net, v.hist) /\ Alive(v.bg)
    <3>1. \A i \in DOMAIN v.net.in : v.net.in[i].type = "DISCONNECT" => v.m.connected
      BY <2>1, <2>3 DEF ThreadOK
    <3>2. Alive(v.bg)
      BY <2>2, <2>3 DEF Alive
    <3> QED BY <2>2, <2>3, <3>1, <3>2 DEF ThreadOK
  <2>6. Keeps(w, v)
    BY <2>2, <2>3, <2>5, ThreadKeeps
  <2> QED BY <2>4, <2>6
<1> QED BY <1>1, <1>2

LEMMA DisconnectedKeeps ==
  ASSUME NEW w, WorldInv(w), w.m.connected \/ w.bg.tostop
  PROVE  Keeps(w, Disconnected(w))
<1> DEFINE r == MQTTClient_disconnect1(w, FALSE, TRUE)
           v == [r EXCEPT !.hist.disconnected = @ \cup {w.hist.conns}]
<1>1. Shape(w) /\ LossOK(w.m, w.hist) /\ DoneOK(w.m, w.hist) /\ ThreadOK(w.m, w.bg, w.net, w.hist)
  BY DEF WorldInv
<1>2. Closed(w, r, FALSE, TRUE)
  BY <1>1, DisconnectFields DEF LossOK
<1>3. Disconnected(w) = Loop(v)
  BY DEF Disconnected
<1> HIDE DEF r
<1>4. Shape(r)
  BY <1>2 DEF Closed
<1>5. /\ DOMAIN v = DOMAIN r /\ v.m = r.m /\ v.bg = r.bg /\ v.net = r.net
      /\ v.hist = [r.hist EXCEPT !.disconnected = r.hist.disconnected \cup {w.hist.conns}]
  BY <1>4 DEF Shape
<1> HIDE DEF v
<1>6. /\ HistShape(v.hist) /\ v.hist.disconnected = r.hist.disconnected \cup {w.hist.conns}
      /\ v.hist.conns = r.hist.conns /\ v.hist.ended = r.hist.ended /\ v.hist.discarded = r.hist.discarded
      /\ v.hist.raced = r.hist.raced /\ v.hist.ids = r.hist.ids /\ v.hist.acked = r.hist.acked
      /\ v.hist.completed = r.hist.completed /\ v.hist.lost = r.hist.lost
  BY <1>4, <1>5 DEF Shape, HistShape
<1>7. Shape(v)
  BY <1>4, <1>5, <1>6 DEF Shape
<1>8. DoneOK(v.m, v.hist)
  <2>1. DoneOK(r.m, r.hist)
    BY <1>1, <1>2, ClosedDone
  <2> QED BY <2>1, <1>5, <1>6 DEF DoneOK
<1>9. ThreadOK(v.m, v.bg, v.net, v.hist)
  <2>1. ThreadOK(r.m, r.bg, r.net, r.hist)
    BY <1>1, <1>2, ClosedThread
  <2> QED BY <2>1, <1>5, <1>6 DEF ThreadOK
<1>10. LossOK(v.m, v.hist)
  <2>1. HistShape(w.hist) /\ w.m.ma \in BOOLEAN /\ w.m.connected \in BOOLEAN
    BY <1>1 DEF Shape, ClientShape
  <2>2. /\ v.m.ma = w.m.ma /\ v.m.connected = FALSE /\ v.hist.conns = w.hist.conns
        /\ v.hist.ended = w.hist.ended /\ v.hist.disconnected = w.hist.disconnected \cup {w.hist.conns}
        /\ v.hist.lost = w.hist.lost
    BY <1>2, <1>5, <1>6 DEF Closed
  <2>3. /\ w.hist.ended \subseteq v.hist.ended /\ w.hist.disconnected \subseteq v.hist.disconnected
        /\ (w.m.ma /\ w.m.connected => FALSE \/ w.hist.conns \in v.hist.ended \cup v.hist.disconnected)
        /\ v.hist.lost = IF FALSE /\ w.m.ma /\ w.m.connected
                         THEN [w.hist.lost EXCEPT ![w.hist.conns] = w.hist.lost[w.hist.conns] + 1] ELSE w.hist.lost
    BY <2>2
  <2>4. FALSE \in BOOLEAN
    OBVIOUS
  <2> QED BY ONLY <1>1, <2>1, <2>2, <2>3, <2>4, LossClosed
<1>11. WorldInv(v)
  BY <1>7, <1>8, <1>9, <1>10 DEF WorldInv
<1>12. Keeps(w, v)
  <2>1. Goes(w, v)
    BY <1>2, <1>5, <1>6, <1>11 DEF Closed, Goes
  <2>2. ~(Alive(w.bg) /\ ~w.m.connected)
    BY DEF Alive
  <2> QED BY <2>1, <2>2 DEF Keeps
<1> QED BY <1>3, <1>11, <1>12, LoopKeeps, KeepsTrans

\* an update of one of the client's fields
Noted(w, v) ==
  /\ Keeps(w, v) /\ v.bg = w.bg /\ v.net = w.net /\ v.hist = w.hist
  /\ v.m.ma = w.m.ma /\ v.m.out = w.m.out /\ v.m.connected = w.m.connected

LEMMA NoteKeeps ==
  ASSUME NEW w, WorldInv(w), NEW x, NEW y
  PROVE  /\ Noted(w, [w EXCEPT !.m.pack = x])
         /\ Noted(w, [w EXCEPT !.m.rc = x, !.m.state = y])
         /\ Noted(w, [w EXCEPT !.m.state = y])
         /\ Noted(w, [w EXCEPT !.m.queue = x])
         /\ Noted(w, [w EXCEPT !.m.pending = x])
         /\ Noted(w, [w EXCEPT !.m.msgID = x])
         /\ Noted(w, [w EXCEPT !.m.sem[x] = 0])
<1>1. Shape(w)
  BY DEF WorldInv
<1>2. ASSUME NEW v,
             /\ DOMAIN v = DOMAIN w /\ v.bg = w.bg /\ v.net = w.net /\ v.hist = w.hist
             /\ DOMAIN v.m = DOMAIN w.m /\ v.m.ma = w.m.ma /\ v.m.connected = w.m.connected /\ v.m.out = w.m.out
      PROVE  Noted(w, v)
  <2>1. ClientShape(v.m)
    BY <1>1, <1>2 DEF Shape, ClientShape
  <2> QED BY <1>2, <2>1, ClientKeeps DEF Noted
<1>3. Noted(w, [w EXCEPT !.m.pack = x])
  <2> DEFINE v == [w EXCEPT !.m.pack = x]
  <2>1. /\ DOMAIN v = DOMAIN w /\ v.bg = w.bg /\ v.net = w.net /\ v.hist = w.hist
        /\ DOMAIN v.m = DOMAIN w.m /\ v.m.ma = w.m.ma /\ v.m.connected = w.m.connected /\ v.m.out = w.m.out
    BY <1>1 DEF Shape, ClientShape
  <2> QED BY <1>2, <2>1
<1>4. Noted(w, [w EXCEPT !.m.rc = x, !.m.state = y])
  <2> DEFINE v == [w EXCEPT !.m.rc = x, !.m.state = y]
  <2>1. /\ DOMAIN v = DOMAIN w /\ v.bg = w.bg /\ v.net = w.net /\ v.hist = w.hist
        /\ DOMAIN v.m = DOMAIN w.m /\ v.m.ma = w.m.ma /\ v.m.connected = w.m.connected /\ v.m.out = w.m.out
    BY <1>1 DEF Shape, ClientShape
  <2> QED BY <1>2, <2>1
<1>5. Noted(w, [w EXCEPT !.m.state = y])
  <2> DEFINE v == [w EXCEPT !.m.state = y]
  <2>1. /\ DOMAIN v = DOMAIN w /\ v.bg = w.bg /\ v.net = w.net /\ v.hist = w.hist
        /\ DOMAIN v.m = DOMAIN w.m /\ v.m.ma = w.m.ma /\ v.m.connected = w.m.connected /\ v.m.out = w.m.out
    BY <1>1 DEF Shape, ClientShape
  <2> QED BY <1>2, <2>1
<1>6. Noted(w, [w EXCEPT !.m.queue = x])
  <2> DEFINE v == [w EXCEPT !.m.queue = x]
  <2>1. /\ DOMAIN v = DOMAIN w /\ v.bg = w.bg /\ v.net = w.net /\ v.hist = w.hist
        /\ DOMAIN v.m = DOMAIN w.m /\ v.m.ma = w.m.ma /\ v.m.connected = w.m.connected /\ v.m.out = w.m.out
    BY <1>1 DEF Shape, ClientShape
  <2> QED BY <1>2, <2>1
<1>7. Noted(w, [w EXCEPT !.m.pending = x])
  <2> DEFINE v == [w EXCEPT !.m.pending = x]
  <2>1. /\ DOMAIN v = DOMAIN w /\ v.bg = w.bg /\ v.net = w.net /\ v.hist = w.hist
        /\ DOMAIN v.m = DOMAIN w.m /\ v.m.ma = w.m.ma /\ v.m.connected = w.m.connected /\ v.m.out = w.m.out
    BY <1>1 DEF Shape, ClientShape
  <2> QED BY <1>2, <2>1
<1>8. Noted(w, [w EXCEPT !.m.msgID = x])
  <2> DEFINE v == [w EXCEPT !.m.msgID = x]
  <2>1. /\ DOMAIN v = DOMAIN w /\ v.bg = w.bg /\ v.net = w.net /\ v.hist = w.hist
        /\ DOMAIN v.m = DOMAIN w.m /\ v.m.ma = w.m.ma /\ v.m.connected = w.m.connected /\ v.m.out = w.m.out
    BY <1>1 DEF Shape, ClientShape
  <2> QED BY <1>2, <2>1
<1>9. Noted(w, [w EXCEPT !.m.sem[x] = 0])
  <2> DEFINE v == [w EXCEPT !.m.sem[x] = 0]
  <2>1. /\ DOMAIN v = DOMAIN w /\ v.bg = w.bg /\ v.net = w.net /\ v.hist = w.hist
        /\ DOMAIN v.m = DOMAIN w.m /\ v.m.ma = w.m.ma /\ v.m.connected = w.m.connected /\ v.m.out = w.m.out
    BY <1>1 DEF Shape, ClientShape
  <2> QED BY <1>2, <2>1
<1> QED BY <1>3, <1>4, <1>5, <1>6, <1>7, <1>8, <1>9

LEMMA HandleKeeps ==
  ASSUME NEW w, WorldInv(w), w.bg.pc \in {"handle", "callback"}
  PROVE  Keeps(w, HandlePacket(w))
<1>1. ASSUME NEW v, NEW sem, Keeps(w, v)
      PROVE  Keeps(w, Loop(Post(v, sem)))
  <2>1. WorldInv(v)
    BY <1>1 DEF Keeps, Goes
  <2>2. Keeps(v, Post(v, sem)) /\ WorldInv(Post(v, sem))
    BY <2>1, PostKeeps DEF Keeps, Goes
  <2>3. Keeps(Post(v, sem), Loop(Post(v, sem)))
    BY <2>2, LoopKeeps
  <2> QED BY <1>1, <2>2, <2>3, KeepsTrans
<1>2. CASE SemOfPack(w.bg.pack) # "none"
  <2>1. Keeps(w, [w EXCEPT !.m.pack = w.bg.pack])
    BY ZenonT(60), NoteKeeps DEF Noted
  <2>2. HandlePacket(w) = Loop(Post([w EXCEPT !.m.pack = w.bg.pack], SemOfPack(w.bg.pack)))
    BY <1>2 DEF HandlePacket
  <2> QED BY SMTT(60), <1>1, <2>1, <2>2
<1>3. CASE SemOfPack(w.bg.pack) = "none" /\ w.bg.pack = "DISCONNECT"
  <2>1. CASE w.m.connected /\ w.m.out # {}
    <3> DEFINE v == [w EXCEPT !.bg.pc = "drain", !.m.state = "DISCONNECTING"]
    <3>1. HandlePacket(w) = v
      BY Zenon, <1>3, <2>1 DEF HandlePacket
    <3>2. Shape(w) /\ ThreadOK(w.m, w.bg, w.net, w.hist)
      BY DEF WorldInv
    <3>3. /\ DOMAIN v = DOMAIN w /\ v.net = w.net /\ v.hist = w.hist
          /\ v.m = [w.m EXCEPT !.state = "DISCONNECTING"] /\ v.bg = [w.bg EXCEPT !.pc = "drain"]
      BY <3>2 DEF Shape
    <3> HIDE DEF v
    <3>4. ClientShape(v.m) /\ v.m.ma = w.m.ma /\ v.m.connected = w.m.connected /\ v.m.out = w.m.out
      BY <3>2, <3>3 DEF Shape, ClientShape
    <3>5. ThreadShape(v.bg) /\ v.bg.running = w.bg.running /\ v.bg.tostop = w.bg.tostop /\ v.bg.pc = "drain"
      BY <3>2, <3>3 DEF Shape, ThreadShape
    <3>6. Same(w, v)
      BY <3>2, <3>3, <3>4, <3>5 DEF Same, Shape
    <3>7. ThreadOK(v.m, v.bg, v.net, v.hist)
      BY <2>1, <3>2, <3>3, <3>4, <3>5 DEF ThreadOK, Alive
    <3> QED BY <2>1, <3>1, <3>6, <3>7, SameGoes DEF Keeps
  <2>2. CASE ~(w.m.connected /\ w.m.out # {})
    <3>1. HandlePacket(w) = Disconnected(w)
      BY <1>3, <2>2 DEF HandlePacket, SemOfPack
    <3>2. w.m.connected \/ w.bg.tostop
      BY <1>3 DEF WorldInv, ThreadOK
    <3> QED BY <3>1, <3>2, DisconnectedKeeps
  <2> QED BY <2>1, <2>2
<1>4. CASE SemOfPack(w.bg.pack) = "none" /\ w.bg.pack # "DISCONNECT" /\ w.m.state = "TCP_IN_PROGRESS"
  <2> DEFINE x == IF w.net.tcp = "refused" THEN 1 ELSE 0
             v == [w EXCEPT !.m.rc = x, !.m.state = "NOT_IN_PROGRESS"]
  <2>1. HandlePacket(w) = Loop(Post(v, "connect"))
    BY SMTT(60), <1>4 DEF HandlePacket
  <2> HIDE DEF x
  <2>2. Keeps(w, v)
    BY ZenonT(60), NoteKeeps DEF Noted
  <2> QED BY <1>1, <2>1, <2>2
<1>5. CASE /\ SemOfPack(w.bg.pack) = "none" /\ w.bg.pack # "DISCONNECT" /\ w.m.state # "TCP_IN_PROGRESS"
           /\ w.m.state = "WEBSOCKET_IN_PROGRESS" /\ w.bg.rc # "interrupted"
  <2>1. HandlePacket(w) = Loop(Post([w EXCEPT !.m.state = "WAIT_FOR_CONNACK"], "connect"))
    BY SMTT(60), <1>5 DEF HandlePacket
  <2>2. Keeps(w, [w EXCEPT !.m.state = "WAIT_FOR_CONNACK"])
    BY ZenonT(60), NoteKeeps DEF Noted
  <2> QED BY <1>1, <2>1, <2>2
<1>6. CASE /\ SemOfPack(w.bg.pack) = "none" /\ w.bg.pack # "DISCONNECT" /\ w.m.state # "TCP_IN_PROGRESS"
           /\ ~(w.m.state = "WEBSOCKET_IN_PROGRESS" /\ w.bg.rc # "interrupted")
  <2>1. HandlePacket(w) = Loop(w)
    BY <1>6 DEF HandlePacket
  <2> QED BY <2>1, LoopKeeps
<1> QED BY <1>2, <1>3, <1>4, <1>5, <1>6

\* the connection is found broken: it was up, or there is no thread to stop
LEMMA InternalKeeps ==
  ASSUME NEW w, WorldInv(w), w.m.connected \/ ~w.bg.running \/ w.bg.tostop
  PROVE  LET r == MQTTClient_disconnect_internal(w)
         IN /\ Keeps(w, r) /\ ~r.m.connected
            /\ r.bg.running = w.bg.running /\ r.bg.pc = w.bg.pc /\ (r.bg.running => r.bg.tostop)
<1> DEFINE r == MQTTClient_disconnect_internal(w)
<1>1. /\ Goes(w, r) /\ ~r.m.connected
      /\ r.bg.running = w.bg.running /\ r.bg.pc = w.bg.pc
      /\ r.bg.tostop = (w.bg.tostop \/ (TRUE /\ w.bg.running))
  <2>1. TRUE \in BOOLEAN
    OBVIOUS
  <2> QED BY <2>1, DisconnectGoes DEF MQTTClient_disconnect_internal
<1> HIDE DEF r
<1>2. r.bg.running => r.bg.tostop
  BY <1>1
<1> QED BY <1>1, <1>2 DEF Keeps, Alive, r

(***************************************************************************)
(* MQTTClient_cycle.                                                       *)
(***************************************************************************)
LEMMA AckedKeeps ==
  ASSUME NEW w, NEW id, WorldInv(w)
  PROVE  Keeps(w, Acked(w, id)) /\ Acked(w, id).bg = w.bg
<1> DEFINE gone == {x.msg : x \in {y \in w.m.out : y.id = id}}
           rest == {x \in w.m.out : x.id # id}
           v == Acked(w, id)
<1>1. Shape(w) /\ LossOK(w.m, w.hist) /\ DoneOK(w.m, w.hist) /\ ThreadOK(w.m, w.bg, w.net, w.hist)
  BY DEF WorldInv
<1>2. v = [w EXCEPT !.m.out = rest, !.hist.acked = @ \cup gone]
  BY DEF Acked
<1>3. rest \subseteq w.m.out
  OBVIOUS
<1>4. \A x \in w.m.out : x \in rest \/ x.msg \in gone
  OBVIOUS
<1> HIDE DEF gone, rest, v
<1>5. /\ DOMAIN v = DOMAIN w /\ v.bg = w.bg /\ v.net = w.net
      /\ v.m = [w.m EXCEPT !.out = rest] /\ v.hist = [w.hist EXCEPT !.acked = w.hist.acked \cup gone]
  BY <1>1, <1>2 DEF Shape
<1>6. ClientShape(v.m) /\ v.m.ma = w.m.ma /\ v.m.connected = w.m.connected /\ v.m.out = rest
  BY <1>1, <1>3, <1>5 DEF Shape, ClientShape
<1>7. /\ HistShape(v.hist) /\ v.hist.acked = w.hist.acked \cup gone
      /\ v.hist.conns = w.hist.conns /\ v.hist.ended = w.hist.ended /\ v.hist.discarded = w.hist.discarded
      /\ v.hist.raced = w.hist.raced /\ v.hist.ids = w.hist.ids /\ v.hist.disconnected = w.hist.disconnected
      /\ v.hist.completed = w.hist.completed /\ v.hist.lost = w.hist.lost
  BY <1>1, <1>5 DEF Shape, HistShape
<1>8. Shape(v)
  BY <1>1, <1>5, <1>6, <1>7 DEF Shape
<1>9. LossOK(v.m, v.hist)
  BY <1>1, <1>6, <1>7 DEF LossOK, Over
<1>10. ThreadOK(v.m, v.bg, v.net, v.hist)
  BY <1>1, <1>5, <1>6, <1>7 DEF ThreadOK
<1>11. DoneOK(v.m, v.hist)
  <2>1. v.hist.completed \subseteq v.hist.acked \cup v.hist.discarded
    BY <1>1, <1>7 DEF DoneOK
  <2>2. ASSUME NEW k \in DOMAIN v.hist.ids
        PROVE  k \in v.hist.acked \cup v.hist.discarded \/ \E x \in v.m.out : x.id = v.hist.ids[k] /\ x.msg = k
    <3>1. k \in w.hist.acked \cup w.hist.discarded \/ \E x \in w.m.out : x.id = w.hist.ids[k] /\ x.msg = k
      BY <1>1, <1>7 DEF DoneOK
    <3> QED BY <3>1, <1>4, <1>6, <1>7
  <2> QED BY <2>1, <2>2 DEF DoneOK
<1>12. WorldInv(v)
  BY <1>8, <1>9, <1>10, <1>11 DEF WorldInv
<1> QED BY <1>5, <1>6, <1>7, <1>12 DEF Keeps, Goes, v

\* only what is on the connection changes
LEMMA NetKeeps ==
  ASSUME NEW w, NEW v, WorldInv(w), DOMAIN v = DOMAIN w, v.m = w.m, v.bg = w.bg, v.hist = w.hist, NetShape(v.net),
         \A i \in DOMAIN v.net.in : v.net.in[i].type = "DISCONNECT" => w.m.connected
  PROVE  Keeps(w, v)
<1>1. Same(w, v)
  BY DEF Same, WorldInv, Shape
<1>2. ThreadOK(v.m, v.bg, v.net, v.hist)
  BY DEF WorldInv, ThreadOK
<1>3. Goes(w, v)
  BY <1>1, <1>2, SameGoes
<1> QED BY <1>3 DEF Keeps

LEMMA ReadKeeps ==
  ASSUME NEW w, NEW ackSent, WorldInv(w)
  PROVE  LET r == ReadPacket(w, ackSent)
         IN /\ Keeps(w, r.w) /\ r.w.bg = w.bg
            /\ r = [w |-> r.w, rc |-> r.rc, pack |-> r.pack]
            /\ r.pack = "DISCONNECT" => w.m.connected /\ r.w.m.connected
<1> DEFINE p == Head(w.net.in)
           t == [w EXCEPT !.net.in = Tail(@)]
           r == ReadPacket(w, ackSent)
<1>1. Shape(w) /\ ThreadOK(w.m, w.bg, w.net, w.hist)
  BY DEF WorldInv
<1>2. CASE w.net.in = <<>>
  <2>1. r = [w |-> w, rc |-> IF w.net.eof THEN "error" ELSE "ok", pack |-> NoPack]
    BY <1>2 DEF ReadPacket
  <2> QED BY <2>1, KeepsRefl DEF NoPack
<1>3. CASE w.net.in # <<>>
  <2>1. w.net.in \in Seq(Packets) /\ DOMAIN w.net = {"tcp", "in", "eof", "req", "ws"} /\ w.net.req \in SUBSET Packets
    BY <1>1 DEF Shape, NetShape
  <2>2. /\ Tail(w.net.in) \in Seq(Packets) /\ p \in Packets /\ p = w.net.in[1] /\ 1 \in DOMAIN w.net.in
        /\ \A i \in DOMAIN Tail(w.net.in) : i + 1 \in DOMAIN w.net.in /\ Tail(w.net.in)[i] = w.net.in[i + 1]
    BY <1>3, <2>1
  <2>3. DOMAIN t = DOMAIN w /\ t.m = w.m /\ t.bg = w.bg /\ t.hist = w.hist /\ t.net = [w.net EXCEPT !.in = Tail(w.net.in)]
    BY <1>1 DEF Shape
  <2>4. r = CASE p.type = "PUBACK" -> [w |-> Acked(t, p.id), rc |-> "ok", pack |-> NoPack]
              [] p.type = "PUBLISH" ->
                 [w |-> Protocol_processPublication(t, p.id), rc |-> IF ackSent THEN "ok" ELSE "error", pack |-> NoPack]
              [] OTHER -> [w |-> t, rc |-> "ok", pack |-> p.type]
    BY <1>3 DEF ReadPacket
  <2> HIDE DEF p, t
  <2>5. NetShape(t.net) /\ t.net.in = Tail(w.net.in)
    BY <2>1, <2>2, <2>3 DEF NetShape
  <2>6. \A i \in DOMAIN t.net.in : t.net.in[i].type = "DISCONNECT" => w.m.connected
    BY <1>1, <2>2, <2>5 DEF ThreadOK
  <2>7. Keeps(w, t) /\ WorldInv(t)
    BY <2>3, <2>5, <2>6, NetKeeps DEF Keeps, Goes
  <2>8. CASE p.type = "PUBACK"
    <3>1. r = [w |-> Acked(t, p.id), rc |-> "ok", pack |-> NoPack]
      BY <2>4, <2>8
    <3>2. Keeps(t, Acked(t, p.id)) /\ Acked(t, p.id).bg = t.bg
      BY <2>7, AckedKeeps
    <3> QED BY <2>3, <2>7, <3>1, <3>2, KeepsTrans DEF NoPack
  <2>9. CASE p.type = "PUBLISH"
    <3> DEFINE u == Protocol_processPublication(t, p.id)
    <3>1. r = [w |-> u, rc |-> IF ackSent THEN "ok" ELSE "error", pack |-> NoPack]
      BY <2>4, <2>9
    <3>2. Noted(t, u)
      BY <2>7, NoteKeeps DEF Protocol_processPublication
    <3> HIDE DEF u
    <3> QED BY <2>3, <2>7, <3>1, <3>2, KeepsTrans DEF NoPack, Noted
  <2>10. CASE p.type # "PUBACK" /\ p.type # "PUBLISH"
    <3>1. r = [w |-> t, rc |-> "ok", pack |-> p.type]
      BY <2>4, <2>10
    <3>2. p.type = "DISCONNECT" => w.m.connected
      BY <1>1, <2>2 DEF ThreadOK
    <3> QED BY <2>3, <2>7, <3>1, <3>2
  <2> QED BY <2>8, <2>9, <2>10
<1> QED BY <1>2, <1>3

LEMMA CycleKeeps ==
  ASSUME NEW w, NEW sock, NEW ackSent, NEW keepalive, WorldInv(w)
  PROVE  LET r == MQTTClient_cycle(w, sock, ackSent, keepalive)
         IN /\ Keeps(w, r.w)
            /\ r.w.bg.running = w.bg.running /\ r.w.bg.pc = w.bg.pc /\ (w.bg.tostop => r.w.bg.tostop)
            /\ r.pack = "DISCONNECT" => r.w.m.connected \/ ~r.w.bg.running \/ r.w.bg.tostop
<1> DEFINE q == IF ~sock \/ ~w.m.open \/ w.m.state = "TCP_IN_PROGRESS" THEN [w |-> w, rc |-> "ok", pack |-> NoPack]
                ELSE IF w.m.state = "WEBSOCKET_IN_PROGRESS"
                THEN [w |-> IF WebSocket_upgrade(w) = "interrupted" THEN w ELSE [w EXCEPT !.net.ws = "none"],
                      rc |-> WebSocket_upgrade(w), pack |-> NoPack]
                ELSE ReadPacket(w, ackSent)
           r == MQTTClient_cycle(w, sock, ackSent, keepalive)
<1>1. Shape(w) /\ ThreadOK(w.m, w.bg, w.net, w.hist)
  BY DEF WorldInv
<1>2. r = [q EXCEPT !.w = MQTTProtocol_keepalive(q.w, keepalive)]
  BY DEF MQTTClient_cycle
<1>3. /\ Keeps(w, q.w) /\ q.w.bg = w.bg /\ q = [w |-> q.w, rc |-> q.rc, pack |-> q.pack]
      /\ q.pack = "DISCONNECT" => q.w.m.connected
  <2>1. CASE ~sock \/ ~w.m.open \/ w.m.state = "TCP_IN_PROGRESS"
    <3>1. q = [w |-> w, rc |-> "ok", pack |-> NoPack]
      BY <2>1
    <3> HIDE DEF q
    <3> QED BY <3>1, KeepsRefl DEF NoPack
  <2>2. CASE ~(~sock \/ ~w.m.open \/ w.m.state = "TCP_IN_PROGRESS") /\ w.m.state = "WEBSOCKET_IN_PROGRESS"
    <3> DEFINE a == [w EXCEPT !.net.ws = "none"]
               u == IF WebSocket_upgrade(w) = "interrupted" THEN w ELSE a
    <3>1. q = [w |-> u, rc |-> WebSocket_upgrade(w), pack |-> NoPack]
      BY <2>2
    <3>2. DOMAIN a = DOMAIN w /\ a.m = w.m /\ a.bg = w.bg /\ a.hist = w.hist /\ a.net = [w.net EXCEPT !.ws = "none"]
      BY <1>1 DEF Shape
    <3> HIDE DEF a, q
    <3>3. NetShape(a.net) /\ a.net.in = w.net.in
      BY <1>1, <3>2 DEF Shape, NetShape
    <3>4. \A i \in DOMAIN a.net.in : a.net.in[i].type = "DISCONNECT" => w.m.connected
      BY <1>1, <3>3 DEF ThreadOK
    <3>5. Keeps(w, a)
      BY <3>2, <3>3, <3>4, NetKeeps
    <3>6. Keeps(w, u) /\ u.bg = w.bg
      BY <3>2, <3>5, KeepsRefl
    <3> HIDE DEF u
    <3> QED BY <3>1, <3>6 DEF NoPack
  <2>3. CASE ~(~sock \/ ~w.m.open \/ w.m.state = "TCP_IN_PROGRESS") /\ w.m.state # "WEBSOCKET_IN_PROGRESS"
    <3>1. q = ReadPacket(w, ackSent)
      BY <2>3
    <3> HIDE DEF q
    <3> QED BY <3>1, ReadKeeps
  <2> QED BY <2>1, <2>2, <2>3
<1> HIDE DEF q
<1>4. r.w = MQTTProtocol_keepalive(q.w, keepalive) /\ r.pack = q.pack
  BY <1>2, <1>3
<1> HIDE DEF r
<1>5. WorldInv(q.w)
  BY <1>3 DEF Keeps, Goes
<1>6. CASE keepalive /\ q.w.m.connected
  <2>1. r.w = MQTTClient_disconnect_internal(q.w)
    BY <1>4, <1>6 DEF MQTTProtocol_keepalive
  <2>2. /\ Keeps(q.w, r.w) /\ r.w.bg.running = q.w.bg.running /\ r.w.bg.pc = q.w.bg.pc
        /\ (r.w.bg.running => r.w.bg.tostop)
    BY <1>5, <1>6, <2>1, InternalKeeps
  <2>3. Keeps(w, r.w)
    BY <1>3, <2>2, KeepsTrans
  <2>4. w.bg.tostop => w.bg.running
    BY <1>1 DEF ThreadOK
  <2> QED BY <1>3, <2>2, <2>3, <2>4 DEF r
<1>7. CASE ~(keepalive /\ q.w.m.connected)
  <2>1. r.w = q.w
    BY <1>4, <1>7 DEF MQTTProtocol_keepalive
  <2> QED BY <1>3, <1>4, <2>1 DEF r
<1> QED BY <1>6, <1>7

LEMMA YieldKeeps ==
  ASSUME NEW ackSent, NEW keepalive, NEW wrote, WorldInv(World)
  PROVE  Keeps(World, Yielded(ackSent, keepalive, wrote))
<1> DEFINE x == World.m.pending /\ ~wrote
           w == [World EXCEPT !.m.pending = x]
           r == MQTTClient_cycle(w, Ready(w), ackSent, keepalive)
           y == Yielded(ackSent, keepalive, wrote)
<1>1. World.bg = bg
  BY DEF World
<1>2. /\ bg.running => y = World
      /\ ~bg.running => y = IF r.rc = "error" /\ r.w.m.open /\ r.w.m.state # "DISCONNECTING"
                            THEN MQTTClient_disconnect_internal(r.w) ELSE r.w
  BY DEF Yielded
<1> HIDE DEF x, y
<1>3. Keeps(World, w) /\ WorldInv(w) /\ w.bg = bg
  <2>1. Noted(World, w)
    BY NoteKeeps
  <2> HIDE DEF w
  <2> QED BY SMTT(60), <1>1, <2>1 DEF Noted, Keeps, Goes
<1> HIDE DEF w
<1>4. Keeps(w, r.w) /\ WorldInv(r.w) /\ r.w.bg.running = w.bg.running
  BY <1>3, CycleKeeps DEF Keeps, Goes
<1> HIDE DEF r
<1>5. Keeps(World, r.w)
  BY <1>3, <1>4, KeepsTrans
<1>6. ~bg.running => Keeps(r.w, MQTTClient_disconnect_internal(r.w))
  BY <1>3, <1>4, InternalKeeps
<1>7. ~bg.running => Keeps(World, MQTTClient_disconnect_internal(r.w))
  BY <1>5, <1>6, KeepsTrans
<1>8. Keeps(World, World)
  BY KeepsRefl
<1>9. Keeps(World, y)
  BY <1>2, <1>5, <1>7, <1>8
<1> QED BY <1>9 DEF y

(***************************************************************************)
(* Steps of the specification, in terms of worlds.                         *)
(***************************************************************************)
LEMMA WorldFields ==
  /\ World.m = m /\ World.bg = bg /\ World.net = net /\ World.hist = hist
  /\ DOMAIN World = {"m", "bg", "net", "hist"}
BY DEF World

LEMMA BecomesInv ==
  ASSUME NEW w, NEW c, WorldInv(w), CallOK(w, c), Becomes(w)
  PROVE  WorldInv(World)' /\ CallOK(World', c)
<1>1. /\ World'.m = w.m /\ World'.bg = w.bg /\ World'.net = w.net /\ World'.hist = w.hist
      /\ DOMAIN World' = {"m", "bg", "net", "hist"}
  BY DEF World, Becomes
<1> DEFINE v == World'
<1>2. v.m = w.m /\ v.bg = w.bg /\ v.net = w.net /\ v.hist = w.hist /\ DOMAIN v = {"m", "bg", "net", "hist"}
  BY <1>1
<1> HIDE DEF v
<1>3. WorldInv(v) /\ CallOK(v, c)
  BY <1>2 DEF WorldInv, Shape, CallOK
<1>4. WorldInv(World') <=> WorldInv(World)'
  BY DEF WorldInv, Shape, LossOK, DoneOK, ThreadOK, ClientShape, ThreadShape, NetShape, HistShape, Alive, Over
<1> QED BY <1>3, <1>4 DEF v

\* the call that is under way stays what it is
LEMMA KeepsCall ==
  ASSUME NEW w, NEW v, NEW c, CallOK(w, c), Keeps(w, v)
  PROVE  CallOK(v, c)
BY DEF CallOK, Keeps, Goes

LEMMA KeepsStep ==
  ASSUME SyncInv, NEW v, Keeps(World, v), Becomes(v), UNCHANGED call, left' \in [Calls -> Nat]
  PROVE  SyncInv'
<1>1. WorldInv(v) /\ CallOK(v, call)
  BY KeepsCall DEF SyncInv, Keeps, Goes
<1>2. WorldInv(World)' /\ CallOK(World', call)
  BY <1>1, BecomesInv
<1>3. CallOK(World, call)' /\ CallShape(call)'
  BY <1>2 DEF SyncInv, CallOK, CallShape, Alive
<1> QED BY <1>2, <1>3 DEF SyncInv

\* what a call may return
Result(r) ==
  /\ {"w", "call"} \subseteq DOMAIN r
  /\ WorldInv(r.w) /\ CallShape(r.call) /\ CallOK(r.w, r.call)

LEMMA ResultStep ==
  ASSUME NEW r, Result(r), Does(r), left' \in [Calls -> Nat]
  PROVE  SyncInv'
<1>1. WorldInv(World)' /\ CallOK(World', r.call)
  BY BecomesInv DEF Result, Does
<1>2. CallOK(World, call)' /\ CallShape(call)'
  BY <1>1 DEF Result, Does, CallOK, CallShape, Alive
<1> QED BY <1>1, <1>2 DEF SyncInv

(***************************************************************************)
(* The background thread.                                                  *)
(***************************************************************************)
LEMMA SelectStep ==
  ASSUME SyncInv, NEW wrote \in BOOLEAN, RunSelect(wrote)
  PROVE  SyncInv'
<1> DEFINE x == World.m.pending /\ ~wrote
           w == [World EXCEPT !.m.pending = x]
           y == Ready(w)
           v == [w EXCEPT !.bg.pc = "cycle", !.bg.sock = y]
<1>1. Becomes(v) /\ bg.pc = "select" /\ UNCHANGED <<call, left>>
  BY DEF RunSelect
<1>2. WorldInv(World)
  BY DEF SyncInv
<1> HIDE DEF x, y
<1>3. Noted(World, w)
  BY <1>2, NoteKeeps
<1> HIDE DEF w
<1>4. Keeps(World, w) /\ WorldInv(w) /\ w.bg.pc = "select"
  BY <1>1, <1>3, WorldFields DEF Noted, Keeps, Goes
<1>5. Shape(w) /\ ThreadOK(w.m, w.bg, w.net, w.hist)
  BY <1>4 DEF WorldInv
<1>6. /\ DOMAIN v = DOMAIN w /\ v.m = w.m /\ v.net = w.net /\ v.hist = w.hist
      /\ v.bg = [w.bg EXCEPT !.pc = "cycle", !.sock = y]
  BY <1>5 DEF Shape
<1> HIDE DEF v
<1>7. ThreadShape(v.bg) /\ v.bg.running = w.bg.running /\ v.bg.tostop = w.bg.tostop /\ v.bg.pc = "cycle"
  BY <1>5, <1>6 DEF Shape, ThreadShape
<1>8. ThreadOK(v.m, v.bg, v.net, v.hist) /\ (Alive(w.bg) => Alive(v.bg))
  BY <1>4, <1>5, <1>6, <1>7 DEF ThreadOK, Alive
<1>9. Keeps(w, v)
  BY <1>4, <1>6, <1>7, <1>8, ThreadKeeps
<1>10. Keeps(World, v)
  BY <1>4, <1>9, KeepsTrans
<1> QED BY <1>1, <1>10, KeepsStep DEF SyncInv

LEMMA CycleStep ==
  ASSUME SyncInv, NEW ackSent \in BOOLEAN, NEW keepalive \in BOOLEAN, RunCycle(ackSent, keepalive)
  PROVE  SyncInv'
<1> DEFINE r == MQTTClient_cycle(World, bg.sock, ackSent, keepalive)
           w == r.w
           v == [w EXCEPT !.bg.pc = "handle", !.bg.rc = r.rc, !.bg.pack = r.pack]
<1>1. Becomes(v) /\ bg.pc = "cycle" /\ UNCHANGED <<call, left>>
  BY DEF RunCycle
<1>2. WorldInv(World) /\ World.bg = bg
  BY WorldFields DEF SyncInv
<1>3. /\ Keeps(World, w) /\ w.bg.running = bg.running /\ w.bg.pc = bg.pc
      /\ r.pack = "DISCONNECT" => w.m.connected \/ ~w.bg.running \/ w.bg.tostop
  BY <1>2, CycleKeeps
<1> DEFINE p == r.pack
           c == r.rc
<1> HIDE DEF w, p, c
<1>4. WorldInv(w)
  BY <1>3 DEF Keeps, Goes
<1>5. Shape(w) /\ ThreadOK(w.m, w.bg, w.net, w.hist)
  BY <1>4 DEF WorldInv
<1>6. /\ DOMAIN v = DOMAIN w /\ v.m = w.m /\ v.net = w.net /\ v.hist = w.hist
      /\ v.bg = [w.bg EXCEPT !.pc = "handle", !.rc = c, !.pack = p]
  BY <1>5 DEF Shape, c, p
<1>7. p = "DISCONNECT" => w.m.connected \/ ~w.bg.running \/ w.bg.tostop
  BY <1>3 DEF p
<1> HIDE DEF v, r
<1>8. ThreadShape(v.bg) /\ v.bg.running = w.bg.running /\ v.bg.tostop = w.bg.tostop /\ v.bg.pc = "handle" /\ v.bg.pack = p
  BY <1>5, <1>6 DEF Shape, ThreadShape
<1>9. ThreadOK(v.m, v.bg, v.net, v.hist) /\ (Alive(w.bg) => Alive(v.bg))
  BY <1>1, <1>3, <1>5, <1>6, <1>7, <1>8 DEF ThreadOK, Alive
<1>10. Keeps(w, v)
  BY <1>4, <1>6, <1>8, <1>9, ThreadKeeps
<1>11. Keeps(World, v)
  BY <1>3, <1>10, KeepsTrans
<1> QED BY <1>1, <1>11, KeepsStep DEF SyncInv

LEMMA HandleStep ==
  ASSUME SyncInv, RunHandle
  PROVE  SyncInv'
<1> DEFINE v == IF bg.tostop THEN Exit(World)
                ELSE IF bg.sock # m.open THEN Loop(World)
                ELSE IF bg.rc = "error"
                     THEN IF m.connected THEN Loop(MQTTClient_disconnect_internal(World))
                          ELSE IF m.state = "WAIT_FOR_CONNACK"
                               THEN Loop(Post([World EXCEPT !.m.state = "NOT_IN_PROGRESS"], "connack"))
                               ELSE Loop(World)
                ELSE IF m.queue # <<>> THEN [World EXCEPT !.bg.pc = "callback", !.bg.qe = Head(m.queue)]
                ELSE HandlePacket(World)
<1>1. Becomes(v) /\ bg.pc = "handle" /\ UNCHANGED <<call, left>>
  BY DEF RunHandle
<1>2. WorldInv(World) /\ World.bg = bg /\ World.m = m
  BY WorldFields DEF SyncInv
<1>3. bg.tostop => Keeps(World, Exit(World))
  BY <1>2, ExitKeeps
<1>4. Keeps(World, Loop(World))
  BY <1>2, LoopKeeps
<1>5. m.connected => Keeps(World, Loop(MQTTClient_disconnect_internal(World)))
  <2>1. m.connected => Keeps(World, MQTTClient_disconnect_internal(World))
    BY <1>2, InternalKeeps
  <2>2. m.connected => Keeps(MQTTClient_disconnect_internal(World), Loop(MQTTClient_disconnect_internal(World)))
    BY <2>1, LoopKeeps DEF Keeps, Goes
  <2> QED BY <2>1, <2>2, KeepsTrans
<1>6. Keeps(World, Loop(Post([World EXCEPT !.m.state = "NOT_IN_PROGRESS"], "connack")))
  <2> DEFINE u == [World EXCEPT !.m.state = "NOT_IN_PROGRESS"]
  <2>1. Noted(World, u)
    BY <1>2, NoteKeeps
  <2> HIDE DEF u
  <2>2. Keeps(World, u) /\ WorldInv(u)
    BY <2>1 DEF Noted, Keeps, Goes
  <2>3. Keeps(u, Post(u, "connack")) /\ WorldInv(Post(u, "connack"))
    BY <2>2, PostKeeps DEF Keeps, Goes
  <2>4. Keeps(Post(u, "connack"), Loop(Post(u, "connack")))
    BY <2>3, LoopKeeps
  <2>5. Keeps(World, Loop(Post(u, "connack")))
    BY <2>2, <2>3, <2>4, KeepsTrans
  <2> QED BY <2>5 DEF u
<1>7. Keeps(World, [World EXCEPT !.bg.pc = "callback", !.bg.qe = Head(m.queue)])
  <2> DEFINE q == Head(m.queue)
             w == World
             u == [w EXCEPT !.bg.pc = "callback", !.bg.qe = q]
  <2> HIDE DEF q
  <2>1. WorldInv(w) /\ w.bg.pc = "handle"
    BY <1>1, <1>2
  <2> HIDE DEF w
  <2>2. Shape(w) /\ ThreadOK(w.m, w.bg, w.net, w.hist)
    BY <2>1 DEF WorldInv
  <2>3. /\ DOMAIN u = DOMAIN w /\ u.m = w.m /\ u.net = w.net /\ u.hist = w.hist
        /\ u.bg = [w.bg EXCEPT !.pc = "callback", !.qe = q]
    BY <2>2 DEF Shape
  <2> HIDE DEF u
  <2>4. /\ ThreadShape(u.bg) /\ u.bg.running = w.bg.running /\ u.bg.tostop = w.bg.tostop /\ u.bg.pc = "callback"
        /\ u.bg.pack = w.bg.pack
    BY <2>2, <2>3 DEF Shape, ThreadShape
  <2>5. ThreadOK(u.m, u.bg, u.net, u.hist) /\ (Alive(w.bg) => Alive(u.bg))
    BY <2>1, <2>2, <2>3, <2>4 DEF ThreadOK, Alive
  <2>6. Keeps(w, u)
    BY <2>1, <2>3, <2>4, <2>5, ThreadKeeps
  <2> QED BY <2>6 DEF u, w, q
<1>8. Keeps(World, HandlePacket(World))
  BY <1>1, <1>2, HandleKeeps
<1>9. Keeps(World, v)
  BY <1>3, <1>4, <1>5, <1>6, <1>7, <1>8
<1> HIDE DEF v
<1> QED BY <1>1, <1>9, KeepsStep DEF SyncInv

LEMMA CallbackStep ==
  ASSUME SyncInv, NEW taken \in BOOLEAN, RunCallback(taken)
  PROVE  SyncInv'
<1> DEFINE z == World
           w == [z EXCEPT !.bg.rc = "ok"]
           x == SelectSeq(w.m.queue, LAMBDA q : q # bg.qe)
           u == IF taken THEN [w EXCEPT !.m.queue = x] ELSE w
<1>1. Becomes(HandlePacket(u)) /\ bg.pc = "callback" /\ UNCHANGED <<call, left>>
  BY DEF RunCallback
<1>2. WorldInv(z) /\ z.bg = bg
  BY WorldFields DEF SyncInv
<1> HIDE DEF z, x
<1>3. Keeps(z, w) /\ WorldInv(w) /\ w.bg.pc = "callback"
  <2>1. Shape(z) /\ ThreadOK(z.m, z.bg, z.net, z.hist)
    BY <1>2 DEF WorldInv
  <2>2. /\ DOMAIN w = DOMAIN z /\ w.m = z.m /\ w.net = z.net /\ w.hist = z.hist
        /\ w.bg = [z.bg EXCEPT !.rc = "ok"]
    BY <2>1 DEF Shape
  <2> HIDE DEF w
  <2>3. /\ ThreadShape(w.bg) /\ w.bg.running = z.bg.running /\ w.bg.tostop = z.bg.tostop /\ w.bg.pc = z.bg.pc
        /\ w.bg.pack = z.bg.pack
    BY <2>1, <2>2 DEF Shape, ThreadShape
  <2>4. ThreadOK(w.m, w.bg, w.net, w.hist) /\ (Alive(z.bg) => Alive(w.bg))
    BY <2>1, <2>2, <2>3 DEF ThreadOK, Alive
  <2>5. Keeps(z, w)
    BY <1>2, <2>2, <2>3, <2>4, ThreadKeeps
  <2> QED BY <1>1, <1>2, <2>3, <2>5 DEF Keeps, Goes
<1> HIDE DEF w
<1>4. Keeps(w, u) /\ WorldInv(u) /\ u.bg.pc = "callback"
  <2>1. Noted(w, [w EXCEPT !.m.queue = x])
    BY <1>3, NoteKeeps
  <2>2. CASE taken
    BY <1>3, <2>1, <2>2 DEF Noted, Keeps, Goes
  <2>3. CASE ~taken
    BY <1>3, <2>3, KeepsRefl
  <2> QED BY <2>2, <2>3
<1> HIDE DEF u
<1>5. Keeps(u, HandlePacket(u))
  BY <1>4, HandleKeeps
<1>6. Keeps(World, HandlePacket(u))
  BY <1>3, <1>4, <1>5, KeepsTrans DEF z
<1> QED BY <1>1, <1>6, KeepsStep DEF SyncInv

LEMMA RunStep ==
  ASSUME SyncInv, RunNext
  PROVE  SyncInv'
<1>1. ASSUME RunDrained
      PROVE  SyncInv'
  <2>1. WorldInv(World) /\ World.bg = bg /\ World.m = m
    BY WorldFields DEF SyncInv
  <2>2. m.connected \/ bg.tostop
    BY <1>1, WorldFields DEF SyncInv, WorldInv, ThreadOK, RunDrained
  <2>3. Keeps(World, Disconnected(World))
    BY <2>1, <2>2, DisconnectedKeeps
  <2> QED BY <1>1, <2>3, KeepsStep DEF RunDrained, SyncInv
<1> QED BY <1>1, SelectStep, CycleStep, HandleStep, CallbackStep DEF RunNext

(***************************************************************************)
(* The network and the server.                                             *)
(***************************************************************************)
LEMMA NetStep ==
  ASSUME SyncInv, NetNext
  PROVE  SyncInv'
<1>1. WorldInv(World) /\ NetShape(net) /\ ThreadOK(m, bg, net, hist)
  BY WorldFields DEF SyncInv, WorldInv, Shape
<1>2. ASSUME NetShape(net'), UNCHANGED <<m, bg, call, hist>>, left' \in [Calls -> Nat],
             \A i \in DOMAIN net'.in : net'.in[i].type = "DISCONNECT" => m.connected
      PROVE  SyncInv'
  <2> DEFINE v == [m |-> m, bg |-> bg, net |-> net', hist |-> hist]
  <2>1. v.m = m /\ v.bg = bg /\ v.net = net' /\ v.hist = hist /\ DOMAIN v = {"m", "bg", "net", "hist"}
    OBVIOUS
  <2> HIDE DEF v
  <2>2. Keeps(World, v)
    BY <1>1, <1>2, <2>1, WorldFields, NetKeeps
  <2>3. Becomes(v)
    BY <1>2, <2>1 DEF Becomes
  <2> QED BY <1>2, <2>2, <2>3, KeepsStep
<1>3. left \in [Calls -> Nat]
  BY DEF SyncInv
<1>4. /\ DOMAIN net = {"tcp", "in", "eof", "req", "ws"} /\ net.in \in Seq(Packets) /\ net.req \in SUBSET Packets
      /\ \A i \in DOMAIN net.in : net.in[i].type = "DISCONNECT" => m.connected
  BY <1>1 DEF NetShape, ThreadOK
<1>5. ASSUME NEW x \in Packets, x.type = "DISCONNECT" => m.connected
      PROVE  LET in == Append(net.in, x)
             IN in \in Seq(Packets) /\ \A i \in DOMAIN in : in[i].type = "DISCONNECT" => m.connected
  BY <1>4, <1>5
<1>6. ASSUME NEW result, Tcp(result) \/ Upgrade(result)
      PROVE  SyncInv'
  <2>1. NetShape(net') /\ net'.in = net.in
    BY <1>4, <1>6 DEF NetShape, Tcp, Upgrade
  <2> QED BY <1>2, <1>3, <1>4, <1>6, <2>1 DEF Tcp, Upgrade
<1>7. ASSUME NEW r \in net.req, NEW type \in AnswersTo(r.type), Answer(r, type)
      PROVE  SyncInv'
  <2> DEFINE x == [type |-> type, id |-> r.id]
  <2>1. type \in Types /\ type # "DISCONNECT"
    BY DEF AnswersTo, Types
  <2>a. r \in Packets
    BY <1>4
  <2>b. r.id \in Nat
    BY <2>a DEF Packets
  <2>c. x \in Packets /\ x.type # "DISCONNECT"
    BY <2>1, <2>b DEF Packets
  <2>2. net' = [net EXCEPT !.req = @ \ {r}, !.in = Append(net.in, x)] /\ UNCHANGED <<m, bg, call, hist, left>>
    BY <1>7 DEF Answer
  <2> HIDE DEF x
  <2>3. NetShape(net') /\ net'.in = Append(net.in, x)
    BY <1>4, <1>5, <2>c, <2>2 DEF NetShape
  <2> QED BY <1>2, <1>3, <1>5, <2>c, <2>2, <2>3
<1>8. ASSUME ServerPublishes
      PROVE  SyncInv'
  <2> DEFINE x == [type |-> "PUBLISH", id |-> left["arrive"]]
  <2>1. x \in Packets /\ x.type # "DISCONNECT" /\ "arrive" \in Calls
    BY <1>3 DEF Packets, Types, Calls
  <2>2. net' = [net EXCEPT !.in = Append(net.in, x)] /\ UNCHANGED <<m, bg, call, hist>>
    BY <1>8 DEF ServerPublishes
  <2>3. left' \in [Calls -> Nat]
    BY <1>3, <1>8, <2>1 DEF ServerPublishes
  <2> HIDE DEF x
  <2>4. NetShape(net') /\ net'.in = Append(net.in, x)
    BY <1>4, <1>5, <2>1, <2>2 DEF NetShape
  <2> QED BY <1>2, <1>5, <2>1, <2>2, <2>3, <2>4
<1>9. ASSUME NEW says \in BOOLEAN, ServerCloses(says)
      PROVE  SyncInv'
  <2> DEFINE x == [type |-> "DISCONNECT", id |-> 0]
  <2>1. x \in Packets /\ (says => m.connected)
    BY <1>9 DEF Packets, Types, ServerCloses
  <2>2. net' = [net EXCEPT !.eof = TRUE, !.in = IF says THEN Append(net.in, x) ELSE net.in] /\ UNCHANGED <<m, bg, call, hist, left>>
    BY <1>9 DEF ServerCloses
  <2> HIDE DEF x
  <2>3. CASE says
    <3>1. NetShape(net') /\ net'.in = Append(net.in, x)
      BY <1>4, <1>5, <2>1, <2>2, <2>3 DEF NetShape
    <3> QED BY <1>2, <1>3, <1>5, <2>1, <2>2, <2>3, <3>1
  <2>4. CASE ~says
    <3>1. NetShape(net') /\ net'.in = net.in
      BY <1>4, <2>2, <2>4 DEF NetShape
    <3> QED BY <1>2, <1>3, <1>4, <2>2, <3>1
  <2> QED BY <2>3, <2>4
<1> QED BY <1>6, <1>7, <1>8, <1>9 DEF NetNext

(***************************************************************************)
(* Results of calls.                                                       *)
(***************************************************************************)
LEMMA IdleShape == CallShape(Idle) /\ Idle.name = "none" /\ Idle.pc = "none" /\ Idle.what = "none" /\ Idle.late = FALSE
BY DEF CallShape, Idle

LEMMA ReturnedResult ==
  ASSUME NEW w, WorldInv(w)
  PROVE  Result(Returned(w))
<1>1. DOMAIN Returned(w) = {"w", "call"} /\ Returned(w).w = w /\ Returned(w).call = Idle
  BY DEF Returned
<1>2. CallOK(w, Idle)
  BY IdleShape DEF CallOK
<1> QED BY <1>1, <1>2, IdleShape DEF Result

\* a result in which nothing is connected, and a call that waits has a thread, or is the exception
Unconnected(r) ==
  /\ {"w", "call"} \subseteq DOMAIN r
  /\ WorldInv(r.w) /\ CallShape(r.call)
  /\ ~r.w.m.connected
  /\ r.call.pc = "wait" /\ r.w.m.ma => Alive(r.w.bg) \/ r.w.hist.conns + 1 \in r.w.hist.raced
  /\ r.call.pc # "completing" /\ r.call.what # "resend"

LEMMA UnconnectedResult ==
  ASSUME NEW r, Unconnected(r)
  PROVE  Result(r)
BY DEF Unconnected, Result, CallOK

LEMMA NamedConnect ==
  ASSUME NEW r, Unconnected(r)
  PROVE  Result(Named("connect", r))
<1>1. CASE r.call = Idle
  BY <1>1, UnconnectedResult DEF Named
<1>2. CASE r.call # Idle
  <2> DEFINE n == [r EXCEPT !.call.name = "connect"]
  <2>1. DOMAIN n = DOMAIN r /\ n.w = r.w /\ n.call = [r.call EXCEPT !.name = "connect"]
    BY DEF Unconnected
  <2>2. Named("connect", r) = n
    BY <1>2 DEF Named
  <2> HIDE DEF n
  <2>3. CallShape(n.call) /\ n.call.pc = r.call.pc /\ n.call.what = r.call.what /\ n.call.name = "connect"
    BY <2>1 DEF Unconnected, CallShape
  <2>4. Result(n)
    BY <2>1, <2>3 DEF Unconnected, Result, CallOK
  <2> QED BY <2>2, <2>4
<1> QED BY <1>1, <1>2

\* any other call
LEMMA NamedOther ==
  ASSUME NEW r, NEW name, Result(r), name # "connect", r.call.what # "resend"
  PROVE  Result(Named(name, r))
<1>1. CASE r.call = Idle
  BY <1>1 DEF Named
<1>2. CASE r.call # Idle
  <2> DEFINE n == [r EXCEPT !.call.name = name]
  <2>1. DOMAIN n = DOMAIN r /\ n.w = r.w /\ n.call = [r.call EXCEPT !.name = name]
    BY DEF Result
  <2>2. Named(name, r) = n
    BY <1>2 DEF Named
  <2> HIDE DEF n
  <2>3. /\ CallShape(n.call) /\ n.call.pc = r.call.pc /\ n.call.what = r.call.what /\ n.call.name = name
        /\ n.call.msg = r.call.msg
    BY <2>1 DEF Result, CallShape
  <2>4. Result(n)
    BY <2>1, <2>3 DEF Result, CallOK
  <2> QED BY <2>2, <2>4
<1> QED BY <1>1, <1>2

LEMMA StoppedResult ==
  ASSUME NEW before, NEW w, WorldInv(w), ~w.m.connected
  PROVE  LET r == Stopped(before, w)
         IN /\ Unconnected(r) /\ r.w = w /\ DOMAIN r = {"w", "call"}
            /\ r.call = Idle => ~(w.bg.tostop /\ ~before.bg.tostop)
            /\ r.call # Idle => r.call.name = call.name /\ r.call.pc = "stopping"
<1> DEFINE r == Stopped(before, w)
<1>1. CASE w.bg.tostop /\ ~before.bg.tostop
  <2> DEFINE c == [Idle EXCEPT !.name = call.name, !.pc = "stopping"]
  <2>1. r = [w |-> w, call |-> c]
    BY <1>1 DEF Stopped
  <2>2. CallShape(c) /\ c.name = call.name /\ c.pc = "stopping" /\ c.what = "none" /\ c # Idle
    BY IdleShape DEF CallShape
  <2> HIDE DEF c, r
  <2>3. r.w = w /\ r.call = c /\ DOMAIN r = {"w", "call"}
    BY <2>1
  <2> QED BY <2>2, <2>3 DEF Unconnected, r
<1>2. CASE ~(w.bg.tostop /\ ~before.bg.tostop)
  <2>1. r = [w |-> w, call |-> Idle]
    BY <1>2 DEF Stopped, Returned
  <2> HIDE DEF r
  <2>2. r.w = w /\ r.call = Idle /\ DOMAIN r = {"w", "call"}
    BY <2>1
  <2> QED BY <1>2, <2>2, IdleShape DEF Unconnected, r
<1> QED BY <1>1, <1>2

LEMMA LostResult ==
  ASSUME NEW w, WorldInv(w)
  PROVE  LET r == Lost(w)
         IN /\ Unconnected(r) /\ DOMAIN r = {"w", "call"}
            /\ r.w.hist.conns = w.hist.conns /\ r.w.hist.raced = w.hist.raced /\ r.w.m.ma = w.m.ma
            /\ r.call = Idle => ~Alive(w.bg)
            /\ r.call # Idle => r.call.name = call.name /\ r.call.pc = "stopping"
<1> DEFINE v == MQTTClient_disconnect_internal(w)
           r == Lost(w)
<1>1. /\ Goes(w, v) /\ ~v.m.connected
      /\ v.bg.tostop = (w.bg.tostop \/ (TRUE /\ w.bg.running))
  <2>1. TRUE \in BOOLEAN
    OBVIOUS
  <2> QED BY <2>1, DisconnectGoes DEF MQTTClient_disconnect_internal
<1>2. r = Stopped(w, v)
  BY DEF Lost
<1> HIDE DEF v, r
<1>3. WorldInv(v)
  BY <1>1 DEF Goes
<1>4. /\ Unconnected(r) /\ r.w = v /\ DOMAIN r = {"w", "call"}
      /\ r.call = Idle => ~(v.bg.tostop /\ ~w.bg.tostop)
      /\ r.call # Idle => r.call.name = call.name /\ r.call.pc = "stopping"
  BY <1>1, <1>2, <1>3, StoppedResult
<1>5. r.call = Idle => ~Alive(w.bg)
  BY <1>1, <1>4 DEF Alive
<1> QED BY <1>1, <1>4, <1>5 DEF Goes, r

(***************************************************************************)
(* Connecting.                                                             *)
(***************************************************************************)
\* a thread that will serve the next connection is there or will be started, unless the exception applies
Servable(w) == w.m.ma => Alive(w.bg) \/ ~w.bg.running \/ w.hist.conns + 1 \in w.hist.raced

LEMMA StartKeeps ==
  ASSUME NEW w, WorldInv(w)
  PROVE  /\ Keeps(w, StartThread(w)) /\ StartThread(w).m = w.m
         /\ w.m.ma /\ ~w.bg.running => Alive(StartThread(w).bg)
<1>1. CASE w.m.ma /\ ~w.bg.running
  <2> DEFINE b == [Off EXCEPT !.running = TRUE, !.pc = "select"]
             v == [w EXCEPT !.bg = b]
  <2>1. Shape(w) /\ ThreadOK(w.m, w.bg, w.net, w.hist)
    BY DEF WorldInv
  <2>2. ThreadShape(b) /\ b.running = TRUE /\ b.tostop = FALSE /\ b.pc = "select"
    BY DEF ThreadShape, Off
  <2> HIDE DEF b
  <2>3. DOMAIN v = DOMAIN w /\ v.m = w.m /\ v.net = w.net /\ v.hist = w.hist /\ v.bg = b
    BY <2>1 DEF Shape
  <2>4. StartThread(w) = v
    BY <1>1 DEF StartThread, b
  <2> HIDE DEF v
  <2>5. ThreadOK(v.m, v.bg, v.net, v.hist) /\ Alive(v.bg)
    <3>1. \A i \in DOMAIN v.net.in : v.net.in[i].type = "DISCONNECT" => v.m.connected
      BY <2>1, <2>3 DEF ThreadOK
    <3>2. Alive(v.bg)
      BY <2>2, <2>3 DEF Alive
    <3> QED BY <2>2, <2>3, <3>1, <3>2 DEF ThreadOK
  <2>6. Keeps(w, v)
    BY <2>2, <2>3, <2>5, ThreadKeeps
  <2> QED BY <2>3, <2>4, <2>5, <2>6
<1>2. CASE ~(w.m.ma /\ ~w.bg.running)
  BY <1>2, KeepsRefl DEF StartThread
<1> QED BY <1>1, <1>2

LEMMA SendKeeps ==
  ASSUME NEW w, WorldInv(w), NEW S \in SUBSET Packets
  PROVE  Keeps(w, [w EXCEPT !.net.req = @ \cup S]) /\ [w EXCEPT !.net.req = @ \cup S].bg = w.bg
<1> DEFINE v == [w EXCEPT !.net.req = w.net.req \cup S]
<1>1. Shape(w) /\ ThreadOK(w.m, w.bg, w.net, w.hist)
  BY DEF WorldInv
<1>2. DOMAIN v = DOMAIN w /\ v.m = w.m /\ v.bg = w.bg /\ v.hist = w.hist /\ v.net = [w.net EXCEPT !.req = w.net.req \cup S]
  BY <1>1 DEF Shape
<1> HIDE DEF v
<1>3. NetShape(v.net) /\ v.net.in = w.net.in
  BY <1>1, <1>2 DEF Shape, NetShape
<1>4. \A i \in DOMAIN v.net.in : v.net.in[i].type = "DISCONNECT" => w.m.connected
  BY <1>1, <1>3 DEF ThreadOK
<1>5. Keeps(w, v)
  BY <1>2, <1>3, <1>4, NetKeeps
<1> QED BY <1>2, <1>5 DEF v

Kept(w, v) == Keeps(w, v) /\ v.bg = w.bg

\* a new socket, or a step of its set-up
LEMMA OpenKeeps ==
  ASSUME NEW w, WorldInv(w), NEW tcp, NEW x, NEW y
  PROVE  /\ Kept(w, [w EXCEPT !.m.open = TRUE, !.net = [NoNet EXCEPT !.tcp = tcp]])
         /\ Kept(w, [w EXCEPT !.m.state = x, !.net.ws = y])
<1>1. Shape(w) /\ LossOK(w.m, w.hist) /\ DoneOK(w.m, w.hist) /\ ThreadOK(w.m, w.bg, w.net, w.hist)
  BY DEF WorldInv
<1>2. ASSUME NEW v, DOMAIN v = DOMAIN w, v.bg = w.bg, v.hist = w.hist, NetShape(v.net), DOMAIN v.m = DOMAIN w.m,
             v.m.ma = w.m.ma, v.m.connected = w.m.connected, v.m.out = w.m.out,
             v.net.in = <<>> \/ v.net.in = w.net.in
      PROVE  Keeps(w, v)
  <2>1. Same(w, v)
    BY <1>1, <1>2 DEF Same, Shape, ClientShape
  <2>2. \A i \in DOMAIN v.net.in : v.net.in[i].type = "DISCONNECT" => w.m.connected
    BY <1>1, <1>2 DEF ThreadOK
  <2>3. ThreadOK(v.m, v.bg, v.net, v.hist)
    BY <1>1, <1>2, <2>2 DEF ThreadOK
  <2>4. Goes(w, v)
    BY <2>1, <2>3, SameGoes
  <2> QED BY <1>2, <2>4 DEF Keeps
<1>3. Kept(w, [w EXCEPT !.m.open = TRUE, !.net = [NoNet EXCEPT !.tcp = tcp]])
  <2> DEFINE n == [NoNet EXCEPT !.tcp = tcp]
             v == [w EXCEPT !.m.open = TRUE, !.net = n]
  <2>1. NetShape(n) /\ n.in = <<>>
    BY DEF NetShape, NoNet
  <2> HIDE DEF n
  <2>2. DOMAIN v = DOMAIN w /\ v.bg = w.bg /\ v.hist = w.hist /\ v.net = n /\ v.m = [w.m EXCEPT !.open = TRUE]
    BY <1>1 DEF Shape
  <2> HIDE DEF v
  <2>3. DOMAIN v.m = DOMAIN w.m /\ v.m.ma = w.m.ma /\ v.m.connected = w.m.connected /\ v.m.out = w.m.out
    BY <1>1, <2>2 DEF Shape, ClientShape
  <2>4. Keeps(w, v)
    BY <1>2, <2>1, <2>2, <2>3
  <2> QED BY <2>2, <2>4 DEF Kept, v, n
<1>4. Kept(w, [w EXCEPT !.m.state = x, !.net.ws = y])
  <2> DEFINE v == [w EXCEPT !.m.state = x, !.net.ws = y]
  <2>1. /\ DOMAIN v = DOMAIN w /\ v.bg = w.bg /\ v.hist = w.hist /\ v.net = [w.net EXCEPT !.ws = y]
        /\ v.m = [w.m EXCEPT !.state = x]
    BY <1>1 DEF Shape
  <2> HIDE DEF v
  <2>2. DOMAIN v.m = DOMAIN w.m /\ v.m.ma = w.m.ma /\ v.m.connected = w.m.connected /\ v.m.out = w.m.out
    BY <1>1, <2>1 DEF Shape, ClientShape
  <2>3. NetShape(v.net) /\ v.net.in = w.net.in
    BY <1>1, <2>1 DEF Shape, NetShape
  <2>4. Keeps(w, v)
    BY <1>2, <2>1, <2>2, <2>3
  <2> QED BY <2>1, <2>4 DEF Kept, v
<1> QED BY <1>3, <1>4

\* a call that goes to wait
Waits(r, w, what) ==
  /\ DOMAIN r = {"w", "call", "failed"} /\ r.w = w /\ r.failed = FALSE
  /\ CallShape(r.call) /\ r.call.pc = "wait" /\ r.call.what = what /\ r.call.name = call.name

LEMMA WaitFields ==
  ASSUME NEW w, NEW what, NEW version, CallShape(call)
  PROVE  Waits(WaitFor(w, what, version), w, what)
<1> DEFINE c == [call EXCEPT !.pc = "wait", !.what = what, !.mode = "enter", !.version = version]
           r == WaitFor(w, what, version)
<1>1. CallShape(c) /\ c.pc = "wait" /\ c.what = what /\ c.name = call.name
  BY DEF CallShape
<1>2. r = [w |-> w, call |-> c, failed |-> FALSE]
  BY DEF WaitFor
<1> HIDE DEF c, r
<1>3. DOMAIN r = {"w", "call", "failed"} /\ r.w = w /\ r.failed = FALSE /\ r.call = c
  BY <1>2
<1> QED BY <1>1, <1>3 DEF r, Waits

\* a wait of a connect
LEMMA WaitUnconnected ==
  ASSUME NEW w, NEW what, NEW version, CallShape(call), WorldInv(w), ~w.m.connected, what # "resend",
         w.m.ma => Alive(w.bg) \/ w.hist.conns + 1 \in w.hist.raced
  PROVE  Unconnected(WaitFor(w, what, version))
<1>1. Waits(WaitFor(w, what, version), w, what)
  BY WaitFields
<1> QED BY <1>1 DEF Waits, Unconnected

LEMMA SentKeeps ==
  ASSUME NEW w, NEW version, CallShape(call), WorldInv(w), ~w.m.connected,
         w.m.ma => Alive(w.bg) \/ w.hist.conns + 1 \in w.hist.raced
  PROVE  LET r == SentConnect(w, version)
         IN /\ Unconnected(r) /\ Keeps(w, r.w) /\ r.w.bg = w.bg
            /\ DOMAIN r = {"w", "call", "failed"} /\ r.failed = FALSE
<1> DEFINE u == [w EXCEPT !.m.state = "WAIT_FOR_CONNACK"]
           S == {[type |-> "CONNECT", id |-> 0]}
           v == [u EXCEPT !.net.req = @ \cup S]
           r == SentConnect(w, version)
<1>1. r = WaitFor(v, "connack", version)
  BY DEF SentConnect, SendRequest
<1>2. Noted(w, u)
  BY NoteKeeps
<1> HIDE DEF u
<1>3. Keeps(w, u) /\ WorldInv(u) /\ u.bg = w.bg
  BY <1>2 DEF Noted, Keeps, Goes
<1>4. S \in SUBSET Packets
  BY DEF Packets, Types
<1> HIDE DEF S
<1>5. Keeps(u, v) /\ v.bg = u.bg
  BY <1>3, <1>4, SendKeeps
<1> HIDE DEF v, r
<1>6. Keeps(w, v) /\ v.bg = w.bg
  BY <1>3, <1>5, KeepsTrans
<1>7. WorldInv(v) /\ ~v.m.connected /\ (v.m.ma => Alive(v.bg) \/ v.hist.conns + 1 \in v.hist.raced)
  BY <1>6 DEF Keeps, Goes
<1>8. Unconnected(r)
  BY <1>1, <1>7, WaitUnconnected
<1>9. Waits(r, v, "connack")
  BY <1>1, WaitFields
<1> QED BY <1>6, <1>8, <1>9 DEF Waits, r

\* the ghost of an attempt: a thread is there to serve it, unless it is on its way out
LEMMA RacedKeeps ==
  ASSUME NEW w, WorldInv(w), ~w.m.connected
  PROVE  LET v == Raced(w)
         IN WorldInv(v) /\ v.m = w.m /\ v.bg = w.bg /\ Servable(v)
<1> DEFINE x == IF w.bg.running /\ w.bg.tostop THEN w.hist.raced \cup {w.hist.conns + 1} ELSE w.hist.raced \ {w.hist.conns + 1}
           v == [w EXCEPT !.hist.raced = x]
<1>1. Shape(w) /\ LossOK(w.m, w.hist) /\ DoneOK(w.m, w.hist) /\ ThreadOK(w.m, w.bg, w.net, w.hist)
  BY DEF WorldInv
<1>2. w.bg.running /\ w.bg.tostop => w.hist.conns + 1 \in x
  OBVIOUS
<1>3. Raced(w) = v
  BY DEF Raced
<1> HIDE DEF x
<1>4. DOMAIN v = DOMAIN w /\ v.m = w.m /\ v.bg = w.bg /\ v.net = w.net /\ v.hist = [w.hist EXCEPT !.raced = x]
  BY <1>1 DEF Shape
<1> HIDE DEF v
<1>5. /\ HistShape(v.hist) /\ v.hist.raced = x
      /\ v.hist.conns = w.hist.conns /\ v.hist.ended = w.hist.ended /\ v.hist.discarded = w.hist.discarded
      /\ v.hist.ids = w.hist.ids /\ v.hist.disconnected = w.hist.disconnected
      /\ v.hist.acked = w.hist.acked /\ v.hist.completed = w.hist.completed /\ v.hist.lost = w.hist.lost
  BY <1>1, <1>4 DEF Shape, HistShape
<1>6. WorldInv(v)
  <2>1. Shape(v)
    BY <1>1, <1>4, <1>5 DEF Shape
  <2>2. LossOK(v.m, v.hist)
    BY <1>1, <1>4, <1>5 DEF LossOK, Over
  <2>3. DoneOK(v.m, v.hist)
    BY <1>1, <1>4, <1>5 DEF DoneOK
  <2>4. ThreadOK(v.m, v.bg, v.net, v.hist)
    BY <1>1, <1>4, <1>5 DEF ThreadOK
  <2> QED BY <2>1, <2>2, <2>3, <2>4 DEF WorldInv
<1>7. Servable(v)
  <2>1. w.bg.running => w.bg.pc # "off"
    BY <1>1 DEF ThreadOK
  <2> QED BY <1>2, <1>4, <1>5, <2>1 DEF Servable, Alive
<1> QED BY <1>3, <1>4, <1>6, <1>7

LEMMA AttemptResult ==
  ASSUME NEW w, NEW version, NEW o, CallShape(call), WorldInv(w), ~w.m.connected
  PROVE  LET a == Attempt(w, version, o)
         IN /\ WorldInv(a.w) /\ ~a.w.m.connected
            /\ a.failed \in BOOLEAN
            /\ ~a.failed => Unconnected(a)
<1> DEFINE z == Raced(w)
           s == StartThread(z)
           stop == o = "fail" \/ (call.late /\ w.m.ma /\ ~w.bg.running)
           tcp == IF o = "syn" THEN "syn" ELSE "up"
           c == [s EXCEPT !.m.open = TRUE, !.net = [NoNet EXCEPT !.tcp = tcp]]
           fs == [w |-> s, call |-> Idle, failed |-> TRUE]
           fc == [w |-> c, call |-> Idle, failed |-> TRUE]
           t == [c EXCEPT !.m.state = "TCP_IN_PROGRESS"]
           k == WebSocket_connect(c, o = "up")
           a == Attempt(w, version, o)
           Good(v) == v.m.ma => Alive(v.bg) \/ v.hist.conns + 1 \in v.hist.raced
<1>1. a = IF stop THEN fs
          ELSE IF o = "syn" THEN WaitFor(t, "tcp", version)
          ELSE IF w.m.websocket THEN WaitFor(k, "websocket", version)
          ELSE IF o = "unsent" THEN fc
          ELSE SentConnect(c, version)
  BY DEF Attempt
<1>a. WorldInv(z) /\ z.m = w.m /\ Servable(z)
  BY RacedKeeps
<1> HIDE DEF z
<1>2. Keeps(z, s) /\ WorldInv(s) /\ (z.m.ma /\ ~z.bg.running => Alive(s.bg))
  BY <1>a, StartKeeps DEF Keeps, Goes
<1>3. ~s.m.connected /\ Good(s)
  BY <1>a, <1>2 DEF Keeps, Goes, Servable
<1> HIDE DEF s, tcp, stop
<1>4. Keeps(s, c) /\ c.bg = s.bg
  <2>1. Kept(s, c)
    BY <1>2, OpenKeeps
  <2> QED BY SMTT(60), <2>1 DEF Kept
<1> HIDE DEF c
<1>5. WorldInv(c) /\ ~c.m.connected /\ Good(c)
  BY SMTT(60), <1>3, <1>4 DEF Keeps, Goes
<1>6. Noted(c, t)
  BY <1>5, NoteKeeps
<1> HIDE DEF t
<1>7. WorldInv(t) /\ ~t.m.connected /\ Good(t)
  BY <1>5, <1>6 DEF Noted, Keeps, Goes
<1>8. Keeps(c, k) /\ k.bg = c.bg
  <2> DEFINE y == IF o = "up" THEN "asked" ELSE "none"
             u == [c EXCEPT !.m.state = "WEBSOCKET_IN_PROGRESS", !.net.ws = y]
  <2>1. k = u
    BY SMTT(60) DEF WebSocket_connect
  <2> HIDE DEF y, k
  <2>2. Kept(c, u)
    BY <1>5, OpenKeeps
  <2> QED BY <2>1, <2>2 DEF Kept
<1> HIDE DEF k
<1>9. WorldInv(k) /\ ~k.m.connected /\ Good(k)
  BY <1>5, <1>8 DEF Keeps, Goes
<1> HIDE DEF a
<1>11. CASE stop
  <2>1. a = fs
    BY <1>1, <1>11
  <2>2. a.w = s /\ a.failed = TRUE
    BY <2>1
  <2> QED BY <1>2, <1>3, <2>2 DEF a
<1>12. CASE ~stop /\ o = "syn"
  <2>1. a = WaitFor(t, "tcp", version)
    BY <1>1, <1>12
  <2>2. Waits(a, t, "tcp")
    BY <2>1, WaitFields
  <2>3. Unconnected(a)
    BY <1>7, <1>12, <2>1, WaitUnconnected
  <2> QED BY <1>7, <2>2, <2>3 DEF Waits, a
<1>13. CASE ~stop /\ o # "syn" /\ w.m.websocket
  <2>1. a = WaitFor(k, "websocket", version)
    BY <1>1, <1>13
  <2>2. Waits(a, k, "websocket")
    BY <2>1, WaitFields
  <2>3. Unconnected(a)
    BY <1>9, <1>13, <2>1, WaitUnconnected
  <2> QED BY <1>9, <2>2, <2>3 DEF Waits, a
<1>14. CASE ~stop /\ o # "syn" /\ ~w.m.websocket /\ o = "unsent"
  <2>1. a = fc
    BY <1>1, <1>14
  <2>2. a.w = c /\ a.failed = TRUE
    BY <2>1
  <2> QED BY <1>5, <2>2 DEF a
<1>15. CASE ~stop /\ o # "syn" /\ ~w.m.websocket /\ o # "unsent"
  <2>1. a = SentConnect(c, version)
    BY <1>1, <1>15
  <2>2. Good(c)
    BY <1>5, <1>15
  <2>3. Unconnected(a) /\ Keeps(c, a.w) /\ a.w.bg = c.bg /\ a.failed = FALSE
    BY <1>5, <2>1, <2>2, SentKeeps
  <2>4. WorldInv(a.w) /\ ~a.w.m.connected /\ Good(a.w)
    BY <1>5, <2>2, <2>3 DEF Keeps, Goes
  <2> QED BY <2>3, <2>4 DEF a
<1> QED BY <1>11, <1>12, <1>13, <1>14, <1>15

LEMMA Fail3Result ==
  ASSUME NEW w, WorldInv(w), ~w.m.connected
  PROVE  Unconnected(Fail3(w))
<1> DEFINE v == MQTTClient_disconnect1(w, FALSE, TRUE)
<1>1. Goes(w, v) /\ ~v.m.connected
  <2>1. TRUE \in BOOLEAN /\ FALSE \in BOOLEAN
    OBVIOUS
  <2> QED BY <2>1, DisconnectGoes
<1> HIDE DEF v
<1>2. WorldInv(v)
  BY <1>1 DEF Goes
<1>3. Unconnected(Stopped(w, v))
  BY <1>1, <1>2, StoppedResult
<1> QED BY <1>3 DEF Fail3, v

LEMMA FailedResult ==
  ASSUME NEW w, NEW version, NEW o, CallShape(call), WorldInv(w), ~w.m.connected
  PROVE  Unconnected(Failed(w, version, o))
<1> DEFINE closed == MQTTClient_disconnect1(w, FALSE, FALSE)
           second == Attempt(closed, 3, o)
<1>1. Failed(w, version, o) = CASE version = 4 -> IF second.failed THEN Fail3(second.w) ELSE second
                                [] version = 3 -> Fail3(w)
                                [] OTHER -> Returned(closed)
  BY DEF Failed
<1>2. Goes(w, closed) /\ ~closed.m.connected
  <2>1. FALSE \in BOOLEAN
    OBVIOUS
  <2> QED BY <2>1, DisconnectGoes
<1> HIDE DEF closed
<1>3. WorldInv(closed) /\ WorldInv(w)
  BY <1>2 DEF Goes
<1>6. WorldInv(second.w) /\ ~second.w.m.connected /\ second.failed \in BOOLEAN /\ (~second.failed => Unconnected(second))
  BY <1>2, <1>3, AttemptResult
<1> HIDE DEF second
<1>7. CASE version = 4
  <2>1. Failed(w, version, o) = IF second.failed THEN Fail3(second.w) ELSE second
    BY <1>1, <1>7
  <2>2. Unconnected(Fail3(second.w))
    BY <1>6, Fail3Result
  <2> QED BY <1>6, <2>1, <2>2
<1>8. CASE version = 3
  <2>1. Failed(w, version, o) = Fail3(w)
    BY <1>1, <1>8
  <2> QED BY <2>1, Fail3Result
<1>9. CASE version # 4 /\ version # 3
  <2>1. Failed(w, version, o) = [w |-> closed, call |-> Idle]
    BY <1>1, <1>9 DEF Returned
  <2> DEFINE r == Failed(w, version, o)
  <2> HIDE DEF r
  <2>2. r.w = closed /\ r.call = Idle /\ DOMAIN r = {"w", "call"}
    BY <2>1 DEF r
  <2>3. Unconnected(r)
    BY <1>2, <1>3, <2>2, IdleShape DEF Unconnected
  <2> QED BY <2>3 DEF r
<1> QED BY <1>7, <1>8, <1>9

LEMMA ConnectStep ==
  ASSUME SyncInv, NEW o, NEW o3, MQTTClient_connect(o, o3)
  PROVE  SyncInv'
<1> DEFINE z == World
           v == IF z.m.v = 5 THEN 5 ELSE 4
           first == Attempt(z, v, o)
           r == MQTTClient_connectURI(z, o, o3)
<1>1. Does(Named("connect", r)) /\ call = Idle /\ ~m.connected /\ left["connect"] > 0 /\ left' = [left EXCEPT !["connect"] = @ - 1]
  BY DEF MQTTClient_connect, Begin
<1>2. left' \in [Calls -> Nat]
  BY <1>1 DEF SyncInv, Calls
<1>3. WorldInv(z) /\ ~z.m.connected /\ CallShape(call)
  BY <1>1, WorldFields, IdleShape DEF SyncInv
<1>4. r = IF first.failed THEN Failed(first.w, v, o3) ELSE first
  BY DEF MQTTClient_connectURI
<1> HIDE DEF z, v
<1>5. /\ WorldInv(first.w) /\ ~first.w.m.connected
      /\ first.failed \in BOOLEAN /\ (~first.failed => Unconnected(first))
  BY <1>3, AttemptResult
<1> HIDE DEF first
<1>6. Unconnected(Failed(first.w, v, o3))
  BY <1>3, <1>5, FailedResult
<1>7. Unconnected(r)
  BY <1>4, <1>5, <1>6
<1> HIDE DEF r
<1> QED BY <1>1, <1>2, <1>7, NamedConnect, ResultStep

\* a connection comes up
LEMMA UpKeeps ==
  ASSUME NEW w, WorldInv(w), ~w.m.connected, w.m.ma => Alive(w.bg) \/ w.hist.conns + 1 \in w.hist.raced
  PROVE  LET up == [w EXCEPT !.m.connected = TRUE, !.m.state = "NOT_IN_PROGRESS", !.m.pack = NoPack,
                      !.hist.conns = @ + 1, !.hist.lost = Append(@, 0)]
         IN WorldInv(up)
<1> DEFINE n == w.hist.conns + 1
           l == Append(w.hist.lost, 0)
           up == [w EXCEPT !.m.connected = TRUE, !.m.state = "NOT_IN_PROGRESS", !.m.pack = NoPack,
                      !.hist.conns = n, !.hist.lost = l]
<1>1. Shape(w) /\ LossOK(w.m, w.hist) /\ DoneOK(w.m, w.hist) /\ ThreadOK(w.m, w.bg, w.net, w.hist)
  BY DEF WorldInv
<1>2. w.hist.conns \in Nat /\ n \in Nat /\ n = w.hist.conns + 1 /\ w.hist.lost \in Seq(Nat) /\ Len(w.hist.lost) = w.hist.conns
  BY <1>1 DEF Shape, HistShape
<1>3. /\ l \in Seq(Nat) /\ Len(l) = n /\ l[n] = 0
      /\ \A k \in 1 .. w.hist.conns : l[k] = w.hist.lost[k]
  BY <1>2
<1> HIDE DEF n, l
<1>5. /\ DOMAIN up = DOMAIN w /\ up.bg = w.bg /\ up.net = w.net
      /\ up.m = [w.m EXCEPT !.connected = TRUE, !.state = "NOT_IN_PROGRESS", !.pack = NoPack]
      /\ up.hist = [w.hist EXCEPT !.conns = n, !.lost = l]
  BY <1>1 DEF Shape
<1> HIDE DEF up
<1>6. ClientShape(up.m) /\ up.m.ma = w.m.ma /\ up.m.connected = TRUE /\ up.m.out = w.m.out
  BY <1>1, <1>5 DEF Shape, ClientShape
<1>7. /\ HistShape(up.hist) /\ up.hist.raced = w.hist.raced /\ up.hist.conns = n /\ up.hist.lost = l
      /\ up.hist.ended = w.hist.ended /\ up.hist.discarded = w.hist.discarded
      /\ up.hist.ids = w.hist.ids /\ up.hist.disconnected = w.hist.disconnected
      /\ up.hist.acked = w.hist.acked /\ up.hist.completed = w.hist.completed
  BY <1>1, <1>2, <1>3, <1>5 DEF Shape, HistShape
<1>8. Shape(up)
  BY <1>1, <1>5, <1>6, <1>7 DEF Shape
<1>9. LossOK(up.m, up.hist)
  <2>1. ASSUME up.m.ma, NEW k \in 1 .. n
        PROVE  l[k] <= 1 /\ (k < n => Over(up.hist, k))
    <3>1. CASE k = n
      BY <1>2, <1>3, <3>1
    <3>2. CASE k \in 1 .. w.hist.conns
      <4>1. w.hist.lost[k] <= 1 /\ Over(w.hist, k)
        BY <1>1, <1>6, <2>1, <3>2 DEF LossOK
      <4> QED BY <1>3, <1>7, <3>2, <4>1 DEF Over
    <3> QED BY <1>2, <3>1, <3>2
  <2> QED BY <1>2, <1>3, <1>6, <1>7, <2>1 DEF LossOK
<1>10. DoneOK(up.m, up.hist)
  BY <1>1, <1>6, <1>7 DEF DoneOK
<1>11. ThreadOK(up.m, up.bg, up.net, up.hist)
  <2>1. up.m.ma => Alive(up.bg) \/ up.hist.conns \in up.hist.raced
    BY <1>2, <1>5, <1>6, <1>7
  <2> QED BY <1>1, <1>5, <1>6, <2>1 DEF ThreadOK
<1>12. WorldInv(up)
  BY <1>8, <1>9, <1>10, <1>11 DEF WorldInv
<1> QED BY <1>12 DEF up, n, l

LEMMA CleanKeeps ==
  ASSUME NEW w, WorldInv(w)
  PROVE  Kept(w, MQTTClient_cleanSession(w)) /\ MQTTClient_cleanSession(w).m.connected = w.m.connected
<1> DEFINE d == MQTTClient_cleanSession(w)
           gone == {x.msg : x \in w.m.out}
<1>1. Shape(w) /\ LossOK(w.m, w.hist) /\ DoneOK(w.m, w.hist) /\ ThreadOK(w.m, w.bg, w.net, w.hist)
  BY DEF WorldInv
<1>a. \A x \in w.m.out : x.msg \in gone
  OBVIOUS
<1>b. d = [w EXCEPT !.m.out = {}, !.m.queue = <<>>, !.m.msgID = 0, !.hist.discarded = w.hist.discarded \cup gone]
  BY DEF MQTTClient_cleanSession
<1> HIDE DEF d, gone
<1>2. /\ DOMAIN d = DOMAIN w /\ d.bg = w.bg /\ d.net = w.net
      /\ d.m = [w.m EXCEPT !.out = {}, !.queue = <<>>, !.msgID = 0]
      /\ d.hist = [w.hist EXCEPT !.discarded = w.hist.discarded \cup gone]
  BY <1>1, <1>b DEF Shape
<1>3. ClientShape(d.m) /\ d.m.ma = w.m.ma /\ d.m.connected = w.m.connected /\ d.m.out = {}
  BY <1>1, <1>2 DEF Shape, ClientShape
<1>4. /\ HistShape(d.hist) /\ d.hist.discarded = w.hist.discarded \cup gone
      /\ d.hist.conns = w.hist.conns /\ d.hist.ended = w.hist.ended /\ d.hist.disconnected = w.hist.disconnected
      /\ d.hist.raced = w.hist.raced /\ d.hist.ids = w.hist.ids /\ d.hist.acked = w.hist.acked
      /\ d.hist.completed = w.hist.completed /\ d.hist.lost = w.hist.lost
  BY <1>1, <1>2 DEF Shape, HistShape
<1>5. Shape(d)
  BY <1>1, <1>2, <1>3, <1>4 DEF Shape
<1>6. LossOK(d.m, d.hist)
  BY <1>1, <1>3, <1>4 DEF LossOK, Over
<1>7. DoneOK(d.m, d.hist)
  <2>1. d.hist.completed \subseteq d.hist.acked \cup d.hist.discarded
    BY <1>1, <1>4 DEF DoneOK
  <2>2. ASSUME NEW k \in DOMAIN d.hist.ids
        PROVE  k \in d.hist.acked \cup d.hist.discarded
    <3>1. k \in w.hist.acked \cup w.hist.discarded \/ \E x \in w.m.out : x.id = w.hist.ids[k] /\ x.msg = k
      BY <1>1, <1>4 DEF DoneOK
    <3> QED BY <3>1, <1>a, <1>4
  <2> QED BY <2>1, <2>2 DEF DoneOK
<1>8. ThreadOK(d.m, d.bg, d.net, d.hist)
  BY <1>1, <1>2, <1>3, <1>4 DEF ThreadOK
<1>9. WorldInv(d)
  BY <1>5, <1>6, <1>7, <1>8 DEF WorldInv
<1> QED BY <1>2, <1>3, <1>4, <1>9 DEF Kept, Keeps, Goes, d

\* a connect that waits: what it needs to go on
Waiting(w) == ~w.m.connected /\ (w.m.ma => Alive(w.bg) \/ w.hist.conns + 1 \in w.hist.raced)

LEMMA ConnackedResult ==
  ASSUME NEW w, NEW pack, NEW o, NEW o3, CallShape(call), call.name = "connect", WorldInv(w), Waiting(w)
  PROVE  Result(Connacked(w, pack, o, o3))
<1> DEFINE v == call.version
           up == [w EXCEPT !.m.connected = TRUE, !.m.state = "NOT_IN_PROGRESS", !.m.pack = NoPack,
                      !.hist.conns = @ + 1, !.hist.lost = Append(@, 0)]
           cleaned == IF w.m.clean THEN MQTTClient_cleanSession(up) ELSE up
           S == {[type |-> "PUBLISH", id |-> x.id] : x \in cleaned.m.out}
           resent == [cleaned EXCEPT !.net.req = @ \cup S]
           lost == Lost(cleaned)
           late == [lost EXCEPT !.call.what = "resend", !.call.version = v]
           q == [w EXCEPT !.m.pack = NoPack]
           r == Connacked(w, pack, o, o3)
<1>1. r = IF pack = NoPack THEN Failed(w, v, o3)
          ELSE IF pack # "CONNACK" THEN Failed(q, v, o3)
          ELSE IF cleaned.m.out = {} \/ o # "unsent" THEN Returned(resent)
          ELSE IF lost.call = Idle THEN Failed(lost.w, v, o3)
          ELSE late
  BY SMTT(60) DEF Connacked
<1>2. WorldInv(up)
  BY ZenonT(60), UpKeeps DEF Waiting
<1> HIDE DEF up, v
<1>3. WorldInv(cleaned)
  BY <1>2, CleanKeeps DEF Kept, Keeps, Goes
<1> HIDE DEF cleaned
<1>4. Unconnected(Failed(w, v, o3))
  BY FailedResult DEF Waiting
<1>5. Unconnected(Failed(q, v, o3))
  <2>1. Noted(w, q)
    BY NoteKeeps
  <2> HIDE DEF q
  <2>2. WorldInv(q) /\ ~q.m.connected
    BY <2>1 DEF Noted, Keeps, Goes, Waiting
  <2> QED BY <2>2, FailedResult
<1>6. Result(Returned(resent))
  <2>1. S \in SUBSET Packets
    <3>1. \A x \in cleaned.m.out : x.id \in Nat
      BY <1>3 DEF WorldInv, Shape, ClientShape, Entries
    <3>2. \A x \in cleaned.m.out : [type |-> "PUBLISH", id |-> x.id] \in Packets
      BY <3>1 DEF Packets, Types
    <3> QED BY <3>2
  <2> HIDE DEF S
  <2>2. WorldInv(resent)
    BY <1>3, <2>1, SendKeeps DEF Keeps, Goes
  <2> QED BY <2>2, ReturnedResult
<1>7. /\ Unconnected(lost) /\ DOMAIN lost = {"w", "call"}
      /\ lost.call # Idle => lost.call.name = call.name /\ lost.call.pc = "stopping"
  BY <1>3, LostResult
<1> HIDE DEF lost
<1>8. Unconnected(Failed(lost.w, v, o3))
  <2>1. WorldInv(lost.w) /\ ~lost.w.m.connected
    BY <1>7 DEF Unconnected
  <2> QED BY <2>1, FailedResult
<1>9. lost.call # Idle => Result(late)
  <2>1. CallShape(lost.call) /\ WorldInv(lost.w) /\ ~lost.w.m.connected
    BY <1>7 DEF Unconnected
  <2>2. DOMAIN late = {"w", "call"} /\ late.w = lost.w /\ late.call = [lost.call EXCEPT !.what = "resend", !.version = v]
    BY <1>7
  <2> HIDE DEF late
  <2>3. CallShape(late.call) /\ late.call.name = lost.call.name /\ late.call.pc = lost.call.pc
    BY <2>1, <2>2 DEF CallShape
  <2> QED BY <1>7, <2>1, <2>2, <2>3 DEF Result, CallOK
<1> HIDE DEF resent, late, q
<1>10. Result(r)
  BY <1>1, <1>4, <1>5, <1>6, <1>8, <1>9, UnconnectedResult
<1> QED BY <1>10 DEF r

LEMMA GoesOnResult ==
  ASSUME NEW w, NEW rc, NEW pack, NEW o, NEW o3, CallShape(call), WorldInv(w), call.name = "connect" => Waiting(w)
  PROVE  Result(GoesOn(w, rc, pack, o, o3))
<1>1. CASE call.name = "connect"
  <2> DEFINE v == call.version
  <2>1. ~w.m.connected
    BY <1>1 DEF Waiting
  <2>2. Unconnected(Failed(w, v, o3)) /\ Unconnected(SentConnect(w, v))
    BY <1>1, <2>1, FailedResult, SentKeeps DEF Waiting
  <2>3. GoesOn(w, rc, pack, o, o3) = ConnectGoesOn(w, rc, pack, o, o3)
    BY <1>1 DEF GoesOn
  <2>4. Unconnected(TcpConnected(w, rc, o, o3))
    <3> DEFINE y == IF o # "unsent" THEN "asked" ELSE "none"
               u == [w EXCEPT !.m.state = "WEBSOCKET_IN_PROGRESS", !.net.ws = y]
    <3>1. TcpConnected(w, rc, o, o3) = IF rc # 0 THEN Failed(w, v, o3)
                                       ELSE IF w.m.websocket THEN WaitFor(u, "websocket", v)
                                       ELSE IF o = "unsent" THEN Failed(w, v, o3)
                                       ELSE SentConnect(w, v)
      BY DEF TcpConnected, WebSocket_connect
    <3> HIDE DEF y
    <3>2. Kept(w, u)
      BY OpenKeeps
    <3> HIDE DEF u
    <3>3. WorldInv(u) /\ Waiting(u)
      BY <1>1, <3>2 DEF Kept, Keeps, Goes, Waiting
    <3>4. Unconnected(WaitFor(u, "websocket", v))
      BY <3>3, WaitUnconnected DEF Waiting
    <3> QED BY <2>2, <3>1, <3>4
  <2>5. Unconnected(Upgraded(w, o, o3))
    <3> DEFINE u == [w EXCEPT !.m.state = "WAIT_FOR_CONNACK"]
    <3>1. Noted(w, u)
      BY NoteKeeps
    <3>2. Upgraded(w, o, o3) = IF o # "unsent" THEN SentConnect(w, v) ELSE Failed(u, v, o3)
      BY DEF Upgraded
    <3> HIDE DEF u
    <3>3. WorldInv(u) /\ ~u.m.connected
      BY <2>1, <3>1 DEF Noted, Keeps, Goes
    <3>4. Unconnected(Failed(u, v, o3))
      BY <3>3, FailedResult
    <3> QED BY <2>2, <3>2, <3>4
  <2>6. Result(Connacked(w, pack, o, o3))
    BY <1>1, ConnackedResult
  <2>7. CASE call.what = "tcp"
    BY <2>3, <2>4, <2>7, UnconnectedResult DEF ConnectGoesOn
  <2>8. CASE call.what = "websocket"
    BY <2>3, <2>5, <2>8, UnconnectedResult DEF ConnectGoesOn
  <2>9. CASE call.what # "tcp" /\ call.what # "websocket"
    BY <2>3, <2>6, <2>9 DEF ConnectGoesOn
  <2> QED BY <2>7, <2>8, <2>9
<1>2. CASE call.name # "connect"
  <2> DEFINE u == [w EXCEPT !.m.pack = NoPack]
  <2>1. GoesOn(w, rc, pack, o, o3) = IF pack = NoPack THEN Lost(w) ELSE Returned(u)
    BY <1>2 DEF GoesOn, RequestGoesOn
  <2>2. Noted(w, u)
    BY NoteKeeps
  <2> HIDE DEF u
  <2>3. Result(Returned(u))
    BY <2>2, ReturnedResult DEF Noted, Keeps, Goes
  <2>4. Result(Lost(w))
    BY LostResult, UnconnectedResult
  <2> QED BY <2>1, <2>3, <2>4
<1> QED BY <1>1, <1>2

(***************************************************************************)
(* Waiting.                                                                *)
(***************************************************************************)
\* a step of a call that waits, after work that keeps what it needs
LEMMA GoesOnStep ==
  ASSUME SyncInv, call.pc = "wait", NEW w, NEW rc, NEW pack, NEW o, NEW o3, Keeps(World, w),
         Does(GoesOn(w, rc, pack, o, o3)), UNCHANGED left
  PROVE  SyncInv'
<1>1. WorldInv(w) /\ CallOK(w, call) /\ CallShape(call)
  BY KeepsCall DEF SyncInv, Keeps, Goes
<1>2. call.name = "connect" => Waiting(w)
  BY <1>1 DEF CallOK, Waiting
<1>3. Result(GoesOn(w, rc, pack, o, o3))
  BY <1>1, <1>2, GoesOnResult
<1>4. left' \in [Calls -> Nat]
  BY DEF SyncInv
<1> QED BY <1>3, <1>4, ResultStep

LEMMA EnterWaitStep ==
  ASSUME SyncInv, NEW o, NEW o3, EnterWait(o, o3)
  PROVE  SyncInv'
<1> DEFINE x == IF bg.running THEN "sem" ELSE IF Overdue THEN "endless" ELSE "poll"
           c == [call EXCEPT !.mode = x]
           Samples == call' = c /\ UNCHANGED <<m, bg, net, hist>>
<1>a. call.pc = "wait" /\ UNCHANGED left /\ (Does(GoesOn(World, 1, NoPack, o, o3)) \/ Samples)
  BY DEF EnterWait
<1> HIDE DEF x
<1>1. CASE Does(GoesOn(World, 1, NoPack, o, o3))
  <2>1. Keeps(World, World)
    BY KeepsRefl DEF SyncInv
  <2> QED BY <1>1, <1>a, <2>1, GoesOnStep
<1>2. CASE Samples
  <2>1. call' = c /\ UNCHANGED <<m, bg, net, hist, left>>
    BY <1>2, <1>a
  <2>2. CallShape(c) /\ c.name = call.name /\ c.pc = call.pc /\ c.what = call.what /\ c.msg = call.msg
    BY DEF SyncInv, CallShape
  <2> HIDE DEF c
  <2>3. CallOK(World, c)
    BY <2>2 DEF SyncInv, CallOK
  <2>4. Becomes(World)
    BY <2>1, WorldFields DEF Becomes
  <2>5. WorldInv(World)' /\ CallOK(World', c)
    BY <2>3, <2>4, BecomesInv DEF SyncInv
  <2>6. CallOK(World, call)' /\ CallShape(call)'
    BY <2>1, <2>2, <2>5 DEF CallOK, CallShape, Alive
  <2> QED BY <2>1, <2>5, <2>6 DEF SyncInv
<1> QED BY <1>1, <1>2, <1>a

LEMMA WaitSemStep ==
  ASSUME SyncInv, NEW o, NEW o3, WaitSem(o, o3)
  PROVE  SyncInv'
<1> DEFINE sem == SemOf(call.what)
           w == [World EXCEPT !.m.sem[sem] = 0]
<1>1. PICK rc \in Thread_wait_sem(sem) : Does(GoesOn(w, IF rc = 0 THEN m.rc ELSE rc, m.pack, o, o3))
  BY DEF WaitSem
<1>2. call.pc = "wait" /\ UNCHANGED left
  BY DEF WaitSem
<1> HIDE DEF sem
<1>3. Noted(World, w)
  BY NoteKeeps DEF SyncInv
<1> HIDE DEF w
<1>4. Keeps(World, w)
  BY <1>3 DEF Noted
<1> DEFINE x == IF rc = 0 THEN m.rc ELSE rc
           p == m.pack
<1>5. Does(GoesOn(w, x, p, o, o3))
  BY <1>1
<1> HIDE DEF x, p
<1> QED BY <1>2, <1>4, <1>5, GoesOnStep

LEMMA WaitPollStep ==
  ASSUME SyncInv, NEW ackSent, NEW keepalive, NEW o, NEW o3, WaitPoll(ackSent, keepalive, o, o3)
  PROVE  SyncInv'
<1> DEFINE r == MQTTClient_cycle(World, Ready(World), ackSent, keepalive)
           w == r.w
           x == IF net.tcp = "refused" THEN 1 ELSE 0
<1>1. call.pc = "wait" /\ UNCHANGED left
  BY DEF WaitPoll
<1>2. \/ Does(GoesOn(w, -1, r.pack, o, o3))
      \/ Does(GoesOn(w, 0, r.pack, o, o3))
      \/ Does(GoesOn(w, x, NoPack, o, o3))
      \/ Does(GoesOn(w, 1, NoPack, o, o3))
      \/ Does(GoesOn(w, 0, NoPack, o, o3))
      \/ Does([w |-> w, call |-> call])
  BY DEF WaitPoll
<1>3. Keeps(World, w)
  BY CycleKeeps DEF SyncInv
<1> DEFINE p == r.pack
<1>4. \/ Does(GoesOn(w, -1, p, o, o3))
      \/ Does(GoesOn(w, 0, p, o, o3))
      \/ Does(GoesOn(w, x, NoPack, o, o3))
      \/ Does(GoesOn(w, 1, NoPack, o, o3))
      \/ Does(GoesOn(w, 0, NoPack, o, o3))
      \/ Does([w |-> w, call |-> call])
  BY <1>2
<1> HIDE DEF w, x, p
<1>5. CASE Does([w |-> w, call |-> call])
  <2>1. Becomes(w) /\ UNCHANGED call
    BY <1>5 DEF Does
  <2>2. left' \in [Calls -> Nat]
    BY <1>1 DEF SyncInv
  <2> QED BY <1>3, <2>1, <2>2, KeepsStep
<1> QED BY <1>1, <1>3, <1>4, <1>5, GoesOnStep

(***************************************************************************)
(* Requests and messages.                                                  *)
(***************************************************************************)
\* a call that begins
LEMMA BeginLeft ==
  ASSUME SyncInv, NEW name \in Calls, Begin(name)
  PROVE  left' \in [Calls -> Nat] /\ call = Idle /\ CallShape(call)
BY IdleShape DEF Begin, SyncInv

LEMMA RequestStep ==
  ASSUME SyncInv, NEW name \in {"subscribe", "unsubscribe"}, NEW ack \in {"suback", "unsuback"}, NEW sent, Request(name, ack, sent)
  PROVE  SyncInv'
<1> DEFINE id == NextId(World)
           w == [World EXCEPT !.m.msgID = id]
           S == {[type |-> name, id |-> 0]}
           u == [w EXCEPT !.net.req = @ \cup S]
           t == [w EXCEPT !.m.pending = TRUE]
           r == CASE sent = "ok" -> WaitFor(u, ack, 0)
                  [] sent = "part" -> Returned(t)
                  [] OTHER -> Lost(w)
<1>1. Does(IF id = 0 THEN Returned(World) ELSE Named(name, r)) /\ Begin(name)
  BY DEF Request, SendRequest
<1>2. left' \in [Calls -> Nat] /\ call = Idle /\ CallShape(call)
  BY <1>1, BeginLeft DEF Calls
<1>3. WorldInv(World)
  BY DEF SyncInv
<1> HIDE DEF id
<1>4. Noted(World, w)
  BY <1>3, NoteKeeps
<1> HIDE DEF w
<1>5. WorldInv(w)
  BY <1>4 DEF Noted, Keeps, Goes
<1>6. S \in SUBSET Packets
  BY DEF Packets, Types
<1> HIDE DEF S
<1>7. WorldInv(u)
  BY <1>5, <1>6, SendKeeps DEF Keeps, Goes
<1>8. Noted(w, t)
  BY <1>5, NoteKeeps
<1> HIDE DEF u, t
<1>9. WorldInv(t)
  BY <1>8 DEF Noted, Keeps, Goes
<1>10. Result(r) /\ r.call.what # "resend"
  <2>1. CASE sent = "ok"
    <3>1. r = WaitFor(u, ack, 0)
      BY <2>1
    <3> HIDE DEF r
    <3>2. Waits(r, u, ack)
      BY <1>2, <3>1, WaitFields
    <3>3. call.name = "none"
      BY <1>2, IdleShape
    <3> QED BY <1>7, <3>2, <3>3 DEF Waits, Result, CallOK
  <2>2. CASE sent = "part"
    <3>1. r = Returned(t)
      BY <2>2
    <3> HIDE DEF r
    <3>2. r.call = Idle
      BY <3>1 DEF Returned
    <3> QED BY <1>9, <3>1, <3>2, ReturnedResult, IdleShape
  <2>3. CASE sent # "ok" /\ sent # "part"
    <3>1. r = Lost(w)
      BY <2>3
    <3> HIDE DEF r
    <3>2. Unconnected(r)
      BY <1>5, <3>1, LostResult
    <3> QED BY <3>2, UnconnectedResult DEF Unconnected
  <2> QED BY <2>1, <2>2, <2>3
<1> HIDE DEF r
<1>11. Result(Named(name, r)) /\ Result(Returned(World))
  BY <1>3, <1>10, NamedOther, ReturnedResult
<1> QED BY <1>1, <1>2, <1>11, ResultStep

\* a new message is in flight under its id
LEMMA PublishedInv ==
  ASSUME NEW w, NEW id \in Nat, WorldInv(w)
  PROVE  WorldInv([w EXCEPT !.m.out = @ \cup {[id |-> id, msg |-> Len(w.hist.ids) + 1]}, !.m.msgID = id, !.hist.ids = Append(@, id)])
<1> DEFINE n == Len(w.hist.ids) + 1
           e == [id |-> id, msg |-> n]
           out == w.m.out \cup {e}
           ids == Append(w.hist.ids, id)
           p == [w EXCEPT !.m.out = out, !.m.msgID = id, !.hist.ids = ids]
<1>1. Shape(w) /\ LossOK(w.m, w.hist) /\ DoneOK(w.m, w.hist) /\ ThreadOK(w.m, w.bg, w.net, w.hist)
  BY DEF WorldInv
<1>2. w.hist.ids \in Seq(Nat) /\ n \in Nat
  BY <1>1 DEF Shape, HistShape
<1>3. /\ ids \in Seq(Nat) /\ ids[n] = id /\ (\A k \in DOMAIN ids : k = n \/ k \in DOMAIN w.hist.ids)
      /\ \A k \in DOMAIN w.hist.ids : ids[k] = w.hist.ids[k]
  BY SMTT(60), <1>2
<1>4. out \in SUBSET Entries /\ w.m.out \subseteq out /\ e \in out /\ e.id = id /\ e.msg = n
  BY <1>1, <1>2 DEF Shape, ClientShape, Entries
<1> HIDE DEF n, e, out, ids
<1>5. /\ DOMAIN p = DOMAIN w /\ p.bg = w.bg /\ p.net = w.net
      /\ p.m = [w.m EXCEPT !.out = out, !.msgID = id] /\ p.hist = [w.hist EXCEPT !.ids = ids]
  BY <1>1 DEF Shape
<1> HIDE DEF p
<1>6. ClientShape(p.m) /\ p.m.ma = w.m.ma /\ p.m.connected = w.m.connected /\ p.m.out = out
  BY <1>1, <1>4, <1>5 DEF Shape, ClientShape
<1>7. /\ HistShape(p.hist) /\ p.hist.ids = ids
      /\ p.hist.conns = w.hist.conns /\ p.hist.ended = w.hist.ended /\ p.hist.discarded = w.hist.discarded
      /\ p.hist.raced = w.hist.raced /\ p.hist.disconnected = w.hist.disconnected
      /\ p.hist.acked = w.hist.acked /\ p.hist.completed = w.hist.completed /\ p.hist.lost = w.hist.lost
  BY <1>1, <1>3, <1>5 DEF Shape, HistShape
<1>8. Shape(p)
  BY <1>1, <1>5, <1>6, <1>7 DEF Shape
<1>9. LossOK(p.m, p.hist)
  BY <1>1, <1>6, <1>7 DEF LossOK, Over
<1>10. ThreadOK(p.m, p.bg, p.net, p.hist)
  BY <1>1, <1>5, <1>6, <1>7 DEF ThreadOK
<1>11. DoneOK(p.m, p.hist)
  <2>1. p.hist.completed \subseteq p.hist.acked \cup p.hist.discarded
    BY <1>1, <1>7 DEF DoneOK
  <2>2. ASSUME NEW k \in DOMAIN p.hist.ids
        PROVE  k \in p.hist.acked \cup p.hist.discarded \/ \E x \in p.m.out : x.id = p.hist.ids[k] /\ x.msg = k
    <3>1. CASE k = n
      BY <1>3, <1>4, <1>6, <1>7, <3>1
    <3>2. CASE k \in DOMAIN w.hist.ids
      <4>1. k \in w.hist.acked \cup w.hist.discarded \/ \E x \in w.m.out : x.id = w.hist.ids[k] /\ x.msg = k
        BY <1>1, <3>2 DEF DoneOK
      <4> QED BY <1>3, <1>4, <1>6, <1>7, <3>2, <4>1
    <3> QED BY <1>3, <1>7, <3>1, <3>2
  <2> QED BY <2>1, <2>2 DEF DoneOK
<1>12. WorldInv(p)
  BY <1>8, <1>9, <1>10, <1>11 DEF WorldInv
<1> QED BY <1>12 DEF p, out, ids, e, n

LEMMA PublishResult ==
  ASSUME NEW sent, WorldInv(World), CallShape(call), call.what # "resend"
  PROVE  Result(StartPublish(World, sent))
<1> DEFINE z == World
           id == NextId(z)
           p == [z EXCEPT !.m.out = @ \cup {[id |-> id, msg |-> Len(z.hist.ids) + 1]}, !.m.msgID = id, !.hist.ids = Append(@, id)]
           S == {[type |-> "PUBLISH", id |-> id]}
           q == [p EXCEPT !.m.pending = TRUE]
           c == [call EXCEPT !.name = "publish", !.pc = "writing"]
           a == [p EXCEPT !.net.req = @ \cup S]
           b == [q EXCEPT !.net.req = @ \cup S]
           r == CASE sent = "ok" -> Returned(a)
                  [] sent = "part" -> [w |-> b, call |-> c]
                  [] OTHER -> Named("publish", Lost(p))
<1>1. StartPublish(World, sent) = IF id = 0 THEN Returned(z) ELSE r
  BY DEF StartPublish, SendRequest
<1>2. id \in Nat
  BY NextIdNat
<1> HIDE DEF z, id
<1>3. WorldInv(z)
  BY DEF z
<1>4. WorldInv(p)
  BY <1>2, <1>3, PublishedInv
<1> HIDE DEF p
<1>5. S \in SUBSET Packets
  BY <1>2 DEF Packets, Types
<1> HIDE DEF S
<1>6. WorldInv(a)
  BY <1>4, <1>5, SendKeeps DEF Keeps, Goes
<1>7. Noted(p, q)
  BY <1>4, NoteKeeps
<1> HIDE DEF a, q
<1>8. WorldInv(q)
  BY <1>7 DEF Noted, Keeps, Goes
<1>9. WorldInv(b)
  BY <1>5, <1>8, SendKeeps DEF Keeps, Goes
<1> HIDE DEF b
<1>10. CallShape(c) /\ c.name = "publish" /\ c.pc = "writing" /\ c.what = call.what
  BY DEF CallShape
<1> HIDE DEF c
<1>11. Result(r)
  <2>1. CASE sent = "ok"
    <3>1. r = Returned(a)
      BY <2>1
    <3> QED BY <1>6, <3>1, ReturnedResult
  <2>2. CASE sent = "part"
    <3>1. r = [w |-> b, call |-> c]
      BY <2>2
    <3> HIDE DEF r
    <3>2. DOMAIN r = {"w", "call"} /\ r.w = b /\ r.call = c
      BY <3>1
    <3>3. CallOK(b, c)
      BY <1>10 DEF CallOK
    <3> QED BY <1>9, <1>10, <3>2, <3>3 DEF Result
  <2>3. CASE sent # "ok" /\ sent # "part"
    <3>1. r = Named("publish", Lost(p))
      BY <2>3
    <3>2. Unconnected(Lost(p))
      BY <1>4, LostResult
    <3>3. Result(Lost(p)) /\ Lost(p).call.what # "resend"
      BY <3>2, UnconnectedResult DEF Unconnected
    <3>4. Result(Named("publish", Lost(p)))
      BY <3>3, NamedOther
    <3> QED BY <3>1, <3>4
  <2> QED BY <2>1, <2>2, <2>3
<1>12. Result(Returned(z))
  BY <1>3, ReturnedResult
<1> HIDE DEF r
<1> QED BY <1>1, <1>11, <1>12

LEMMA PublishStep ==
  ASSUME SyncInv, NEW sent, MQTTClient_publish(sent)
  PROVE  SyncInv'
<1>1. left' \in [Calls -> Nat] /\ call = Idle /\ CallShape(call)
  BY BeginLeft DEF Calls, MQTTClient_publish
<1>2. CASE Full
  <2> DEFINE c == [Idle EXCEPT !.name = "publish", !.pc = "blocked"]
             r == [w |-> World, call |-> c]
  <2>1. CallShape(c) /\ c.name = "publish" /\ c.pc = "blocked" /\ c.what = "none"
    BY IdleShape DEF CallShape
  <2>2. call' = c /\ UNCHANGED <<m, bg, net, hist>>
    BY <1>2 DEF MQTTClient_publish
  <2> HIDE DEF c
  <2>3. CallOK(World, c)
    BY <2>1 DEF CallOK
  <2>4. Result(r)
    BY <2>1, <2>3 DEF Result, SyncInv
  <2>5. Does(r)
    BY <2>2, WorldFields DEF Does, Becomes
  <2> HIDE DEF r
  <2> QED BY <1>1, <2>4, <2>5, ResultStep
<1>3. CASE ~Full
  <2>1. Does(StartPublish(World, sent))
    BY <1>3 DEF MQTTClient_publish
  <2>2. Result(StartPublish(World, sent))
    BY <1>1, IdleShape, PublishResult DEF SyncInv
  <2> QED BY <1>1, <2>1, <2>2, ResultStep
<1> QED BY <1>2, <1>3

\* a call that yields, or returns
LEMMA YieldStep ==
  ASSUME SyncInv, NEW ackSent, NEW keepalive, NEW wrote, Becomes(Yielded(ackSent, keepalive, wrote)), UNCHANGED call,
         left' \in [Calls -> Nat]
  PROVE  SyncInv'
<1>1. Keeps(World, Yielded(ackSent, keepalive, wrote))
  BY YieldKeeps DEF SyncInv
<1> QED BY <1>1, KeepsStep

LEMMA ReturnStep ==
  ASSUME SyncInv, Does(Returned(World)), left' \in [Calls -> Nat]
  PROVE  SyncInv'
<1>1. Result(Returned(World))
  BY ReturnedResult DEF SyncInv
<1> QED BY <1>1, ResultStep

LEMMA PublishGoesOnStep ==
  ASSUME SyncInv, NEW sent, NEW ackSent, NEW keepalive, NEW wrote,
         PublishBlocked(sent, ackSent, keepalive, wrote) \/ PublishWriting(ackSent, keepalive, wrote)
  PROVE  SyncInv'
<1>1. left' \in [Calls -> Nat] /\ CallShape(call) /\ call.pc # "stopping"
  BY DEF SyncInv, PublishBlocked, PublishWriting
<1>2. \/ Does(Returned(World))
      \/ Does(StartPublish(World, sent))
      \/ Becomes(Yielded(ackSent, keepalive, wrote)) /\ UNCHANGED call
  BY DEF PublishBlocked, PublishWriting
<1>3. call.what # "resend"
  BY <1>1 DEF SyncInv, CallOK
<1>4. Result(StartPublish(World, sent))
  BY <1>1, <1>3, PublishResult DEF SyncInv
<1> QED BY <1>1, <1>2, <1>4, YieldStep, ReturnStep, ResultStep

LEMMA CompleteStep ==
  ASSUME SyncInv, NEW msg \in DOMAIN hist.ids, MQTTClient_waitForCompletion(msg)
  PROVE  SyncInv'
<1> DEFINE c == [Idle EXCEPT !.name = "complete", !.pc = "completing", !.msg = msg]
           r == [w |-> World, call |-> c]
<1>1. left' \in [Calls -> Nat]
  BY BeginLeft DEF Calls, MQTTClient_waitForCompletion
<1>2. CallShape(c) /\ c.name = "complete" /\ c.pc = "completing" /\ c.what = "none" /\ c.msg = msg
  BY IdleShape DEF CallShape
<1>3. call' = c /\ UNCHANGED <<m, bg, net, hist>>
  BY DEF MQTTClient_waitForCompletion
<1> HIDE DEF c
<1>4. CallOK(World, c)
  BY <1>2, WorldFields DEF CallOK
<1>5. Result(r)
  BY <1>2, <1>4 DEF Result, SyncInv
<1>6. Does(r)
  BY <1>3, WorldFields DEF Does, Becomes
<1> HIDE DEF r
<1> QED BY <1>1, <1>5, <1>6, ResultStep

LEMMA CompletingStep ==
  ASSUME SyncInv, NEW ackSent, NEW keepalive, Completing(ackSent, keepalive)
  PROVE  SyncInv'
<1>1. left' \in [Calls -> Nat] /\ call.pc = "completing"
  BY DEF SyncInv, Completing
<1> DEFINE z == World
           v == [z EXCEPT !.hist.completed = z.hist.completed \cup {call.msg}]
<1>2. \/ Does(Returned(World))
      \/ ~InFlight(call.msg) /\ Does(Returned(v))
      \/ Becomes(Yielded(ackSent, keepalive, FALSE)) /\ UNCHANGED call
  BY DEF Completing
<1>3. ~InFlight(call.msg) => WorldInv(v)
  <2> SUFFICES ASSUME ~InFlight(call.msg) PROVE WorldInv(v)
    OBVIOUS
  <2>1. WorldInv(z) /\ z.m = m /\ z.hist = hist
    BY WorldFields DEF SyncInv
  <2>2. call.msg \in DOMAIN hist.ids
    BY <1>1, WorldFields DEF SyncInv, CallOK
  <2>3. call.msg \in hist.acked \cup hist.discarded
    BY <2>1, <2>2 DEF WorldInv, DoneOK, InFlight
  <2> HIDE DEF z
  <2>4. Shape(z) /\ LossOK(z.m, z.hist) /\ DoneOK(z.m, z.hist) /\ ThreadOK(z.m, z.bg, z.net, z.hist)
    BY <2>1 DEF WorldInv
  <2>5. /\ DOMAIN v = DOMAIN z /\ v.bg = z.bg /\ v.net = z.net /\ v.m = z.m
        /\ v.hist = [z.hist EXCEPT !.completed = z.hist.completed \cup {call.msg}]
    BY <2>4 DEF Shape
  <2> HIDE DEF v
  <2>6. /\ HistShape(v.hist) /\ v.hist.completed = z.hist.completed \cup {call.msg}
        /\ v.hist.ids = z.hist.ids
        /\ v.hist.conns = z.hist.conns /\ v.hist.ended = z.hist.ended /\ v.hist.discarded = z.hist.discarded
        /\ v.hist.raced = z.hist.raced /\ v.hist.disconnected = z.hist.disconnected
        /\ v.hist.acked = z.hist.acked /\ v.hist.lost = z.hist.lost
    BY <2>4, <2>5 DEF Shape, HistShape
  <2>7. Shape(v)
    BY <2>4, <2>5, <2>6 DEF Shape
  <2>8. LossOK(v.m, v.hist)
    BY <2>4, <2>5, <2>6 DEF LossOK, Over
  <2>9. ThreadOK(v.m, v.bg, v.net, v.hist)
    BY <2>4, <2>5, <2>6 DEF ThreadOK
  <2>10. DoneOK(v.m, v.hist)
    BY <2>1, <2>3, <2>4, <2>5, <2>6 DEF DoneOK
  <2> QED BY <2>7, <2>8, <2>9, <2>10 DEF WorldInv
<1> HIDE DEF v
<1>4. ~InFlight(call.msg) => Result(Returned(v))
  BY <1>3, ReturnedResult
<1> QED BY <1>1, <1>2, <1>4, YieldStep, ReturnStep, ResultStep

(***************************************************************************)
(* Disconnecting, and the end of a stop.                                   *)
(***************************************************************************)
LEMMA AppDisconnectsResult ==
  ASSUME WorldInv(World)
  PROVE  Result(AppDisconnects(World))
<1> DEFINE z == World
           e == IF z.m.connected THEN [z EXCEPT !.hist.ended = z.hist.ended \cup {z.hist.conns}] ELSE z
           v == MQTTClient_disconnect1(e, FALSE, TRUE)
           r == Stopped(e, v)
<1>1. AppDisconnects(World) = Named("disconnect", r)
  BY DEF AppDisconnects
<1> HIDE DEF z
<1>2. WorldInv(z)
  BY DEF z
<1>3. WorldInv(e) /\ (e.m.connected => e.hist.conns \in e.hist.ended)
  <2>1. CASE ~z.m.connected
    BY <1>2, <2>1
  <2>2. CASE z.m.connected
    <3> DEFINE u == [z EXCEPT !.hist.ended = z.hist.ended \cup {z.hist.conns}]
    <3>1. Shape(z) /\ LossOK(z.m, z.hist) /\ DoneOK(z.m, z.hist) /\ ThreadOK(z.m, z.bg, z.net, z.hist)
      BY <1>2 DEF WorldInv
    <3>2. e = u
      BY <2>2
    <3>3. /\ DOMAIN u = DOMAIN z /\ u.bg = z.bg /\ u.net = z.net /\ u.m = z.m
          /\ u.hist = [z.hist EXCEPT !.ended = z.hist.ended \cup {z.hist.conns}]
      BY <3>1 DEF Shape
    <3> HIDE DEF u, e
    <3>4. /\ HistShape(u.hist) /\ u.hist.ended = z.hist.ended \cup {z.hist.conns}
          /\ u.hist.ids = z.hist.ids /\ u.hist.completed = z.hist.completed
          /\ u.hist.conns = z.hist.conns /\ u.hist.discarded = z.hist.discarded
          /\ u.hist.raced = z.hist.raced /\ u.hist.disconnected = z.hist.disconnected
          /\ u.hist.acked = z.hist.acked /\ u.hist.lost = z.hist.lost
      BY <3>1, <3>3 DEF Shape, HistShape
    <3>5. Shape(u)
      BY <3>1, <3>3, <3>4 DEF Shape
    <3>6. LossOK(u.m, u.hist)
      BY <3>1, <3>3, <3>4 DEF LossOK, Over
    <3>7. ThreadOK(u.m, u.bg, u.net, u.hist)
      BY <3>1, <3>3, <3>4 DEF ThreadOK
    <3>8. DoneOK(u.m, u.hist)
      BY <3>1, <3>3, <3>4 DEF DoneOK
    <3> QED BY <3>2, <3>4, <3>5, <3>6, <3>7, <3>8 DEF WorldInv
  <2> QED BY <2>1, <2>2
<1> HIDE DEF e
<1>4. Goes(e, v) /\ ~v.m.connected
  <2>1. TRUE \in BOOLEAN /\ FALSE \in BOOLEAN
    OBVIOUS
  <2>2. e.m.ma /\ e.m.connected => FALSE \/ e.hist.conns \in e.hist.ended \cup e.hist.disconnected
    BY <1>3
  <2> QED BY <1>3, <2>1, <2>2, DisconnectGoes
<1> HIDE DEF v
<1>5. Unconnected(r)
  BY <1>4, StoppedResult DEF Goes
<1> HIDE DEF r
<1>6. Result(Named("disconnect", r))
  BY <1>5, UnconnectedResult, NamedOther DEF Unconnected
<1> QED BY <1>1, <1>6

LEMMA DisconnectStep ==
  ASSUME SyncInv, MQTTClient_disconnect
  PROVE  SyncInv'
<1>1. left' \in [Calls -> Nat] /\ WorldInv(World)
  BY BeginLeft DEF Calls, MQTTClient_disconnect, SyncInv
<1>2. CASE m.connected /\ m.out # {}
  <2> DEFINE u == [World EXCEPT !.m.state = "DISCONNECTING"]
             c == [Idle EXCEPT !.name = "disconnect", !.pc = "drain"]
             r == [w |-> u, call |-> c]
  <2>1. Does(r)
    BY <1>2 DEF MQTTClient_disconnect
  <2>2. CallShape(c) /\ c.name = "disconnect" /\ c.pc = "drain" /\ c.what = "none"
    BY IdleShape DEF CallShape
  <2>3. Noted(World, u)
    BY <1>1, NoteKeeps
  <2> HIDE DEF c, u
  <2>4. WorldInv(u) /\ CallOK(u, c)
    BY <2>2, <2>3 DEF Noted, Keeps, Goes, CallOK
  <2>5. Result(r)
    BY <2>2, <2>4 DEF Result
  <2> HIDE DEF r
  <2> QED BY <1>1, <2>1, <2>5, ResultStep
<1>3. CASE ~(m.connected /\ m.out # {})
  <2>1. Does(AppDisconnects(World))
    BY <1>3 DEF MQTTClient_disconnect
  <2> QED BY <1>1, <2>1, AppDisconnectsResult, ResultStep
<1> QED BY <1>2, <1>3

LEMMA DrainingStep ==
  ASSUME SyncInv, NEW ackSent, NEW keepalive, Draining(ackSent, keepalive)
  PROVE  SyncInv'
<1>1. left' \in [Calls -> Nat] /\ WorldInv(World)
  BY DEF SyncInv, Draining
<1>2. Does(AppDisconnects(World)) \/ (Becomes(Yielded(ackSent, keepalive, FALSE)) /\ UNCHANGED call)
  BY DEF Draining
<1> QED BY <1>1, <1>2, AppDisconnectsResult, ResultStep, YieldStep

LEMMA StoppingStep ==
  ASSUME SyncInv, NEW o3, Stopping(o3)
  PROVE  SyncInv'
<1>1. left' \in [Calls -> Nat] /\ WorldInv(World) /\ CallShape(call) /\ (~bg.running \/ call.late)
  BY DEF SyncInv, Stopping
<1>2. CASE call.what = "resend"
  <2>1. Does(Failed(World, call.version, o3))
    BY <1>2 DEF Stopping
  <2>2. ~World.m.connected
    BY <1>2 DEF SyncInv, CallOK
  <2>3. Unconnected(Failed(World, call.version, o3))
    BY <1>1, <2>2, FailedResult
  <2> QED BY <1>1, <2>1, <2>3, UnconnectedResult, ResultStep
<1>3. CASE call.what # "resend"
  <2>1. Does(Returned(World))
    BY <1>3 DEF Stopping
  <2> QED BY <1>1, <2>1, ReturnStep
<1> QED BY <1>2, <1>3

LEMMA ReceiveStep ==
  ASSUME SyncInv, NEW ackSent, NEW keepalive, MQTTClient_receive(ackSent, keepalive)
  PROVE  SyncInv'
<1> DEFINE r == MQTTClient_cycle(World, Ready(World), ackSent, keepalive)
           u == r.w
           x == Tail(u.m.queue)
           w == IF u.m.queue # <<>> THEN [u EXCEPT !.m.queue = x] ELSE u
           v == IF r.rc = "error" THEN MQTTClient_disconnect_internal(w) ELSE w
<1>1. left' \in [Calls -> Nat] /\ WorldInv(World)
  BY BeginLeft DEF Calls, MQTTClient_receive, SyncInv
<1>2. Becomes(v) /\ UNCHANGED call /\ ~bg.running
  BY DEF MQTTClient_receive
<1>3. Keeps(World, u) /\ u.bg.running = bg.running
  BY <1>1, CycleKeeps, WorldFields
<1> DEFINE c == r.rc
<1>4. v = IF c = "error" THEN MQTTClient_disconnect_internal(w) ELSE w
  OBVIOUS
<1> HIDE DEF u, x, c, v
<1>5. WorldInv(u)
  BY <1>3 DEF Keeps, Goes
<1>6. Keeps(u, w) /\ w.bg = u.bg
  <2>1. Noted(u, [u EXCEPT !.m.queue = x])
    BY <1>5, NoteKeeps
  <2> QED BY <1>5, <2>1, KeepsRefl DEF Noted
<1> HIDE DEF w
<1>7. WorldInv(w)
  BY <1>6 DEF Keeps, Goes
<1>8. Keeps(w, MQTTClient_disconnect_internal(w))
  BY <1>2, <1>3, <1>6, <1>7, InternalKeeps
<1>9. Keeps(w, v)
  BY <1>4, <1>7, <1>8, KeepsRefl
<1>10. Keeps(World, v)
  BY <1>3, <1>6, <1>9, KeepsTrans
<1> QED BY <1>1, <1>2, <1>10, KeepsStep

LEMMA ExpireStep ==
  ASSUME SyncInv, Expire
  PROVE  SyncInv'
<1> DEFINE c == [call EXCEPT !.late = TRUE]
<1>1. call' = c /\ UNCHANGED <<m, bg, net, hist, left>>
  BY DEF Expire
<1>2. CallShape(c) /\ c.name = call.name /\ c.pc = call.pc /\ c.what = call.what /\ c.msg = call.msg
  BY DEF SyncInv, CallShape
<1> HIDE DEF c
<1>3. CallOK(World, c)
  BY <1>2 DEF SyncInv, CallOK
<1>4. Becomes(World)
  BY <1>1, WorldFields DEF Becomes
<1>5. WorldInv(World)' /\ CallOK(World', c)
  BY <1>3, <1>4, BecomesInv DEF SyncInv
<1>6. CallOK(World, call)' /\ CallShape(call)'
  BY <1>1, <1>2, <1>5 DEF CallOK, CallShape, Alive
<1> QED BY <1>1, <1>5, <1>6 DEF SyncInv

(***************************************************************************)
(* The theorems.                                                           *)
(***************************************************************************)
LEMMA SyncInit == Init => SyncInv
<1> SUFFICES ASSUME Init PROVE SyncInv
  OBVIOUS
<1>1. PICK s \in Setups :
        /\ left = s.calls
        /\ m = [ma |-> s.client.ma, websocket |-> s.client.websocket, clean |-> s.client.clean, v |-> s.client.v,
               connected |-> FALSE, state |-> "NOT_IN_PROGRESS", open |-> FALSE, pending |-> FALSE, pack |-> NoPack,
               rc |-> 0, sem |-> [s1 \in Sems |-> 0], out |-> {}, msgID |-> 0, queue |-> <<>>]
  BY DEF Init
<1>2. left \in [Calls -> Nat] /\ s.client.ma \in BOOLEAN
  BY <1>1, SetupsAssumption
<1>3. ClientShape(m) /\ m.connected = FALSE /\ m.out = {}
  BY <1>1, <1>2 DEF ClientShape
<1>4. ThreadShape(bg) /\ bg.running = FALSE /\ bg.tostop = FALSE /\ bg.pc = "off"
  BY DEF Init, Off, ThreadShape
<1>5. NetShape(net) /\ net.in = <<>>
  BY DEF Init, NoNet, NetShape
<1>6. HistShape(hist) /\ hist.conns = 0 /\ hist.ids = <<>> /\ hist.completed = {}
  BY DEF Init, HistShape
<1>7. Shape(World)
  BY <1>3, <1>4, <1>5, <1>6, WorldFields DEF Shape
<1>8. LossOK(m, hist) /\ DoneOK(m, hist) /\ ThreadOK(m, bg, net, hist)
  <2>1. DOMAIN hist.ids = {} /\ DOMAIN net.in = {} /\ 1 .. hist.conns = {}
    BY <1>5, <1>6
  <2> QED BY <1>3, <1>4, <1>6, <2>1 DEF LossOK, DoneOK, ThreadOK
<1>9. WorldInv(World)
  BY <1>7, <1>8, WorldFields DEF WorldInv
<1>10. CallShape(call) /\ CallOK(World, call)
  BY IdleShape DEF Init, CallOK
<1> QED BY <1>2, <1>9, <1>10 DEF SyncInv

LEMMA SyncStep == SyncInv /\ [Next]_vars => SyncInv'
<1> SUFFICES ASSUME SyncInv, [Next]_vars PROVE SyncInv'
  OBVIOUS
<1>1. CASE UNCHANGED vars
  <2>1. Becomes(World) /\ UNCHANGED <<call, left>>
    BY <1>1, WorldFields DEF vars, Becomes
  <2>2. Keeps(World, World) /\ left' \in [Calls -> Nat]
    BY <2>1, KeepsRefl DEF SyncInv
  <2> QED BY <2>1, <2>2, KeepsStep
<1>2. CASE CallNext
  BY <1>2, EnterWaitStep, WaitSemStep, WaitPollStep, PublishGoesOnStep, CompletingStep, DrainingStep, StoppingStep DEF CallNext
<1>3. CASE AppNext
  <2>1. ASSUME NEW ackSent, NEW keepalive, NEW wrote, MQTTClient_yield(ackSent, keepalive, wrote)
        PROVE  SyncInv'
    <3>1. left' \in [Calls -> Nat]
      BY <2>1, BeginLeft DEF Calls, MQTTClient_yield
    <3> QED BY <2>1, <3>1, YieldStep DEF MQTTClient_yield
  <2>2. ASSUME NEW sent, MQTTClient_subscribeMany5(sent) \/ MQTTClient_unsubscribeMany5(sent)
        PROVE  SyncInv'
    BY <2>2, RequestStep DEF MQTTClient_subscribeMany5, MQTTClient_unsubscribeMany5
  <2> QED BY <1>3, <2>1, <2>2, ConnectStep, PublishStep, CompleteStep, DisconnectStep, ReceiveStep DEF AppNext
<1> QED BY <1>1, <1>2, <1>3, RunStep, NetStep, ExpireStep DEF Next

LEMMA SyncAlways == Spec => []SyncInv
BY SyncInit, SyncStep, PTL DEF Spec

\* A client with callbacks that is connected is served by a thread that goes
\* on running, unless its connect call, or the second attempt of that call,
\* began while the thread was being stopped: MQTTClient_stop, MQTTClient_run and connectURIVersion, whatever
\* the order in which they meet.
THEOREM ThreadServes == Spec => []Served
<1>1. SyncInv => Served
  BY WorldFields DEF SyncInv, WorldInv, ThreadOK, Alive, Served
<1> QED BY <1>1, SyncAlways, PTL

\* A connection that is over was ended by the application or reported to it,
\* and connectionLost is called at most once for it, whoever found it broken:
\* MQTTClient_disconnect1 and its callers.
THEOREM LossAlwaysReported == Spec => []LossReported
<1>1. SyncInv => LossReported
  BY WorldFields DEF SyncInv, WorldInv, LossOK, Over, LossReported
<1> QED BY <1>1, SyncAlways, PTL

\* waitForCompletion succeeds only for a message that was acknowledged or
\* thrown away with its session, although it compares ids, which are used
\* again.
THEOREM CompletionTrue == Spec => []CompletionMeansAcked
<1>1. SyncInv => CompletionMeansAcked
  BY WorldFields DEF SyncInv, WorldInv, DoneOK, CompletionMeansAcked
<1> QED BY <1>1, SyncAlways, PTL

====
