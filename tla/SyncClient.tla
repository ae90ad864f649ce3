----------------------------- MODULE SyncClient ------------------------------
(***************************************************************************)
(* The synchronous client, MQTTClient.c: one client, the application,      *)
(* which makes one call at a time (MQTTClient.h:1485: "This API is not     *)
(* thread safe"), and, once callbacks are set, the background thread       *)
(* MQTTClient_run, which is started by a connect and stopped when no       *)
(* connection needs it.  A step is what happens between taking and         *)
(* releasing mqttclient_mutex.  A call that waits for a packet waits for a *)
(* semaphore the thread posts, or, without the thread, reads the socket    *)
(* itself (MQTTClient_waitfor).  The message flows are those of QoSFlow,   *)
(* here a PUBLISH and the packet that ends its flow.                       *)
(***************************************************************************)
EXTENDS Integers, Sequences, FiniteSets

CONSTANTS
  Setups,          \* clients (callbacks set, WebSocket or not, version, clean session), and how often
                   \* the application makes each call and the server publishes
  MaxIds,          \* message ids
  MaxInflight      \* maxInflightMessages

Calls == {"connect", "subscribe", "unsubscribe", "publish", "complete", "disconnect", "yield", "receive", "arrive"}

ASSUME BoundsAssumption == MaxIds \in Nat /\ MaxInflight \in 1 .. MaxIds - 1
ASSUME SetupsAssumption ==
  \A s \in Setups :
    /\ s.client \in [ma : BOOLEAN, websocket : BOOLEAN, v : {4, 5}, clean : BOOLEAN]
    /\ s.calls \in [Calls -> Nat]

VARIABLES
  m,               \* the client, MQTTClients and Clients
  bg,              \* the background thread, running and tostop
  call,            \* the call the application is in
  net,             \* its connection and the server at the other end
  hist,            \* what the application was told
  left             \* the calls and messages that are left

vars == <<m, bg, call, net, hist, left>>

NoPack == "none"
Sems == {"connect", "connack", "suback", "unsuback"}

NoNet == [tcp |-> "none", in |-> <<>>, eof |-> FALSE, req |-> {}, ws |-> "none"]
Off == [running |-> FALSE, tostop |-> FALSE, pc |-> "off", sock |-> FALSE, rc |-> "ok", pack |-> NoPack, qe |-> 0]
Idle == [name |-> "none", pc |-> "none", what |-> "none", mode |-> "none", version |-> 0, late |-> FALSE, msg |-> 0]

Init ==
  /\ \E s \in Setups :
       /\ left = s.calls
       /\ m = [ma |-> s.client.ma, websocket |-> s.client.websocket, clean |-> s.client.clean, v |-> s.client.v,
               connected |-> FALSE, state |-> "NOT_IN_PROGRESS", open |-> FALSE, pending |-> FALSE, pack |-> NoPack,
               rc |-> 0, sem |-> [s1 \in Sems |-> 0], out |-> {}, msgID |-> 0, queue |-> <<>>]
  /\ bg = Off /\ call = Idle /\ net = NoNet
  /\ hist = [conns |-> 0, ended |-> {}, lost |-> <<>>, disconnected |-> {}, raced |-> {}, ids |-> <<>>, acked |-> {},
             discarded |-> {}, completed |-> {}]

World == [m |-> m, bg |-> bg, net |-> net, hist |-> hist]
Becomes(w) == m' = w.m /\ bg' = w.bg /\ net' = w.net /\ hist' = w.hist

(***************************************************************************)
(* Ending a session.                                                       *)
(***************************************************************************)
\* also MQTTPersistence_clear and msgID
MQTTClient_cleanSession(w) ==
  [w EXCEPT !.m.out = {}, !.m.queue = <<>>, !.m.msgID = 0,
            !.hist.discarded = @ \cup {x.msg : x \in w.m.out}]

\* A session that ends with its connection.
MQTTClient_closeSessionDrops(w) ==
  [w EXCEPT !.m.connected = FALSE, !.m.state = "NOT_IN_PROGRESS", !.m.open = FALSE, !.m.pending = FALSE,
            !.net = NoNet, !.m.out = {}]

\* the DISCONNECT packet, if one can be sent, and the close of the socket end the server's side
MQTTClient_closeSession(w) ==
  LET c == [w EXCEPT !.m.connected = FALSE, !.m.state = "NOT_IN_PROGRESS", !.m.open = FALSE, !.m.pending = FALSE,
                     !.net = NoNet]
  IN IF w.m.clean /\ w.m.v # 5 THEN MQTTClient_cleanSession(c) ELSE c

InUse(w) == w.m.connected \/ w.m.state \notin {"NOT_IN_PROGRESS", "DISCONNECTING"}

\* MQTTClient_stop up to its wait for the thread
MQTTClient_stop(w) ==
  IF w.bg.running /\ ~w.bg.tostop /\ ~InUse(w) THEN [w EXCEPT !.bg.tostop = TRUE] ELSE w

\* A report whether the connection was up or not.
ReportLostAlways(w, was) == [w EXCEPT !.hist.lost = IF @ = <<>> THEN @ ELSE [@ EXCEPT ![w.hist.conns] = @ + 1]]

ReportLost(w, was) == IF was THEN [w EXCEPT !.hist.lost[w.hist.conns] = @ + 1] ELSE w

\* MQTTClient_disconnect1 after its wait for the messages in flight.  The report is made after the wait
\* of MQTTClient_stop, in which the application is inside its call.
MQTTClient_disconnect1(w, call_connection_lost, stop) ==
  LET c == MQTTClient_closeSession(w)
      s == IF stop THEN MQTTClient_stop(c) ELSE c
  IN IF call_connection_lost /\ w.m.ma THEN ReportLost(s, w.m.connected) ELSE s

MQTTClient_disconnect_internal(w) == MQTTClient_disconnect1(w, TRUE, TRUE)

(***************************************************************************)
(* MQTTClient_cycle: sock says that the socket was ready; a packet that is *)
(* not handled here is returned.  keepalive says that no PINGRESP came in  *)
(* time or the PINGREQ could not be sent; ackSent that an acknowledgement  *)
(* was written.                                                            *)
(***************************************************************************)
Ready(w) ==
  /\ w.m.open /\ ~w.m.pending
  /\ \/ w.m.state = "TCP_IN_PROGRESS" /\ w.net.tcp # "syn"
     \/ w.net.tcp = "up" /\ (w.net.in # <<>> \/ w.net.eof \/ w.net.ws \in {"yes", "no"})

\* MQTTProtocol_handlePubacks, handlePubcomps
Acked(w, id) ==
  [w EXCEPT !.m.out = {x \in @ : x.id # id},
            !.hist.acked = @ \cup {x.msg : x \in {y \in w.m.out : y.id = id}}]

Protocol_processPublication(w, id) == [w EXCEPT !.m.queue = Append(@, id)]

ReadPacket(w, ackSent) ==
  LET p == Head(w.net.in)
      r == [w EXCEPT !.net.in = Tail(@)]
  IN IF w.net.in = <<>> THEN [w |-> w, rc |-> IF w.net.eof THEN "error" ELSE "ok", pack |-> NoPack]
     ELSE CASE p.type = "PUBACK" -> [w |-> Acked(r, p.id), rc |-> "ok", pack |-> NoPack]
            [] p.type = "PUBLISH" ->      \* and the acknowledgement
               [w |-> Protocol_processPublication(r, p.id), rc |-> IF ackSent THEN "ok" ELSE "error", pack |-> NoPack]
            [] OTHER -> [w |-> r, rc |-> "ok", pack |-> p.type]

\* the request is written whatever becomes of it
WebSocket_connect(w, written) ==
  [w EXCEPT !.m.state = "WEBSOCKET_IN_PROGRESS", !.net.ws = IF written THEN "asked" ELSE "none"]

\* the response of the server: not there yet, or the end of the connection, a refusal, an upgrade
WebSocket_upgrade(w) ==
  IF w.net.ws = "yes" THEN "ok" ELSE IF w.net.ws = "no" \/ w.net.eof THEN "error" ELSE "interrupted"

MQTTProtocol_keepalive(w, fails) == IF fails /\ w.m.connected THEN MQTTClient_disconnect_internal(w) ELSE w

MQTTClient_cycle(w, sock, ackSent, keepalive) ==
  LET r == IF ~sock \/ ~w.m.open \/ w.m.state = "TCP_IN_PROGRESS" THEN [w |-> w, rc |-> "ok", pack |-> NoPack]
           ELSE IF w.m.state = "WEBSOCKET_IN_PROGRESS"
           THEN [w |-> IF WebSocket_upgrade(w) = "interrupted" THEN w ELSE [w EXCEPT !.net.ws = "none"],
                 rc |-> WebSocket_upgrade(w), pack |-> NoPack]
           ELSE ReadPacket(w, ackSent)
  IN [r EXCEPT !.w = MQTTProtocol_keepalive(@, keepalive)]

(***************************************************************************)
(* The background thread.                                                  *)
(***************************************************************************)
\* A thread that leaves the flag behind.
ExitRunning(w) == [w EXCEPT !.bg = [Off EXCEPT !.running = TRUE]]

Exit(w) == [w EXCEPT !.bg = Off]

Loop(w) == IF w.bg.tostop THEN Exit(w) ELSE [w EXCEPT !.bg = [Off EXCEPT !.running = TRUE, !.pc = "select"]]

Post(w, sem) == [w EXCEPT !.m.sem[sem] = 1]      \* Thread_post_sem: at most one

\* the semaphore that is posted for a packet
SemOfPack(pack) == CASE pack \in {"CONNACK", "REFUSED"} -> "connack" [] pack = "SUBACK" -> "suback"
                     [] pack = "UNSUBACK" -> "unsuback" [] OTHER -> "none"

Disconnected(w) ==      \* and the callback disconnected is called
  Loop([MQTTClient_disconnect1(w, FALSE, TRUE) EXCEPT !.hist.disconnected = @ \cup {w.hist.conns}])

\* what the thread does with the packet of its cycle, or without one
HandlePacket(w) ==
  IF SemOfPack(w.bg.pack) # "none" THEN Loop(Post([w EXCEPT !.m.pack = w.bg.pack], SemOfPack(w.bg.pack)))
  ELSE IF w.bg.pack = "DISCONNECT"
  THEN IF w.m.connected /\ w.m.out # {} THEN [w EXCEPT !.bg.pc = "drain", !.m.state = "DISCONNECTING"]
       ELSE Disconnected(w)
  ELSE IF w.m.state = "TCP_IN_PROGRESS"
  THEN Loop(Post([w EXCEPT !.m.rc = IF w.net.tcp = "refused" THEN 1 ELSE 0, !.m.state = "NOT_IN_PROGRESS"], "connect"))
  ELSE IF w.m.state = "WEBSOCKET_IN_PROGRESS" /\ w.bg.rc # "interrupted"
  THEN Loop(Post([w EXCEPT !.m.state = "WAIT_FOR_CONNACK"], "connect"))
  ELSE Loop(w)

\* Socket_getReadySocket, without the mutex; a pending write may go on
RunSelect(wrote) ==
  /\ bg.pc = "select"
  /\ (wrote => m.pending)
  /\ LET w == [World EXCEPT !.m.pending = @ /\ ~wrote]
     IN Becomes([w EXCEPT !.bg.pc = "cycle", !.bg.sock = Ready(w)])
  /\ UNCHANGED <<call, left>>

RunCycle(ackSent, keepalive) ==
  /\ bg.pc = "cycle"
  /\ LET r == MQTTClient_cycle(World, bg.sock, ackSent, keepalive)
     IN Becomes([r.w EXCEPT !.bg.pc = "handle", !.bg.rc = r.rc, !.bg.pack = r.pack])
  /\ UNCHANGED <<call, left>>

\* the mutex is taken again; the client is the one that has the socket now, and a closed client has
\* socket 0, which also means that no socket was ready
RunHandle ==
  /\ bg.pc = "handle"
  /\ LET w == World
     IN Becomes(IF bg.tostop THEN Exit(w)
                ELSE IF bg.sock # m.open THEN Loop(w)
                ELSE IF bg.rc = "error"
                     THEN IF m.connected THEN Loop(MQTTClient_disconnect_internal(w))
                          ELSE IF m.state = "WAIT_FOR_CONNACK"
                               THEN Loop(Post([w EXCEPT !.m.state = "NOT_IN_PROGRESS"], "connack"))
                               ELSE Loop(w)
                ELSE IF m.queue # <<>> THEN [w EXCEPT !.bg.pc = "callback", !.bg.qe = Head(m.queue)]
                ELSE HandlePacket(w))
  /\ UNCHANGED <<call, left>>

\* messageArrived returns; if TRUE, the entry is removed.  Its result replaces rc.
RunCallback(taken) ==
  /\ bg.pc = "callback"
  /\ LET w == [World EXCEPT !.bg.rc = "ok"]
     IN Becomes(HandlePacket(IF taken THEN [w EXCEPT !.m.queue = SelectSeq(@, LAMBDA q : q # bg.qe)] ELSE w))
  /\ UNCHANGED <<call, left>>

\* after a DISCONNECT packet the messages in flight have 10 ms
RunDrained ==
  /\ bg.pc = "drain"
  /\ Becomes(Disconnected(World))
  /\ UNCHANGED <<call, left>>

(***************************************************************************)
(* Calls.  A result r has the world and the record of the call after it.   *)
(***************************************************************************)
Returned(w) == [w |-> w, call |-> Idle]

\* a call that has stopped the thread waits for it, up to 10 seconds
Stopped(before, w) ==
  IF w.bg.tostop /\ ~before.bg.tostop THEN [w |-> w, call |-> [Idle EXCEPT !.name = call.name, !.pc = "stopping"]]
  ELSE Returned(w)

Lost(w) == Stopped(w, MQTTClient_disconnect_internal(w))

\* MQTTClient_waitfor is entered
WaitFor(w, what, version) ==
  [w |-> w, call |-> [call EXCEPT !.pc = "wait", !.what = what, !.mode = "enter", !.version = version], failed |-> FALSE]

Does(r) == Becomes(r.w) /\ call' = r.call
Named(name, r) == IF r.call = Idle THEN r ELSE [r EXCEPT !.call.name = name]

Begin(name) ==
  /\ call = Idle /\ left[name] > 0
  /\ left' = [left EXCEPT ![name] = @ - 1]

SendRequest(w, request) == [w EXCEPT !.net.req = @ \cup {request}]

(***************************************************************************)
(* Connecting.  o is what the system makes of it: Socket_new fails, is     *)
(* under way or done, and in the end the packet cannot be written.         *)
(***************************************************************************)
Outcomes == {"fail", "syn", "up", "unsent"}

SentConnect(w, version) ==
  WaitFor(SendRequest([w EXCEPT !.m.state = "WAIT_FOR_CONNACK"], [type |-> "CONNECT", id |-> 0]), "connack", version)

\* a thread that is being stopped still counts as running; a new one has set running within the
\* 100 ms connect sleeps
StartThread(w) ==
  IF w.m.ma /\ ~w.bg.running THEN [w EXCEPT !.bg = [Off EXCEPT !.running = TRUE, !.pc = "select"]] ELSE w

\* ghost: the next connection takes a thread that is on its way out for a running one
Raced(w) ==
  [w EXCEPT !.hist.raced = IF w.bg.running /\ w.bg.tostop THEN @ \cup {w.hist.conns + 1} ELSE @ \ {w.hist.conns + 1}]

\* MQTTClient_connectURIVersion up to its first wait, or its failure.  The time is looked at only
\* after a thread was started.
Attempt(w, version, o) ==
  LET s == StartThread(Raced(w))
      c == [s EXCEPT !.m.open = TRUE, !.net = [NoNet EXCEPT !.tcp = IF o = "syn" THEN "syn" ELSE "up"]]
      failure(u) == [w |-> u, call |-> Idle, failed |-> TRUE]
      tooLate == call.late /\ w.m.ma /\ ~w.bg.running
  IN IF o = "fail" \/ tooLate THEN failure(s)
     ELSE IF o = "syn" THEN WaitFor([c EXCEPT !.m.state = "TCP_IN_PROGRESS"], "tcp", version)
     ELSE IF w.m.websocket THEN WaitFor(WebSocket_connect(c, o = "up"), "websocket", version)
     ELSE IF o = "unsent" THEN failure(c)
     ELSE SentConnect(c, version)

Fail3(w) == Stopped(w, MQTTClient_disconnect1(w, FALSE, TRUE))

\* version 4 is followed by version 3, after which the thread is stopped
Failed(w, version, o) ==
  LET closed == MQTTClient_disconnect1(w, FALSE, FALSE)
      second == Attempt(closed, 3, o)
  IN CASE version = 4 -> IF second.failed THEN Fail3(second.w) ELSE second
       [] version = 3 -> Fail3(w)
       [] OTHER -> Returned(closed)

MQTTClient_connectURI(w, o, o3) ==
  LET v == IF w.m.v = 5 THEN 5 ELSE 4
      first == Attempt(w, v, o)
  IN IF first.failed THEN Failed(first.w, v, o3) ELSE first

\* the application connects when it is not connected
MQTTClient_connect(o, o3) ==
  /\ Begin("connect") /\ ~m.connected
  /\ Does(Named("connect", MQTTClient_connectURI(World, o, o3)))

\* what follows the wait for the TCP connect, which returned rc
TcpConnected(w, rc, o, o3) ==
  IF rc # 0 THEN Failed(w, call.version, o3)
  ELSE IF w.m.websocket THEN WaitFor(WebSocket_connect(w, o # "unsent"), "websocket", call.version)
  ELSE IF o = "unsent" THEN Failed(w, call.version, o3)
  ELSE SentConnect(w, call.version)

\* whatever the wait for the upgrade returned
Upgraded(w, o, o3) ==
  IF o # "unsent" THEN SentConnect(w, call.version)
  ELSE Failed([w EXCEPT !.m.state = "WAIT_FOR_CONNACK"], call.version, o3)

\* the wait for the CONNACK returned pack; a call may get as far as this twice
Connacked(w, pack, o, o3) ==
  LET v == call.version
      up == [w EXCEPT !.m.connected = TRUE, !.m.state = "NOT_IN_PROGRESS", !.m.pack = NoPack,
                      !.hist.conns = @ + 1, !.hist.lost = Append(@, 0)]
      cleaned == IF w.m.clean THEN MQTTClient_cleanSession(up) ELSE up
      resent == [cleaned EXCEPT !.net.req = @ \cup {[type |-> "PUBLISH", id |-> x.id] : x \in cleaned.m.out}]
      lost == Lost(cleaned)
  IN IF pack = NoPack THEN Failed(w, v, o3)
     ELSE IF pack # "CONNACK" THEN Failed([w EXCEPT !.m.pack = NoPack], v, o3)
     ELSE IF cleaned.m.out = {} \/ o # "unsent" THEN Returned(resent)
     ELSE IF lost.call = Idle THEN Failed(lost.w, v, o3)        \* MQTTProtocol_retry could not resend
     ELSE [lost EXCEPT !.call.what = "resend", !.call.version = v]

ConnectGoesOn(w, rc, pack, o, o3) ==
  CASE call.what = "tcp" -> TcpConnected(w, rc, o, o3)
    [] call.what = "websocket" -> Upgraded(w, o, o3)
    [] OTHER -> Connacked(w, pack, o, o3)

(***************************************************************************)
(* Subscribing.                                                            *)
(***************************************************************************)
\* MQTTProtocol_assignMsgId: the first id after the last one that is not in flight, 0 if there is none
NextId(w) ==
  LET free == 1 .. MaxIds \ ({x.id : x \in w.m.out} \cup {w.m.msgID})
      above == {i \in free : i > w.m.msgID}
      least(S) == CHOOSE i \in S : \A j \in S : i <= j
  IN IF free = {} THEN 0 ELSE IF above # {} THEN least(above) ELSE least(free)

\* a packet written in part is not waited for
Request(name, ack, sent) ==
  /\ Begin(name) /\ m.connected
  /\ LET id == NextId(World)
         w == [World EXCEPT !.m.msgID = id]
         r == CASE sent = "ok" -> WaitFor(SendRequest(w, [type |-> name, id |-> 0]), ack, 0)
                [] sent = "part" -> Returned([w EXCEPT !.m.pending = TRUE])
                [] OTHER -> Lost(w)
     IN Does(IF id = 0 THEN Returned(World) ELSE Named(name, r))

MQTTClient_subscribeMany5(sent) == Request("subscribe", "suback", sent)
MQTTClient_unsubscribeMany5(sent) == Request("unsubscribe", "unsuback", sent)

RequestGoesOn(w, pack) == IF pack = NoPack THEN Lost(w) ELSE Returned([w EXCEPT !.m.pack = NoPack])

(***************************************************************************)
(* Waiting.  The thread is sampled once, without the mutex.                *)
(***************************************************************************)
GoesOn(w, rc, pack, o, o3) ==
  IF call.name = "connect" THEN ConnectGoesOn(w, rc, pack, o, o3) ELSE RequestGoesOn(w, pack)

\* What is left of connect's time is an unsigned difference.  If it is 0 the wait is over; a moment
\* later it is huge, and a wait without the thread has no end.  The other calls start their own clock.
Overdue == call.name = "connect" /\ call.late

EnterWait(o, o3) ==
  /\ call.pc = "wait" /\ call.mode = "enter"
  /\ \/ Overdue /\ Does(GoesOn(World, 1, NoPack, o, o3))
     \/ /\ call' = [call EXCEPT !.mode = IF bg.running THEN "sem" ELSE IF Overdue THEN "endless" ELSE "poll"]
        /\ UNCHANGED <<m, bg, net, hist>>
  /\ UNCHANGED left

SemOf(what) == IF what \in {"tcp", "websocket"} THEN "connect" ELSE what

\* A wait that is not cut off.
Thread_wait_sem_forever(sem) == IF m.sem[sem] = 1 THEN {0} ELSE {}

\* Thread_wait_sem: how it may return
Thread_wait_sem(sem) == IF m.sem[sem] = 1 THEN {0} ELSE IF call.late THEN {1} ELSE {}

\* the packet in the client is taken even after a timeout
WaitSem(o, o3) ==
  /\ call.pc = "wait" /\ call.mode = "sem"
  /\ \E rc \in Thread_wait_sem(SemOf(call.what)) :
       LET w == [World EXCEPT !.m.sem[SemOf(call.what)] = 0]
       IN Does(GoesOn(w, IF rc = 0 THEN m.rc ELSE rc, m.pack, o, o3))
  /\ UNCHANGED left

\* without the thread: one cycle, and what its result means for the wait
WaitPoll(ackSent, keepalive, o, o3) ==
  /\ call.pc = "wait" /\ call.mode \in {"poll", "endless"}
  /\ LET sock == Ready(World)
         r == MQTTClient_cycle(World, sock, ackSent, keepalive)
         own == sock /\ r.w.m.open
         mine == r.pack # NoPack /\ call.what = SemOfPack(r.pack)
     IN Does(IF own /\ r.rc = "error" THEN GoesOn(r.w, -1, r.pack, o, o3)
             ELSE IF own /\ mine THEN GoesOn(r.w, 0, r.pack, o, o3)
             ELSE IF own /\ r.w.m.state = "TCP_IN_PROGRESS"
                  THEN GoesOn(r.w, IF net.tcp = "refused" THEN 1 ELSE 0, NoPack, o, o3)
             ELSE IF own /\ r.w.m.state = "WEBSOCKET_IN_PROGRESS" THEN GoesOn(r.w, 1, NoPack, o, o3)
             ELSE IF call.late /\ call.mode = "poll" THEN GoesOn(r.w, 0, NoPack, o, o3)
             ELSE [w |-> r.w, call |-> call])
  /\ UNCHANGED left

(***************************************************************************)
(* MQTTClient_yield: the caller sleeps, or reads once and closes what has  *)
(* failed.                                                                 *)
(***************************************************************************)
Yielded(ackSent, keepalive, wrote) ==
  LET w == [World EXCEPT !.m.pending = @ /\ ~wrote]
      r == MQTTClient_cycle(w, Ready(w), ackSent, keepalive)
  IN IF bg.running THEN World
     ELSE IF r.rc = "error" /\ r.w.m.open /\ r.w.m.state # "DISCONNECTING" THEN MQTTClient_disconnect_internal(r.w)
     ELSE r.w

MQTTClient_yield(ackSent, keepalive, wrote) ==
  /\ Begin("yield")
  /\ Becomes(Yielded(ackSent, keepalive, wrote)) /\ UNCHANGED call

\* refused if there is a thread; the first message is taken
MQTTClient_receive(ackSent, keepalive) ==
  /\ Begin("receive") /\ ~bg.running /\ m.connected
  /\ LET r == MQTTClient_cycle(World, Ready(World), ackSent, keepalive)
         w == IF r.w.m.queue # <<>> THEN [r.w EXCEPT !.m.queue = Tail(@)] ELSE r.w
     IN Becomes(IF r.rc = "error" THEN MQTTClient_disconnect_internal(w) ELSE w)
  /\ UNCHANGED call

(***************************************************************************)
(* Publishing.                                                             *)
(***************************************************************************)
Full == Cardinality(m.out) >= MaxInflight \/ m.pending

StartPublish(w, sent) ==
  LET id == NextId(w)
      p == [w EXCEPT !.m.out = @ \cup {[id |-> id, msg |-> Len(w.hist.ids) + 1]}, !.m.msgID = id, !.hist.ids = Append(@, id)]
      r == CASE sent = "ok" -> Returned(SendRequest(p, [type |-> "PUBLISH", id |-> id]))
             [] sent = "part" -> [w |-> SendRequest([p EXCEPT !.m.pending = TRUE], [type |-> "PUBLISH", id |-> id]),
                                  call |-> [call EXCEPT !.name = "publish", !.pc = "writing"]]
             [] OTHER -> Named("publish", Lost(p))
  IN IF id = 0 THEN Returned(w) ELSE r

\* QoS 1 or 2
MQTTClient_publish(sent) ==
  /\ Begin("publish") /\ m.connected
  /\ IF Full THEN call' = [Idle EXCEPT !.name = "publish", !.pc = "blocked"] /\ UNCHANGED <<m, bg, net, hist>>
     ELSE Does(StartPublish(World, sent))

PublishBlocked(sent, ackSent, keepalive, wrote) ==
  /\ call.pc = "blocked"
  /\ IF ~m.connected THEN Does(Returned(World))
     ELSE IF ~Full THEN Does(StartPublish(World, sent))
     ELSE Becomes(Yielded(ackSent, keepalive, wrote)) /\ UNCHANGED call
  /\ UNCHANGED left

\* the write has to be over before the call returns
PublishWriting(ackSent, keepalive, wrote) ==
  /\ call.pc = "writing"
  /\ IF ~m.connected \/ ~m.pending THEN Does(Returned(World))
     ELSE Becomes(Yielded(ackSent, keepalive, wrote)) /\ UNCHANGED call
  /\ UNCHANGED left

\* for a message that was published before
MQTTClient_waitForCompletion(msg) ==
  /\ Begin("complete") /\ msg \in DOMAIN hist.ids
  /\ call' = [Idle EXCEPT !.name = "complete", !.pc = "completing", !.msg = msg]
  /\ UNCHANGED <<m, bg, net, hist>>

\* the token is a message id
InFlight(msg) == \E x \in m.out : x.id = hist.ids[msg]

Completing(ackSent, keepalive) ==
  /\ call.pc = "completing"
  /\ IF call.late \/ ~m.connected THEN Does(Returned(World))
     ELSE IF ~InFlight(call.msg) THEN Does(Returned([World EXCEPT !.hist.completed = @ \cup {call.msg}]))
     ELSE Becomes(Yielded(ackSent, keepalive, FALSE)) /\ UNCHANGED call
  /\ UNCHANGED left

(***************************************************************************)
(* Disconnecting.                                                          *)
(***************************************************************************)
AppDisconnects(w) ==
  LET e == IF w.m.connected THEN [w EXCEPT !.hist.ended = @ \cup {w.hist.conns}] ELSE w
  IN Named("disconnect", Stopped(e, MQTTClient_disconnect1(e, FALSE, TRUE)))

MQTTClient_disconnect ==
  /\ Begin("disconnect")
  /\ IF m.connected /\ m.out # {}
     THEN Does([w |-> [World EXCEPT !.m.state = "DISCONNECTING"], call |-> [Idle EXCEPT !.name = "disconnect", !.pc = "drain"]])
     ELSE Does(AppDisconnects(World))

\* the messages in flight may end; whether the client is still connected is not looked at
Draining(ackSent, keepalive) ==
  /\ call.pc = "drain"
  /\ IF m.out = {} \/ call.late THEN Does(AppDisconnects(World))
     ELSE Becomes(Yielded(ackSent, keepalive, FALSE)) /\ UNCHANGED call
  /\ UNCHANGED left

\* the end of MQTTClient_stop; a connect whose messages could not be resent goes on with its failure
Stopping(o3) ==
  /\ call.pc = "stopping" /\ (~bg.running \/ call.late)
  /\ Does(IF call.what = "resend" THEN Failed(World, call.version, o3) ELSE Returned(World))
  /\ UNCHANGED left

\* the time of the call is up
Expire ==
  /\ call.name # "none" /\ ~call.late
  /\ call' = [call EXCEPT !.late = TRUE]
  /\ UNCHANGED <<m, bg, net, hist, left>>

(***************************************************************************)
(* The network and the server.                                             *)
(***************************************************************************)
Tcp(result) ==
  /\ net.tcp = "syn"
  /\ net' = [net EXCEPT !.tcp = result]
  /\ UNCHANGED <<m, bg, call, hist, left>>

Upgrade(result) ==
  /\ net.ws = "asked"
  /\ net' = [net EXCEPT !.ws = result]
  /\ UNCHANGED <<m, bg, call, hist, left>>

AnswersTo(type) ==
  CASE type = "CONNECT" -> {"CONNACK", "REFUSED"} [] type = "subscribe" -> {"SUBACK"}
    [] type = "unsubscribe" -> {"UNSUBACK"} [] OTHER -> {"PUBACK"}

Answer(r, type) ==
  /\ r \in net.req /\ type \in AnswersTo(r.type) /\ net.tcp = "up" /\ ~net.eof
  /\ net' = [net EXCEPT !.req = @ \ {r}, !.in = Append(@, [type |-> type, id |-> r.id])]
  /\ UNCHANGED <<m, bg, call, hist, left>>

ServerPublishes ==
  /\ m.connected /\ ~net.eof /\ left["arrive"] > 0
  /\ net' = [net EXCEPT !.in = Append(@, [type |-> "PUBLISH", id |-> left["arrive"]])]
  /\ left' = [left EXCEPT !["arrive"] = @ - 1]
  /\ UNCHANGED <<m, bg, call, hist>>

\* an MQTT 5 server may say so
ServerCloses(says) ==
  /\ m.open /\ net.tcp = "up" /\ ~net.eof /\ (says => m.v = 5 /\ m.connected)
  /\ net' = [net EXCEPT !.eof = TRUE, !.in = IF says THEN Append(@, [type |-> "DISCONNECT", id |-> 0]) ELSE @]
  /\ UNCHANGED <<m, bg, call, hist, left>>

RunNext ==
  \/ \E wrote \in BOOLEAN : RunSelect(wrote)
  \/ \E ackSent, keepalive \in BOOLEAN : RunCycle(ackSent, keepalive)
  \/ RunHandle
  \/ \E taken \in BOOLEAN : RunCallback(taken)
  \/ RunDrained

\* the call that is under way goes on
CallNext ==
  \/ \E o \in {"up", "unsent"}, o3 \in Outcomes :
       \/ EnterWait(o, o3) \/ WaitSem(o, o3)
       \/ \E ackSent, keepalive \in BOOLEAN : WaitPoll(ackSent, keepalive, o, o3)
  \/ \E sent \in {"ok", "part", "fail"}, ackSent, keepalive, wrote \in BOOLEAN :
       PublishBlocked(sent, ackSent, keepalive, wrote)
  \/ \E ackSent, keepalive, wrote \in BOOLEAN : PublishWriting(ackSent, keepalive, wrote)
  \/ \E ackSent, keepalive \in BOOLEAN : Completing(ackSent, keepalive) \/ Draining(ackSent, keepalive)
  \/ \E o3 \in Outcomes : Stopping(o3)

AppNext ==
  \/ \E o, o3 \in Outcomes : MQTTClient_connect(o, o3)
  \/ \E sent \in {"ok", "part", "fail"} :
       \/ MQTTClient_subscribeMany5(sent) \/ MQTTClient_unsubscribeMany5(sent)
       \/ MQTTClient_publish(sent)
  \/ \E msg \in DOMAIN hist.ids : MQTTClient_waitForCompletion(msg)
  \/ MQTTClient_disconnect
  \/ \E ackSent, keepalive \in BOOLEAN :
       MQTTClient_receive(ackSent, keepalive) \/ \E wrote \in BOOLEAN : MQTTClient_yield(ackSent, keepalive, wrote)

NetNext ==
  \/ \E result \in {"up", "refused"} : Tcp(result)
  \/ \E result \in {"yes", "no"} : Upgrade(result)
  \/ \E r \in net.req : \E type \in AnswersTo(r.type) : Answer(r, type)
  \/ ServerPublishes
  \/ \E says \in BOOLEAN : ServerCloses(says)

Next == RunNext \/ CallNext \/ AppNext \/ Expire \/ NetNext

\* The threads run and time passes; the network and the server owe nothing.
Spec == Init /\ [][Next]_vars /\ WF_vars(RunNext) /\ WF_vars(CallNext) /\ WF_vars(Expire)

(***************************************************************************)
(* What must hold.                                                         *)
(***************************************************************************)
\* A client with callbacks that is connected has a background thread that
\* goes on running: nothing that ends another connection, and no thread that
\* is on its way out, leaves it without (MQTTClient.c:1180, 984, 1016).  The
\* exception is a connect, or its second attempt, that began while the thread
\* was being stopped, which takes the dying thread for a running one: nobody
\* answers for such a connection.
Served ==
  m.ma /\ m.connected => (bg.running /\ bg.pc # "off" /\ ~bg.tostop) \/ hist.conns \in hist.raced

\* A connection that was established and is over was ended by the
\* application's disconnect, or the application was told, and connectionLost
\* is called at most once for it: whether the thread, the keepalive, a call
\* that timed out, a failed write or a failed resend in connect found it
\* broken, or several of them (MQTTClient.c:1870-1929).
LossReported ==
  m.ma => \A k \in 1 .. hist.conns :
            /\ hist.lost[k] <= 1
            /\ k < hist.conns \/ ~m.connected => k \in hist.ended \cup hist.disconnected \/ hist.lost[k] = 1

\* waitForCompletion returns success only for a message that was
\* acknowledged, or that a clean session has thrown away: not for one that
\* waits for the next connection, nor for another one with the same id
\* (MQTTClient.c:2815-2825).
CompletionMeansAcked == hist.completed \subseteq hist.acked \cup hist.discarded

\* Every call that has a timeout returns, also when the thread that should
\* post its semaphore is stopped or starts to use the connection itself, and
\* no answer comes (MQTTClient.c:2591-2697, 1016-1029, 1889-1896, 2815-2831).
\* The exception is a connect whose time has passed when it begins to wait
\* without the thread: its time left has underflowed, and it may poll for
\* ever (MQTTClient.c:1219, 1357, 1371, 2598, 2686).
CallsReturn ==
  call.name \in {"connect", "subscribe", "unsubscribe", "complete", "disconnect"}
    ~> call.name = "none" \/ call.mode = "endless"
=============================================================================
