------------------------------ MODULE QoSFlow ------------------------------
(***************************************************************************)
(* QoS 1 and 2 message flows of one client in both directions              *)
(* (MQTTProtocolClient.c), the persistent store that backs them            *)
(* (MQTTPersistence.c, MQTTPacket.c and the persisting parts of            *)
(* MQTTAsyncUtils.c), lost connections and restarts of the process.        *)
(*                                                                         *)
(* Every action of the client runs with mqttasync_mutex held (Publish with *)
(* mqttcommand_mutex); the process stops between two of them (module       *)
(* QoSCrash has it stop inside one).  The session is kept on both sides    *)
(* (cleansession 0, session present) and retryInterval is 0, its default.  *)
(* The server follows the MQTT standard and is external.                   *)
(***************************************************************************)
EXTENDS Integers, Sequences, FiniteSets, SequencesExt

CONSTANTS
    OutMsgs,      \* messages the application sends
    InMsgs,       \* messages the server sends
    Qos2,         \* those with QoS 2; the others have QoS 1
    MaxMsgId,     \* MAX_MSG_ID
    MaxInflight,  \* c->maxInflightMessages, and the server's
    Version5,     \* MQTTVersion >= MQTTVERSION_5
    PubrelDup,    \* the server sets DUP in a PUBREL it sends again, as MQTT 3.1
                  \*   (not 3.1.1) says
    KeepAlive,    \* c->keepAliveInterval > 0
    MaxQueue,     \* bound on c->messageQueue
    Many          \* bound on the history counts

ASSUME FlowAssumption ==
    /\ OutMsgs \cap InMsgs = {}
    /\ MaxMsgId \in Nat \ {0} /\ MaxInflight \in Nat /\ MaxQueue \in Nat
    /\ {Version5, PubrelDup, KeepAlive} \subseteq BOOLEAN
    /\ Many \in Nat /\ Many > 1

VARIABLES
    commands,      \* PUBLISH commands in MQTTAsync_commands
    outbound,      \* c->outboundMsgs, next being the packet waited for
    inbound,       \* c->inboundMsgs
    messageQueue,  \* c->messageQueue
    connected,     \* c->connected
    store,         \* the persistent store, by kind of key
    toServer, toClient,  \* packets on the connection
    stalled,       \* messages in flight that the reconnect has not sent again
    offer,         \* the receive thread is about to offer the head of messageQueue
    serverIn,      \* server: ids of QoS 2 messages received and not released
    serverOut,     \* server: its messages in flight
    outStatus, inStatus,  \* history: as in Delivery
    atServer,      \* history: times the server took each message
    arrived        \* history: times the application took each message

clientVars == <<commands, outbound, inbound, messageQueue>>
netVars    == <<connected, toServer, toClient, stalled, offer>>
serverVars == <<serverIn, serverOut, inStatus, atServer>>
vars == <<clientVars, store, netVars, serverVars, outStatus, arrived>>

Msgs   == OutMsgs \cup InMsgs
Ids    == 1 .. MaxMsgId
Queued == [msg : Msgs, id : Ids]
Flight == [msg : Msgs, id : Ids, next : {"PUBACK", "PUBREC", "PUBCOMP"}]
Packet == [type : {"PUBLISH", "PUBACK", "PUBREC", "PUBREL", "PUBCOMP"}, id : Ids,
           dup : BOOLEAN, msg : Msgs]

DataTypes ==
    /\ commands \in Seq(Queued)
    /\ outbound \in Seq(Flight) /\ serverOut \in Seq(Flight)
    /\ inbound \in SUBSET Queued
    /\ messageQueue \in Seq(InMsgs)
    /\ connected \in BOOLEAN
    /\ store \in [commands : Seq(Queued), sent : SUBSET Queued, pubrel : SUBSET Ids,
                  received : SUBSET Queued, queue : Seq(InMsgs)]
    /\ toServer \in Seq(Packet) /\ toClient \in Seq(Packet)
    /\ serverIn \in SUBSET Ids
    /\ outStatus \in [OutMsgs -> {"new", "pending", "complete"}]
    /\ inStatus \in [InMsgs -> {"new", "pending", "complete"}]
    /\ atServer \in [OutMsgs -> 0 .. Many]
    /\ arrived \in [InMsgs -> 0 .. Many]

TypeOK == DataTypes /\ stalled \in SUBSET OutMsgs /\ offer \in BOOLEAN

Init ==
    /\ commands = <<>> /\ outbound = <<>> /\ inbound = {} /\ messageQueue = <<>>
    /\ connected = FALSE
    /\ store = [commands |-> <<>>, sent |-> {}, pubrel |-> {}, received |-> {},
                queue |-> <<>>]
    /\ toServer = <<>> /\ toClient = <<>>
    /\ stalled = {} /\ offer = FALSE
    /\ serverIn = {} /\ serverOut = <<>>
    /\ outStatus = [m \in OutMsgs |-> "new"]
    /\ inStatus = [m \in InMsgs |-> "new"]
    /\ atServer = [m \in OutMsgs |-> 0]
    /\ arrived = [m \in InMsgs |-> 0]

----------------------------------------------------------------------------
(* Helpers *)

IdsIn(s) == {s[n].id : n \in DOMAIN s}
ById(S, i) == {x \in S : x.id = i}
\* the list without the message with id i: ListFindItem and ListRemove
Without(s, i) ==
    IF i \in IdsIn(s) THEN RemoveAt(s, CHOOSE n \in DOMAIN s : s[n].id = i) ELSE s
\* PUBREC has come for id i: PUBCOMP is waited for next
AwaitPubcomp(s, i) ==
    [n \in DOMAIN s |-> IF s[n].id = i THEN [s[n] EXCEPT !.next = "PUBCOMP"] ELSE s[n]]
Tick(f, m) == [f EXCEPT ![m] = IF @ < Many THEN @ + 1 ELSE @]

\* mutant: a QoS 2 message waits for the wrong packet
CreateMessagePubrel(q) ==
    [msg |-> q.msg, id |-> q.id, next |-> IF q.msg \in Qos2 THEN "PUBREL" ELSE "PUBACK"]

\* a message as MQTTProtocol_createMessage records it
CreateMessage(q) ==
    [msg |-> q.msg, id |-> q.id, next |-> IF q.msg \in Qos2 THEN "PUBREC" ELSE "PUBACK"]

Pub(f, again) == [type |-> "PUBLISH", id |-> f.id, dup |-> again, msg |-> f.msg]
Reply(t, p) == [type |-> t, id |-> p.id, dup |-> FALSE, msg |-> p.msg]

\* mutant: PUBLISH is sent again whatever has been acknowledged
RetryPublish(f, dup) == Pub(f, TRUE)

\* what is sent again for a message in flight: MQTTProtocol_retries
Retry(f, dup) ==
    IF f.next = "PUBCOMP"
    THEN [type |-> "PUBREL", id |-> f.id, dup |-> dup, msg |-> f.msg]
    ELSE Pub(f, TRUE)

----------------------------------------------------------------------------
(* The client sends *)

\* MQTTAsync_send: the command is queued and persisted
Publish(m, i) ==
    /\ outStatus[m] = "new"
    /\ i \notin IdsIn(commands) \cup IdsIn(outbound)
    /\ commands' = Append(commands, [msg |-> m, id |-> i])
    /\ store' = [store EXCEPT !.commands = commands']
    /\ outStatus' = [outStatus EXCEPT ![m] = "pending"]
    /\ UNCHANGED <<outbound, inbound, messageQueue, netVars, serverVars, arrived>>

\* closeSession without a clean session
Disconnected ==
    /\ connected' = FALSE
    /\ toServer' = <<>>
    /\ toClient' = <<>>
    /\ stalled' = {}
    /\ offer' = FALSE

\* MQTTAsync_processCommand and MQTTProtocol_startPublish: the command is
\* unpersisted, the message in flight persisted.  When the write fails the
\* message stays in flight and an internal DISCONNECT is processed next.
ProcessPublish(ok) ==
    LET cmd == Head(commands)
    IN  /\ connected
        /\ commands # <<>> /\ Len(outbound) < MaxInflight
        /\ commands' = Tail(commands)
        /\ outbound' = Append(outbound, CreateMessage(cmd))
        /\ store' = [store EXCEPT !.commands = Tail(commands), !.sent = @ \cup {cmd}]
        /\ IF ok THEN /\ toServer' = Append(toServer, Pub(cmd, FALSE))
                      /\ UNCHANGED <<connected, toClient, stalled, offer>>
                 ELSE Disconnected
        /\ UNCHANGED <<inbound, messageQueue, serverVars, outStatus, arrived>>

\* the receive thread has read the packet p from the server; r is sent back
FromServer(p, type, r) ==
    /\ ~offer
    /\ toClient # <<>> /\ p = Head(toClient) /\ p.type = type
    /\ toClient' = Tail(toClient)
    /\ toServer' = toServer \o r
    /\ UNCHANGED <<connected, stalled>>

\* after a packet has been handled, the receive thread offers what is queued
OfferNext == offer' = (messageQueue' # <<>>)

\* mutant: the PUBLISH stays in the store
FinishKeeps(f) ==
    /\ outbound' = Without(outbound, f.id)
    /\ store' = [store EXCEPT !.pubrel = @ \ {f.id}]
    /\ outStatus' = [outStatus EXCEPT ![f.msg] = "complete"]

\* a message's flow has ended: it is forgotten, here and in the store
Finish(f) ==
    /\ outbound' = Without(outbound, f.id)
    /\ store' = [store EXCEPT !.sent = @ \ ById(@, f.id), !.pubrel = @ \ {f.id}]
    /\ outStatus' = [outStatus EXCEPT ![f.msg] = "complete"]

\* the message in flight with id i that waits for packet type next
Waiting(i, next) ==
    {outbound[n] : n \in {k \in DOMAIN outbound :
                            outbound[k].id = i /\ outbound[k].next = next}}

\* MQTTProtocol_handlePubacks and handlePubcomps
HandlePuback(type) ==
    \E p \in Range(toClient) :
        /\ FromServer(p, type, <<>>)
        /\ \/ \E f \in Waiting(p.id, type) : Finish(f)
           \/ Waiting(p.id, type) = {} /\ UNCHANGED <<outbound, store, outStatus>>
        /\ UNCHANGED <<commands, inbound, messageQueue, serverVars, arrived>>
        /\ OfferNext

\* MQTTProtocol_handlePubrecs: PUBREL is persisted and sent
HandlePubrec ==
    \E p \in Range(toClient) :
        /\ \/ /\ Waiting(p.id, "PUBREC") # {}
              /\ FromServer(p, "PUBREC", <<Reply("PUBREL", p)>>)
              /\ outbound' = AwaitPubcomp(outbound, p.id)
              /\ store' = [store EXCEPT !.pubrel = @ \cup {p.id}]
           \/ /\ Waiting(p.id, "PUBREC") = {}
              /\ FromServer(p, "PUBREC", <<>>)
              /\ UNCHANGED <<outbound, store>>
        /\ UNCHANGED <<commands, inbound, messageQueue, serverVars, outStatus, arrived>>
        /\ OfferNext

----------------------------------------------------------------------------
(* The client receives *)

\* mutant: a message that messageArrived took is queued as well
ProcessPublicationBoth(m, taken, st) ==
    /\ Len(messageQueue) < MaxQueue
    /\ messageQueue' = Append(messageQueue, m)
    /\ store' = [st EXCEPT !.queue = messageQueue']
    /\ arrived' = IF taken THEN Tick(arrived, m) ELSE arrived

\* Protocol_processPublication: messageArrived takes the message, or it is
\* queued and persisted
ProcessPublication(m, taken, st) ==
    IF taken /\ messageQueue = <<>>
    THEN /\ arrived' = Tick(arrived, m)
         /\ store' = st
         /\ UNCHANGED messageQueue
    ELSE /\ Len(messageQueue) < MaxQueue
         /\ messageQueue' = Append(messageQueue, m)
         /\ store' = [st EXCEPT !.queue = messageQueue']
         /\ UNCHANGED arrived

\* MQTTPacket_Factory has put a QoS 2 PUBLISH into the store, over one with the
\* same id
Received(p) ==
    IF p.msg \in Qos2
    THEN [store EXCEPT !.received = (@ \ ById(@, p.id)) \cup {[msg |-> p.msg, id |-> p.id]}]
    ELSE store

\* MQTTProtocol_handlePublishes: MQTT 5 hands a QoS 2 message over now, unless
\* its id is known, MQTT 3 when the PUBREL comes
HandlePublish(taken) ==
    \E p \in Range(toClient) :
        /\ \/ /\ p.msg \notin Qos2
              /\ FromServer(p, "PUBLISH", <<Reply("PUBACK", p)>>)
              /\ ProcessPublication(p.msg, taken, store)
              /\ UNCHANGED inbound
           \/ /\ p.msg \in Qos2
              /\ FromServer(p, "PUBLISH", <<Reply("PUBREC", p)>>)
              /\ inbound' = (inbound \ ById(inbound, p.id))
                                \cup {[msg |-> p.msg, id |-> p.id]}
              /\ IF Version5 /\ ById(inbound, p.id) = {}
                 THEN ProcessPublication(p.msg, taken, Received(p))
                 ELSE /\ store' = Received(p)
                      /\ UNCHANGED <<messageQueue, arrived>>
        /\ OfferNext
        /\ UNCHANGED <<commands, outbound, serverVars, outStatus>>

\* MQTTProtocol_handlePubrels.  A PUBREL that is not known is answered only if
\* it has DUP set.
HandlePubrel(taken) ==
    \E p \in Range(toClient) :
        /\ \/ \E q \in ById(inbound, p.id) :
                /\ FromServer(p, "PUBREL", <<Reply("PUBCOMP", p)>>)
                /\ inbound' = inbound \ {q}
                /\ LET st == [store EXCEPT !.received = @ \ ById(@, p.id)]
                   IN  IF ~Version5
                       THEN ProcessPublication(q.msg, taken, st)
                       ELSE store' = st /\ UNCHANGED <<messageQueue, arrived>>
           \/ /\ ById(inbound, p.id) = {}
              /\ FromServer(p, "PUBREL", IF p.dup THEN <<Reply("PUBCOMP", p)>> ELSE <<>>)
              /\ UNCHANGED <<inbound, store, messageQueue, arrived>>
        /\ OfferNext
        /\ UNCHANGED <<commands, outbound, serverVars, outStatus>>

\* both, when a write is pending on the socket: SOCKET_ERROR, and the session is
\* closed
HandleWhileWriting ==
    /\ ~offer
    /\ toClient # <<>>
    /\ Head(toClient).type \in {"PUBLISH", "PUBREL"}
    /\ Disconnected
    /\ store' = IF Head(toClient).type = "PUBLISH" THEN Received(Head(toClient)) ELSE store
    /\ UNCHANGED <<clientVars, serverVars, outStatus, arrived>>

\* another socket event of the client, such as a PINGRESP or a part of a packet
SocketEvent ==
    /\ connected /\ ~offer
    /\ messageQueue # <<>>
    /\ offer' = TRUE
    /\ UNCHANGED <<clientVars, store, connected, toServer, toClient, stalled,
                   serverVars, outStatus, arrived>>

\* mutant: a single queued message is overlooked
DeliverQueuedMany(taken) ==
    /\ offer /\ messageQueue # <<>>
    /\ offer' = FALSE
    /\ IF taken /\ Len(messageQueue) > 1
       THEN /\ arrived' = Tick(arrived, Head(messageQueue))
            /\ messageQueue' = Tail(messageQueue)
            /\ store' = [store EXCEPT !.queue = messageQueue']
       ELSE UNCHANGED <<arrived, messageQueue, store>>
    /\ UNCHANGED <<commands, outbound, inbound, connected, toServer, toClient, stalled,
                   serverVars, outStatus>>

\* MQTTAsync_receiveThread, once per socket event of the client: messageArrived
\* is offered the first queued message again, and may refuse it again
DeliverQueued(taken) ==
    /\ offer /\ messageQueue # <<>>
    /\ offer' = FALSE
    /\ IF taken
       THEN /\ arrived' = Tick(arrived, Head(messageQueue))
            /\ messageQueue' = Tail(messageQueue)
            /\ store' = [store EXCEPT !.queue = messageQueue']
       ELSE UNCHANGED <<arrived, messageQueue, store>>
    /\ UNCHANGED <<commands, outbound, inbound, connected, toServer, toClient, stalled,
                   serverVars, outStatus>>

----------------------------------------------------------------------------
(* Connections and restarts *)

\* MQTTProtocol_retries sends the first k messages in flight again.  It goes on
\* while no write is pending: a PUBLISH that is written in part is the last one,
\* and nothing sends the others on this connection.  (A PUBREL that is written in
\* part closes the session: ConnectionLost.)
ResendTo(k) ==
    /\ k = 0 => outbound = <<>>
    /\ k \in 1 .. Len(outbound) - 1 => outbound[k].next # "PUBCOMP"
    /\ toServer' = [n \in 1 .. k |-> Retry(outbound[n], FALSE)]
    /\ stalled' = {outbound[n].msg : n \in k + 1 .. Len(outbound)}

\* mutant: nothing is sent again
ConnectNoRetry ==
    /\ ~connected
    /\ connected' = TRUE
    /\ stalled' = {}
    /\ toClient' = [n \in DOMAIN serverOut |-> Retry(serverOut[n], PubrelDup)]
    /\ UNCHANGED <<toServer, offer, clientVars, store, serverVars, outStatus, arrived>>

\* MQTTAsync_completeConnection, session present: MQTTProtocol_retry sends what
\* is in flight again, as far as it gets; the server sends all of its messages
Connect ==
    /\ ~connected
    /\ connected' = TRUE
    /\ \E k \in 0 .. Len(outbound) : ResendTo(k)
    /\ toClient' = [n \in DOMAIN serverOut |-> Retry(serverOut[n], PubrelDup)]
    /\ UNCHANGED <<offer, clientVars, store, serverVars, outStatus, arrived>>

ConnectionLost ==
    /\ connected
    /\ Disconnected
    /\ UNCHANGED <<clientVars, store, serverVars, outStatus, arrived>>

\* MQTTPersistence_insertInOrder: by message id
Sorted(S) ==
    [n \in 1 .. Cardinality(S) |->
        CHOOSE x \in S : Cardinality({y \in S : y.id < x.id}) = n - 1]

\* mutant: the first message is left out
InOrderShort(S) == IF S = {} THEN <<>> ELSE Tail(Sorted(S))

\* how far the id of the n-th message is from the one before, round the end
Gap(s, n) ==
    IF n = 1 THEN MaxMsgId - s[Len(s)].id + s[1].id ELSE s[n].id - s[n - 1].id

\* MQTTPersistence_insertInOrder, then MQTTPersistence_wrapMsgID: by message id,
\* starting after the largest gap
InOrder(S) ==
    LET s == Sorted(S)
        first == CHOOSE n \in DOMAIN s :
                    /\ \A k \in 1 .. n - 1 : Gap(s, k) < Gap(s, n)
                    /\ \A k \in n .. Len(s) : Gap(s, k) <= Gap(s, n)
    IN  IF S = {} THEN <<>>
        ELSE SubSeq(s, first, Len(s)) \o SubSeq(s, 1, first - 1)

\* The process stops.  A new one restores what was persisted:
\* MQTTPersistence_restorePackets, MQTTAsync_restoreCommands and
\* MQTTPersistence_restoreMessageQueue.
Restored(q) == IF q.id \in store.pubrel THEN [CreateMessage(q) EXCEPT !.next = "PUBCOMP"]
                                        ELSE CreateMessage(q)

Restart ==
    /\ commands' = store.commands
    /\ outbound' = InOrder({Restored(q) : q \in store.sent})
    /\ inbound' = store.received
    /\ messageQueue' = store.queue
    /\ store' = [store EXCEPT !.pubrel = @ \cap {q.id : q \in store.sent}]
    /\ Disconnected
    /\ UNCHANGED <<serverVars, outStatus, arrived>>

----------------------------------------------------------------------------
(* The server: external, from the MQTT standard *)

\* the packet p has come from the client; r is sent back
FromClient(p, type, r) ==
    /\ toServer # <<>> /\ p = Head(toServer) /\ p.type = type
    /\ toServer' = Tail(toServer)
    /\ toClient' = toClient \o r
    /\ UNCHANGED <<connected, stalled, offer, clientVars, store, outStatus, arrived>>

ServerPublish(m, i) ==
    LET f == CreateMessage([msg |-> m, id |-> i])
    IN  /\ inStatus[m] = "new"
        /\ i \notin IdsIn(serverOut) /\ Len(serverOut) < MaxInflight
        /\ inStatus' = [inStatus EXCEPT ![m] = "pending"]
        /\ serverOut' = Append(serverOut, f)
        /\ toClient' = IF connected THEN Append(toClient, Pub(f, FALSE)) ELSE toClient
        /\ UNCHANGED <<clientVars, store, connected, toServer, stalled, offer,
                       serverIn, outStatus, atServer, arrived>>

ServerTakes ==
    \E p \in Range(toServer) :
        /\ FromClient(p, "PUBLISH",
                      <<Reply(IF p.msg \in Qos2 THEN "PUBREC" ELSE "PUBACK", p)>>)
        /\ atServer' = IF p.msg \in Qos2 /\ p.id \in serverIn THEN atServer
                       ELSE Tick(atServer, p.msg)
        /\ serverIn' = IF p.msg \in Qos2 THEN serverIn \cup {p.id} ELSE serverIn
        /\ UNCHANGED <<serverOut, inStatus>>

ServerReleases ==
    \E p \in Range(toServer) :
        /\ FromClient(p, "PUBREL", <<Reply("PUBCOMP", p)>>)
        /\ serverIn' = serverIn \ {p.id}
        /\ UNCHANGED <<serverOut, inStatus, atServer>>

ServerPubrec ==
    \E p \in Range(toServer) :
        /\ FromClient(p, "PUBREC", <<Reply("PUBREL", p)>>)
        /\ serverOut' = AwaitPubcomp(serverOut, p.id)
        /\ UNCHANGED <<serverIn, inStatus, atServer>>

ServerCompletes(type) ==
    \E p \in Range(toServer) :
        /\ FromClient(p, type, <<>>)
        /\ serverOut' = Without(serverOut, p.id)
        /\ inStatus' = [m \in InMsgs |->
                          IF \E n \in DOMAIN serverOut : serverOut[n].id = p.id
                                                         /\ serverOut[n].msg = m
                          THEN "complete" ELSE inStatus[m]]
        /\ UNCHANGED <<serverIn, atServer>>

----------------------------------------------------------------------------
Send == \E ok \in BOOLEAN : ProcessPublish(ok)

Receive ==
    \/ \E type \in {"PUBACK", "PUBCOMP"} : HandlePuback(type)
    \/ HandlePubrec
    \/ \E taken \in BOOLEAN : HandlePublish(taken) \/ HandlePubrel(taken)
    \/ HandleWhileWriting

Server ==
    \/ ServerTakes
    \/ ServerReleases
    \/ ServerPubrec
    \/ \E type \in {"PUBACK", "PUBCOMP"} : ServerCompletes(type)

Next ==
    \/ \E m \in OutMsgs, i \in Ids : Publish(m, i)
    \/ \E m \in InMsgs, i \in Ids : ServerPublish(m, i)
    \/ Send
    \/ Receive
    \/ SocketEvent
    \/ \E taken \in BOOLEAN : DeliverQueued(taken)
    \/ Server
    \/ Connect
    \/ ConnectionLost
    \/ Restart

Spec == Init /\ [][Next]_vars

\* The threads of the library run and the server answers.  With keep alive there
\* is always another socket event on a connection that stays up: a PINGRESP at the
\* latest.  A message that messageArrived is offered again and again is taken in
\* the end.
Fairness ==
    /\ WF_vars(Send)
    /\ WF_vars(Receive)
    /\ WF_vars(Server)
    /\ WF_vars(KeepAlive /\ SocketEvent)
    /\ SF_vars(DeliverQueued(TRUE))

FairSpec == Spec /\ Fairness

----------------------------------------------------------------------------
(* Properties *)

Count(m) == Cardinality({n \in DOMAIN messageQueue : messageQueue[n] = m})
Handed == [m \in InMsgs |->
             IF arrived[m] + Count(m) < Many THEN arrived[m] + Count(m) ELSE Many]

Out == INSTANCE Delivery WITH Msgs <- OutMsgs, Qos2 <- Qos2, Many <- Many,
                              status <- outStatus, copies <- atServer
In  == INSTANCE Delivery WITH Msgs <- InMsgs, Qos2 <- Qos2, Many <- Many,
                              status <- inStatus, copies <- Handed

\* The messages of the application reach the server at least once, those with
\* QoS 2 exactly once, before the flow is ended, whatever connections are lost
\* and processes restarted between handlers.
OutboundDelivery == Out!Spec

\* The same for messages from the server, handed to messageArrived or to the
\* persisted message queue.
InboundDelivery == In!Spec

\* What the store would restore is what is in memory: a restart loses no message
\* and forgets no step of a flow.
StoreMatchesMemory ==
    /\ store.commands = commands
    /\ store.queue = messageQueue
    /\ Range(outbound) = {Restored(q) : q \in store.sent}
    /\ inbound \subseteq store.received

\* A message the library has accepted is in the command list or in flight until
\* its flow ends.
NoMessageLost ==
    \A m \in OutMsgs : outStatus[m] = "pending" =>
        \/ \E n \in DOMAIN commands : commands[n].msg = m
        \/ \E n \in DOMAIN outbound : outbound[n].msg = m

\* Once the connection stays up, the flow of an accepted message ends, unless the
\* last reconnect stopped sending again before it came to the message.
OutboundCompletes ==
    \A m \in OutMsgs : <>[](connected /\ m \notin stalled) =>
        (outStatus[m] = "pending" ~> outStatus[m] = "complete")

\* Likewise for the server's messages, which the application then has, those that
\* were queued included if the client keeps the connection alive.
InboundCompletes ==
    KeepAlive /\ <>[]connected => \A m \in InMsgs : inStatus[m] = "pending" ~>
                                         (inStatus[m] = "complete" /\ arrived[m] > 0)
=============================================================================
