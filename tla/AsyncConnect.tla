---------------------------- MODULE AsyncConnect ----------------------------
(***************************************************************************)
(* The connection of one asynchronous client (MQTTAsync.c and              *)
(* MQTTAsyncUtils.c): CONNECT and DISCONNECT commands, the stages of a     *)
(* connect, the fallback to other server URIs and MQTT versions, the       *)
(* connect and disconnect timeouts and the automatic reconnect.            *)
(*                                                                         *)
(* Every action but the three steps of a connect call and Disconnect runs  *)
(* with mqttasync_mutex held; those only lock mqttcommand_mutex, inside    *)
(* addCommand.  So a connect call replaces the list of server URIs while   *)
(* an attempt may be using it.  Messages are abstract (module              *)
(* AsyncCommands): a disconnect with a timeout finds its in-flight         *)
(* messages completed, or not.                                             *)
(***************************************************************************)
EXTENDS Integers, Sequences

CONSTANTS
    ConnIds,             \* identities of MQTTAsync_connect calls
    DiscIds,             \* identities of MQTTAsync_disconnect calls
    URICounts,           \* lengths of the lists of server URIs given to connect
    Versions,            \* MQTT versions asked for: 0 is MQTTVERSION_DEFAULT
    AutomaticReconnect,  \* m->automaticReconnect
    MinRetry, MaxRetry,  \* minRetryInterval, maxRetryInterval
    None                 \* a NULL callback

ASSUME ConnectAssumption ==
    /\ URICounts \subseteq Nat /\ URICounts # {}
    /\ Versions \subseteq {0, 3, 4, 5} /\ Versions # {}
    /\ AutomaticReconnect \in BOOLEAN
    /\ MinRetry \in Nat /\ MaxRetry \in Nat /\ MinRetry <= MaxRetry
    /\ None \notin ConnIds \cup DiscIds
    /\ ConnIds \cap DiscIds = {}

VARIABLES
    queue,       \* the client's CONNECT and DISCONNECT commands
    connState,   \* c->connect_state
    connected,   \* c->connected
    connect,     \* m->connect: URI index, MQTT version, callbacks
    disc,        \* m->disconnect
    shouldBeConnected, retrying, reconnectNow,
    base,        \* m->currentIntervalBase
    version,     \* c->MQTTVersion
    sendPc,      \* the send thread: "drain" the list or "check" the timeouts
    uriCount,    \* m->serverURIcount
    calling,     \* the connect call an application thread is in, or None
    stored,      \* that call has stored its options in the client
    net,         \* the server can be reached, and accepts a connect in time
    used,        \* history: connect and disconnect calls made
    answered,    \* history: connect calls of which a callback was called
    parted,      \* history: callbacks made for each disconnect call
    event        \* history: the connection callback made by the last step

connVars  == <<connState, connected, connect, disc>>
retryVars == <<retrying, reconnectNow, base>>
appVars   == <<version, uriCount, calling, stored, used>>
histVars  == <<answered, parted>>
vars == <<queue, connVars, shouldBeConnected, retryVars, sendPc, appVars, net,
          histVars, event>>

\* SSL_IN_PROGRESS and WEBSOCKET_IN_PROGRESS are one stage, "HANDSHAKE";
\* "PROXY" is SOCKS5_PROXY_CONNECT_IN_PROGRESS or PROXY_CONNECT_IN_PROGRESS,
\* left behind by a proxy handshake that failed.
ConnStates == {"NOT_IN_PROGRESS", "TCP_IN_PROGRESS", "HANDSHAKE", "PROXY",
               "WAIT_FOR_CONNACK", "DISCONNECTING"}
Many == 2  \* bound of the history counts of callbacks, one more than allowed
Callbacks == ConnIds \cup DiscIds \cup {None}
Command == [type : {"NONE", "CONNECT", "DISCONNECT"}, internal : BOOLEAN,
            uri : Nat,            \* details.conn.currentURI
            ver : {0, 3, 4, 5},   \* details.conn.MQTTVersion
            started : BOOLEAN,    \* start_time is not zero
            cb : Callbacks]
NullCommand == [type |-> "NONE", internal |-> FALSE, uri |-> 0, ver |-> 0,
                started |-> FALSE, cb |-> None]
NewDisconnect == [NullCommand EXCEPT !.type = "DISCONNECT", !.started = TRUE]

TypeOK ==
    /\ queue \in Seq(Command)
    /\ connState \in ConnStates
    /\ connected \in BOOLEAN
    /\ connect \in Command
    /\ disc \in Command
    /\ {shouldBeConnected, retrying, reconnectNow, net} \subseteq BOOLEAN
    /\ base \in MinRetry .. MaxRetry
    /\ version \in Versions
    /\ sendPc \in {"drain", "check"}
    /\ uriCount \in URICounts \cup {0}
    /\ calling \in ConnIds \cup {None}
    /\ stored \in BOOLEAN
    /\ used \subseteq ConnIds \cup DiscIds
    /\ answered \subseteq ConnIds
    /\ parted \in [DiscIds -> 0 .. Many]
    /\ event \in {"none", "connected", "connectionLost", "disconnected"}

Init ==
    /\ queue = <<>>
    /\ connState = "NOT_IN_PROGRESS"
    /\ connected = FALSE
    /\ connect = NullCommand
    /\ disc = NullCommand
    /\ shouldBeConnected = FALSE
    /\ retrying = FALSE
    /\ reconnectNow = FALSE
    /\ base = MinRetry
    /\ version \in Versions
    /\ sendPc = "drain"
    /\ uriCount = 0
    /\ calling = None
    /\ stored = FALSE
    /\ net \in BOOLEAN
    /\ used = {}
    /\ answered = {}
    /\ parted = [i \in DiscIds |-> 0]
    /\ event = "none"

----------------------------------------------------------------------------
(* Helpers of several handlers *)

\* the callbacks of a connect call are called, if they have not been cleared
Answer(id) == answered \cup ({id} \cap ConnIds)

\* a history count of callbacks goes up
Tick(f, id) == [i \in DOMAIN f |-> IF i = id /\ f[i] < Many THEN f[i] + 1 ELSE f[i]]

\* mutant: an older command of the same type is not removed
AddHeadTwice(q, cmd) == {<<cmd>> \o q}

\* MQTTAsync_addCommand for a CONNECT or an internal DISCONNECT: ignored if one
\* is at the head of the list already, else put there and an older one removed.
\* Commands of other kinds or clients may be at the head as well.  A copy of an
\* m->connect that was never filled in is not a CONNECT and connects nothing.
AddHead(q, cmd) ==
    LET same == {n \in DOMAIN q : q[n].type = cmd.type}
        Remove(n) == SubSeq(q, 1, n - 1) \o SubSeq(q, n + 1, Len(q))
        rest == {Remove(n) : n \in {k \in same : \A j \in same : k <= j}}
    IN  IF cmd.type = "NONE" THEN {q}
        ELSE {<<cmd>> \o x : x \in IF same = {} THEN {q} ELSE rest}
             \cup (IF 1 \in same THEN {q} ELSE {})

\* start_time is set unless a connect is in progress
Stamp(cmd, cs) == [cmd EXCEPT !.started = @ \/ cs = "NOT_IN_PROGRESS"]

\* mutant: one URI too many
CheckConnPast(cmd) ==
    cmd.uri < uriCount \/ (cmd.ver = 4 /\ version = 0)

\* MQTTAsync_checkConn: another URI, or MQTT 3.1 after 3.1.1
CheckConn(cmd) ==
    cmd.uri + 1 < uriCount \/ (cmd.ver = 4 /\ version = 0)

\* mutant: the callbacks are cleared before the next attempt
NextTryNoCallbacks(cmd) ==
    IF version # 0 \/ cmd.ver = 3 THEN [cmd EXCEPT !.uri = @ + 1, !.ver = 0, !.cb = None]
    ELSE cmd

\* the next thing to try
NextTry(cmd) ==
    IF version # 0 THEN [cmd EXCEPT !.uri = @ + 1]
    ELSE IF cmd.ver = 3 THEN [cmd EXCEPT !.uri = @ + 1, !.ver = 0]
    ELSE cmd

\* the version processCommand chooses for an attempt
ChooseVersion(cmd) ==
    [cmd EXCEPT !.ver = IF version # 0 THEN version
                        ELSE CASE cmd.ver = 0 -> 4
                               [] cmd.ver = 4 -> 3
                               [] OTHER -> cmd.ver]

\* mutant: maxRetryInterval is not applied
StartConnectRetryUncapped(should) ==
    IF AutomaticReconnect /\ should
    THEN retrying' = TRUE /\ base' = IF retrying THEN 2 * base ELSE MinRetry
    ELSE UNCHANGED <<retrying, base>>

\* mutant: the test of m->retrying is the wrong way round
StartConnectRetryOnly(should) ==
    IF AutomaticReconnect /\ should /\ retrying
    THEN retrying' = TRUE /\ base' = MinRetry
    ELSE UNCHANGED <<retrying, base>>

\* MQTTAsync_startConnectRetry
StartConnectRetry(should) ==
    IF AutomaticReconnect /\ should
    THEN /\ retrying' = TRUE
         /\ base' = IF ~retrying THEN MinRetry
                    ELSE IF 2 * base > MaxRetry THEN MaxRetry ELSE 2 * base
    ELSE UNCHANGED <<retrying, base>>

\* MQTTAsync_closeSession and closeOnly
Close == connState' = "NOT_IN_PROGRESS" /\ connected' = FALSE

\* mutant: connected is read after the session has been closed
ReportLostLate == event' = IF connected' THEN "connectionLost" ELSE "none"

\* connectionLost is called if there was a connection
ReportLost == event' = IF connected THEN "connectionLost" ELSE "none"

\* nextOrClose: try the next URI or version, else report and maybe retry later
NextOrClose ==
    /\ Close
    /\ ReportLost
    /\ IF CheckConn(connect)
       THEN /\ queue' \in AddHead(queue, Stamp(NextTry(connect), connState'))
            /\ UNCHANGED <<connect, answered, retrying, base>>
       ELSE /\ answered' = Answer(connect.cb)
            /\ connect' = [connect EXCEPT !.cb = None]
            /\ StartConnectRetry(shouldBeConnected)
            /\ UNCHANGED queue

----------------------------------------------------------------------------
(* Application threads *)

\* MQTTAsync_connect: the callbacks go into m->connect,
ConnectBegin(id) ==
    /\ calling = None /\ id \notin used
    /\ calling' = id
    /\ used' = used \cup {id}
    /\ connect' = [connect EXCEPT !.cb = id]
    /\ event' = "none"
    /\ UNCHANGED <<queue, connState, connected, disc, shouldBeConnected,
                   retryVars, version, uriCount, stored, net, histVars, sendPc>>

\* then the options into the client, with a new list of server URIs,
ConnectOptions ==
    /\ calling # None /\ ~stored
    /\ version' \in Versions
    /\ shouldBeConnected' = TRUE
    /\ uriCount' \in URICounts
    /\ stored' = TRUE
    /\ event' = "none"
    /\ UNCHANGED <<queue, connVars, retryVars, calling, net, used, histVars,
                   sendPc>>

\* then the command, with the callbacks again and no MQTT version, on the list
ConnectAdd ==
    /\ calling # None /\ stored
    /\ queue' \in AddHead(queue, Stamp([NullCommand EXCEPT !.type = "CONNECT",
                                                           !.cb = calling],
                                       connState))
    /\ calling' = None
    /\ stored' = FALSE
    /\ event' = "none"
    /\ UNCHANGED <<connVars, shouldBeConnected, retryVars, version, uriCount, net,
                   used, histVars, sendPc>>

\* MQTTAsync_disconnect1: queued, at the tail, only if connected
Disconnect(id) ==
    /\ id \notin used
    /\ used' = used \cup {id}
    /\ shouldBeConnected' = FALSE
    /\ queue' = IF connected
                THEN Append(queue, [NewDisconnect EXCEPT !.cb = id]) ELSE queue
    /\ event' = "none"
    /\ UNCHANGED <<connVars, retryVars, version, uriCount, calling, stored, net,
                   histVars, sendPc>>

\* a copy of m->connect that starts with the first version again
Again(cs) == Stamp([connect EXCEPT !.ver = IF version = 0 THEN 0 ELSE @], cs)

\* MQTTAsync_reconnect
Reconnect ==
    /\ IF AutomaticReconnect
       THEN /\ shouldBeConnected
            /\ reconnectNow' = TRUE
            /\ retrying' = TRUE
            /\ base' = IF retrying THEN base ELSE MinRetry
            /\ UNCHANGED queue
       ELSE /\ queue' \in AddHead(queue, Again(connState))
            /\ UNCHANGED retryVars
    /\ event' = "none"
    /\ UNCHANGED <<connVars, shouldBeConnected, appVars, net, histVars,
                   sendPc>>

----------------------------------------------------------------------------
(* The send thread: MQTTAsync_processCommand and MQTTAsync_checkTimeouts *)

\* CONNECT when one is in progress or done: only m->connect is overwritten
ProcessConnectAgain ==
    /\ sendPc = "drain"
    /\ queue # <<>> /\ Head(queue).type = "CONNECT"
    /\ connState # "NOT_IN_PROGRESS" \/ connected
    /\ connect' = Head(queue)
    /\ queue' = Tail(queue)
    /\ event' = "none"
    /\ UNCHANGED <<connState, connected, disc, shouldBeConnected, retryVars,
                   appVars, net, histVars, sendPc>>

\* connect_state as MQTTProtocol_connect leaves it: TCP, TLS or WebSocket still
\* under way or CONNECT sent; after a failure, in a proxy handshake or not
UnderWay == {"TCP_IN_PROGRESS", "HANDSHAKE", "WAIT_FOR_CONNACK"}
Failed   == {"NOT_IN_PROGRESS", "PROXY"}

\* CONNECT: MQTTProtocol_connect starts an attempt that goes on elsewhere
ProcessConnect(stage) ==
    /\ sendPc = "drain"
    /\ queue # <<>> /\ Head(queue).type = "CONNECT"
    /\ connState = "NOT_IN_PROGRESS" /\ ~connected
    /\ connState' = stage
    /\ connect' = ChooseVersion(Head(queue))
    /\ queue' = Tail(queue)
    /\ event' = "none"
    /\ UNCHANGED <<connected, disc, shouldBeConnected, retryVars, appVars, net,
                   histVars, sendPc>>

\* CONNECT: MQTTProtocol_connect fails at once, in a proxy handshake or not.
\* shouldBeConnected is cleared by MQTTAsync_disconnect and set again; the
\* callbacks are called and kept.
ProcessConnectFails(stage) ==
    LET cmd == ChooseVersion(Head(queue))
    IN  /\ sendPc = "drain"
        /\ queue # <<>> /\ Head(queue).type = "CONNECT"
        /\ connState = "NOT_IN_PROGRESS" /\ ~connected
        /\ ~net
        /\ connState' = stage
        /\ shouldBeConnected' = TRUE
        /\ IF CheckConn(cmd)
           THEN /\ queue' \in AddHead(Tail(queue), Stamp(NextTry(cmd), stage))
                /\ UNCHANGED <<connect, answered, retrying, base>>
           ELSE /\ queue' = Tail(queue)
                /\ answered' = Answer(cmd.cb)
                /\ connect' = cmd
                /\ StartConnectRetry(TRUE)
        /\ event' = "none"
        /\ UNCHANGED <<connected, disc, reconnectNow, appVars, net, parted,
                       sendPc>>

\* mutant: the session is not closed
CheckDisconnectOpen(cmd) ==
    /\ connState' = "DISCONNECTING"
    /\ event' = "disconnected"
    /\ parted' = Tick(parted, cmd.cb)
    /\ UNCHANGED <<connected, retrying, base>>

\* MQTTAsync_checkDisconnect when the wait is over
CheckDisconnect(cmd) ==
    /\ Close
    /\ IF cmd.internal
       THEN /\ ReportLost
            /\ StartConnectRetry(shouldBeConnected)
            /\ UNCHANGED parted
       ELSE /\ event' = "disconnected"
            /\ parted' = Tick(parted, cmd.cb)
            /\ UNCHANGED <<retrying, base>>

\* DISCONNECT: a connect in progress is reported as failed; an internal one has
\* no timeout
ProcessDisconnect(drained) ==
    LET cmd == Head(queue)
    IN  /\ sendPc = "drain"
        /\ queue # <<>> /\ cmd.type = "DISCONNECT"
        /\ queue' = Tail(queue)
        /\ disc' = cmd
        /\ IF connState = "NOT_IN_PROGRESS" /\ ~connected
           THEN /\ event' = "none"
                /\ UNCHANGED <<connState, connected, connect, histVars,
                               retrying, base>>
           ELSE /\ IF connState # "NOT_IN_PROGRESS"
                   THEN /\ answered' = Answer(connect.cb)
                        /\ connect' = [connect EXCEPT !.cb = None]
                   ELSE UNCHANGED <<answered, connect>>
                /\ IF cmd.internal \/ drained
                   THEN CheckDisconnect(cmd)
                   ELSE /\ connState' = "DISCONNECTING"
                        /\ event' = "none"
                        /\ UNCHANGED <<connected, parted, retrying, base>>
        /\ UNCHANGED <<shouldBeConnected, reconnectNow, appVars, net, sendPc>>

\* mutant: the retry interval is ignored
AutoReconnectNow(due) ==
    IF due /\ reconnectNow /\ retrying'
    THEN /\ queue' \in AddHead(queue, Again(connState'))
         /\ reconnectNow' = FALSE
    ELSE UNCHANGED <<queue, reconnectNow>>

\* the last part of checkTimeouts: the retry interval is over, or reconnectNow.
\* shouldBeConnected is not looked at.
AutoReconnect(due) ==
    IF due /\ AutomaticReconnect /\ retrying'
    THEN /\ queue' \in AddHead(queue, Again(connState'))
         /\ reconnectNow' = FALSE
    ELSE UNCHANGED <<queue, reconnectNow>>

\* checkTimeouts when the disconnect's wait is over
DisconnectTimeout(due) ==
    /\ sendPc = "check"
    /\ sendPc' = "drain"
    /\ connState = "DISCONNECTING"
    /\ CheckDisconnect(disc)
    /\ AutoReconnect(due)
    /\ UNCHANGED <<connect, disc, shouldBeConnected, appVars, net, answered>>

\* checkTimeouts when connectTimeout seconds have passed since the connect,
\* whatever is in progress now
ConnectTimeout ==
    /\ sendPc = "check"
    /\ sendPc' = "drain"
    /\ connState # "NOT_IN_PROGRESS"
    /\ connState \in {"DISCONNECTING", "PROXY"} \/ ~net \/ ~connect.started
    /\ NextOrClose
    /\ UNCHANGED <<disc, shouldBeConnected, reconnectNow, appVars, net,
                   parted>>

\* checkTimeouts when neither is the case
NoTimeout(due) ==
    /\ sendPc = "check"
    /\ sendPc' = "drain"
    /\ UNCHANGED <<connVars, shouldBeConnected, retrying, base, appVars, net,
                   histVars>>
    /\ AutoReconnect(due)
    /\ event' = "none"

\* the send thread has processed what it could and will check the timeouts; a
\* DISCONNECT may be hidden by a message before it that cannot be sent
SendWait ==
    /\ sendPc = "drain"
    /\ queue # <<>> => Head(queue).type = "DISCONNECT" /\ ~Head(queue).internal
    /\ sendPc' = "check"
    /\ event' = "none"
    /\ UNCHANGED <<queue, connVars, shouldBeConnected, retryVars, appVars, net,
                   histVars>>

----------------------------------------------------------------------------
(* The receive thread *)

\* MQTTAsync_connecting: TCP or a handshake is done, CONNECT is sent with the
\* version in m->connect (MQTTPacket_send_connect refuses version 0).  What the
\* URI read at the index in m->connect is, when it is past the end, is left open.
Connecting(stage) ==
    /\ \/ stage = "HANDSHAKE" /\ connState = "TCP_IN_PROGRESS"
       \/ /\ stage = "WAIT_FOR_CONNACK" /\ connect.ver # 0
          /\ connState \in {"TCP_IN_PROGRESS", "HANDSHAKE"}
    /\ connState' = stage
    /\ event' = "none"
    /\ UNCHANGED <<queue, connected, connect, disc, shouldBeConnected,
                   retryVars, appVars, net, histVars, sendPc>>

ConnectingFails ==
    /\ connState \in {"TCP_IN_PROGRESS", "HANDSHAKE"}
    /\ ~net \/ connect.ver = 0
    /\ NextOrClose
    /\ UNCHANGED <<disc, shouldBeConnected, reconnectNow, appVars, net, parted,
                   sendPc>>

\* CONNACK accepted: completeConnection, onSuccess and the connected callback
Connack ==
    /\ connState = "WAIT_FOR_CONNACK"
    /\ connState' = "NOT_IN_PROGRESS"
    /\ connected' = TRUE
    /\ retrying' = FALSE
    /\ answered' = Answer(connect.cb)
    /\ connect' = [connect EXCEPT !.cb = None]
    /\ event' = "connected"
    /\ UNCHANGED <<queue, disc, shouldBeConnected, reconnectNow, base, appVars,
                   net, parted, sendPc>>

\* CONNACK refused, or the socket fails
SocketError ==
    /\ connState \in {"PROXY", "WAIT_FOR_CONNACK", "DISCONNECTING"} \/ connected
    /\ ~net
    /\ NextOrClose
    /\ UNCHANGED <<disc, shouldBeConnected, reconnectNow, appVars, net, parted,
                   sendPc>>

\* MQTTProtocol_closeSession, from keepalive, a retry or a failed command
InternalDisconnect ==
    /\ connected /\ ~net
    /\ queue' \in AddHead(queue, [NewDisconnect EXCEPT !.internal = TRUE])
    /\ event' = "none"
    /\ UNCHANGED <<connVars, shouldBeConnected, retryVars, appVars, net,
                   histVars, sendPc>>

\* the network or the server goes away and comes back
Network ==
    /\ net' = ~net
    /\ event' = "none"
    /\ UNCHANGED <<queue, connVars, shouldBeConnected, retryVars, appVars,
                   histVars, sendPc>>

----------------------------------------------------------------------------
Application ==
    \/ \E id \in ConnIds : ConnectBegin(id)
    \/ ConnectOptions
    \/ ConnectAdd
    \/ \E id \in DiscIds : Disconnect(id)
    \/ Reconnect

ProcessCommand ==
    \/ ProcessConnectAgain
    \/ \E s \in UnderWay : ProcessConnect(s)
    \/ \E s \in Failed : ProcessConnectFails(s)
    \/ \E drained \in BOOLEAN : ProcessDisconnect(drained)

CheckTimeouts ==
    \/ \E due \in BOOLEAN : DisconnectTimeout(due)
    \/ ConnectTimeout
    \/ \E due \in BOOLEAN : NoTimeout(due)

Receive ==
    \/ \E s \in {"HANDSHAKE", "WAIT_FOR_CONNACK"} : Connecting(s)
    \/ ConnectingFails
    \/ Connack
    \/ SocketError

Next ==
    \/ Application
    \/ ProcessCommand
    \/ SendWait
    \/ CheckTimeouts
    \/ Receive
    \/ InternalDisconnect
    \/ Network

Spec == Init /\ [][Next]_vars

\* The threads run.  The clocks advance: a timeout that is checked again and
\* again will be over one day.
Fairness ==
    /\ WF_vars(ConnectOptions \/ ConnectAdd)
    /\ WF_vars(ProcessCommand \/ SendWait \/ CheckTimeouts)
    /\ WF_vars(Receive)
    /\ SF_vars(\E due \in BOOLEAN : DisconnectTimeout(due))
    /\ SF_vars(ConnectTimeout)
    /\ SF_vars(NoTimeout(TRUE))

FairSpec == Spec /\ Fairness

----------------------------------------------------------------------------
(* Properties *)

\* the indexes into serverURIs of m->connect, from which MQTTAsync_connecting
\* reads it, and of the commands queued
URIsInArray ==
    \A cmd \in {connect} \cup {queue[n] : n \in DOMAIN queue} :
        cmd.uri = 0 \/ cmd.uri < uriCount

\* The index into serverURIs stays inside the array through every fallback, retry
\* and reconnect.  Only a connect call that replaces the list by a shorter one
\* can leave an index of an attempt in progress behind its end.
URIInBounds ==
    [][URIsInArray /\ uriCount' >= uriCount => URIsInArray']_vars

\* However connects, retries and reconnects are mixed, a client has at most one
\* CONNECT in the command list (MQTTAsync_addCommand).
OneConnectQueued ==
    \A m, n \in DOMAIN queue :
        queue[m].type = "CONNECT" /\ queue[n].type = "CONNECT" => m = n

\* A disconnect call gets at most one callback, whether it is processed at once
\* or waits as DISCONNECTING and races with timeouts and errors.
DisconnectReportedOnce == \A i \in DiscIds : parted[i] <= 1

\* With automatic reconnect, a client that was asked to connect and never to
\* disconnect is connected or has something under way that will connect it: a
\* queued CONNECT or a call about to queue one, an attempt, or the retry timer.
StillTrying ==
    AutomaticReconnect /\ shouldBeConnected /\ used \cap DiscIds = {} =>
        \/ connected \/ retrying \/ connState # "NOT_IN_PROGRESS" \/ stored
        \/ \E n \in DOMAIN queue : queue[n].type = "CONNECT"

\* A connection never goes away without the application being told, by
\* connectionLost or by the disconnect's onSuccess, in the same step.
NoSilentLoss ==
    [][connected /\ ~connected' => event' \in {"connectionLost", "disconnected"}]_vars

\* The packet CONNECT is sent with an MQTT version that was chosen for the
\* attempt: m->connect has one while MQTTAsync_connecting may come to send it.
ConnectVersionChosen ==
    connState \in {"TCP_IN_PROGRESS", "HANDSHAKE"} => connect.ver # 0

\* from some time on the server can be reached, and the application has asked for
\* one MQTT version and for no disconnect
ServerStays == <>[](net /\ version # 0 /\ used \cap DiscIds = {})

\* Automatic reconnect: once the server stays reachable, a client that asked to
\* connect with a given version, and never to disconnect, gets connected for good.
Reconnects ==
    AutomaticReconnect /\ []URIsInArray /\ ServerStays =>
        (shouldBeConnected ~> []connected)

\* Nor are the callbacks of a connect call lost among the copies of the command
\* that fallbacks, retries and reconnects make: under the same conditions the
\* only connect call of a client is answered, by onSuccess or onFailure.  (A
\* second call may overwrite or drop the callbacks of the first, or its own.)
ConnectAnswered ==
    AutomaticReconnect /\ []URIsInArray /\ ServerStays =>
        \A i \in ConnIds : [](used \cap ConnIds \subseteq {i}) =>
            (i \in used ~> i \in answered)
=============================================================================
