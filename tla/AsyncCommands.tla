--------------------------- MODULE AsyncCommands ---------------------------
(***************************************************************************)
(* The command queue of the asynchronous client (MQTTAsync.c and           *)
(* MQTTAsyncUtils.c): application threads put PUBLISH, SUBSCRIBE and       *)
(* UNSUBSCRIBE requests on one global list, the send thread takes them off *)
(* and writes them, the receive thread matches acknowledgements with the   *)
(* responses a client waits for and calls the application back.            *)
(*                                                                         *)
(* Locks.  mqttasync_mutex is held by the send thread from Dequeue to      *)
(* FinishCommand (sendPc # "idle") and by every action of the receive      *)
(* thread but WriteComplete, which runs inside Socket_getReadySocket under *)
(* socket_mutex only.  mqttcommand_mutex protects one action at a time.    *)
(* AddCommand and CheckBuffer take mqttcommand_mutex but not               *)
(* mqttasync_mutex, so they interleave with the send thread's steps.       *)
(*                                                                         *)
(* The connection is abstract here (module AsyncConnect details it): it    *)
(* comes up and goes down at any time mqttasync_mutex is free.             *)
(***************************************************************************)
EXTENDS Integers, Sequences, FiniteSets

CONSTANTS
    Clients,                \* client handles (MQTTAsyncs)
    Threads,                \* application threads
    Ops,                    \* identities of API calls, used once each
    Kinds,                  \* the kinds of request the application makes
    MaxMsgId,               \* MAX_MSG_ID
    MaxInflight,            \* c->maxInflightMessages
    MaxBuffered,            \* createOptions->maxBufferedMessages
    DeleteOldest,           \* createOptions->deleteOldestMessages
    SendWhileDisconnected,  \* createOptions->sendWhileDisconnected, with
                            \*   allowDisconnectedSendAtAnyTime
    CleanSession,           \* c->cleansession
    NoCommand, NoOp         \* NULL pointers

\* PUB0: PUBLISH with QoS 0;  PUB1: PUBLISH with QoS 1 or 2, whose last
\* acknowledgement is PUBACK or PUBCOMP;  SUB: SUBSCRIBE or UNSUBSCRIBE.
ASSUME KindsAssumption == Kinds \subseteq {"PUB0", "PUB1", "SUB"}
ASSUME LimitsAssumption ==
    /\ MaxMsgId \in Nat \ {0}
    /\ MaxInflight \in Nat
    /\ MaxBuffered \in Nat
    /\ {DeleteOldest, SendWhileDisconnected, CleanSession} \subseteq BOOLEAN

\* MQTTAsync_queuedCommand, and the Messages entry made from it
Command == [client : Clients, kind : Kinds, token : 0 .. MaxMsgId, op : Ops]

ASSUME NullAssumption == NoCommand \notin Command /\ NoOp \notin Ops

VARIABLES
    commands,      \* MQTTAsync_commands, one list for all the clients
    noBuffered,    \* m->noBufferedMessages
    msgID,         \* c->msgID, the id assigned last
    outbound,      \* c->outboundMsgs
    responses,     \* m->responses
    pendingWrite,  \* m->pending_write: op of the command it points to
    sockPending,   \* command whose packet is partly written on the socket
    state,         \* "down"; connected: "up", "closing" (an internal
                   \*   DISCONNECT is at the head of the list) or
                   \*   "disconnecting" (connect_state == DISCONNECTING)
    sockError,     \* clients whose socket failed in the receive thread, which
                   \*   will close it
    owed,          \* acknowledgements the server will send
    pc, cur,       \* application threads: next step, and the command built
    sendPc, sendCmd, sendRc,  \* the send thread inside processCommand
    hung,          \* a thread loops for ever holding both mutexes
    stage,         \* history: how far each API call has come
    calls,         \* history: callbacks made for each API call
    success,       \* history: calls reported successful
    written        \* history: calls whose packet was wholly written

queueVars  == <<commands, noBuffered>>
clientVars == <<msgID, outbound, responses, pendingWrite>>
netVars    == <<sockPending, sockError, state, owed>>
appVars    == <<pc, cur>>
sendVars   == <<sendPc, sendCmd, sendRc>>
histVars   == <<stage, calls, success, written>>
vars == <<queueVars, clientVars, netVars, appVars, sendVars, hung, histVars>>

Stages == {"new", "calling", "rejected", "queued", "sending", "waiting",
           "done", "dropped", "lost"}

TypeOK ==
    /\ commands \in Seq(Command)
    /\ noBuffered \in [Clients -> Int]
    /\ msgID \in [Clients -> 0 .. MaxMsgId]
    /\ outbound \in [Clients -> Seq(Command)]
    /\ responses \in [Clients -> Seq(Command)]
    /\ pendingWrite \in [Clients -> Ops \cup {NoOp}]
    /\ sockPending \in [Clients -> Command \cup {NoCommand}]
    /\ sockError \in SUBSET Clients
    /\ state \in [Clients -> {"down", "up", "closing", "disconnecting"}]
    /\ owed \in [Clients -> Seq(Command)]
    /\ pc \in [Threads -> {"idle", "assign", "check", "add"}]
    /\ cur \in [Threads -> Command \cup {NoCommand}]
    /\ sendPc \in {"idle", "write", "flag", "finish"}
    /\ sendCmd \in Command \cup {NoCommand}
    /\ sendRc \in {"COMPLETE", "INTERRUPTED", "SOCKET_ERROR"}
    /\ hung \in BOOLEAN
    /\ stage \in [Ops -> Stages]
    /\ calls \in [Ops -> Nat]
    /\ success \in SUBSET Ops
    /\ written \in SUBSET Ops

Init ==
    /\ commands = <<>>
    /\ noBuffered = [c \in Clients |-> 0]
    /\ msgID = [c \in Clients |-> 0]
    /\ outbound = [c \in Clients |-> <<>>]
    /\ responses = [c \in Clients |-> <<>>]
    /\ pendingWrite = [c \in Clients |-> NoOp]
    /\ sockPending = [c \in Clients |-> NoCommand]
    /\ sockError = {}
    /\ state = [c \in Clients |-> "down"]
    /\ owed = [c \in Clients |-> <<>>]
    /\ pc = [t \in Threads |-> "idle"]
    /\ cur = [t \in Threads |-> NoCommand]
    /\ sendPc = "idle"
    /\ sendCmd = NoCommand
    /\ sendRc = "COMPLETE"
    /\ hung = FALSE
    /\ stage = [o \in Ops |-> "new"]
    /\ calls = [o \in Ops |-> 0]
    /\ success = {}
    /\ written = {}

----------------------------------------------------------------------------
(* Lists *)

\* the list without its n-th item: ListDetach
Detach(s, n) == [i \in 1 .. Len(s) - 1 |-> IF i < n THEN s[i] ELSE s[i + 1]]

\* the n in S that a search from the head of a list finds
IsFirst(n, S) == n \in S /\ \A k \in S : n <= k

\* positions of the items with message id i: cmdMessageIDCompare, messageIDCompare
WithToken(s, i) == {n \in DOMAIN s : s[n].token = i}

OpsIn(s) == {s[n].op : n \in DOMAIN s}

IsPublish(cmd) == cmd.kind # "SUB"

\* mutant: the receive thread does not lock mqttasync_mutex
UnlockedAlways == TRUE

\* mqttasync_mutex is free
Unlocked == sendPc = "idle"

----------------------------------------------------------------------------
(* Application threads: MQTTAsync_send, subscribeMany, unsubscribeMany *)

\* The entry checks.  A call refused here changes nothing.
Call(t, c, k, o) ==
    /\ pc[t] = "idle"
    /\ stage[o] = "new"
    /\ state[c] # "down" \/ (k # "SUB" /\ SendWhileDisconnected)
    /\ cur' = [cur EXCEPT ![t] =
                 [client |-> c, kind |-> k, token |-> 0, op |-> o]]
    /\ pc' = [pc EXCEPT ![t] = IF k = "PUB0" THEN "check" ELSE "assign"]
    /\ stage' = [stage EXCEPT ![o] = "calling"]
    /\ UNCHANGED <<queueVars, clientVars, netVars, sendVars, hung, calls,
                   success, written>>

\* The call returns an error code: nothing has been queued.
Refuse(t) ==
    /\ pc' = [pc EXCEPT ![t] = "idle"]
    /\ cur' = [cur EXCEPT ![t] = NoCommand]
    /\ stage' = [stage EXCEPT ![cur[t].op] = "rejected"]

\* mutant: the responses waited for are not looked at
InUseNoResponses(c, i) ==
    WithToken(commands, i) # {} \/ WithToken(outbound[c], i) # {}

\* ids of every client's commands are avoided, and the client's own others
InUse(c, i) ==
    \/ WithToken(commands, i) # {}
    \/ WithToken(outbound[c], i) # {}
    \/ WithToken(responses[c], i) # {}

\* mutant: the id wraps one too late
FreeIdsPastMax(c) == {i \in (1 .. MaxMsgId + 1) \ {msgID[c]} : ~InUse(c, i)}

\* the search starts after the id assigned last, wraps and stops before it
FreeIds(c) == {i \in (1 .. MaxMsgId) \ {msgID[c]} : ~InUse(c, i)}
Distance(c, i) == IF i > msgID[c] THEN i - msgID[c] ELSE i + MaxMsgId - msgID[c]

AssignMsgId(t) ==
    LET c == cur[t].client
    IN  /\ pc[t] = "assign"
        /\ Unlocked
        /\ \/ \E i \in FreeIds(c) :
                /\ \A j \in FreeIds(c) : Distance(c, i) <= Distance(c, j)
                /\ msgID' = [msgID EXCEPT ![c] = i]
                /\ cur' = [cur EXCEPT ![t].token = i]
                /\ pc' = [pc EXCEPT ![t] =
                            IF IsPublish(cur[t]) THEN "check" ELSE "add"]
                /\ UNCHANGED <<stage, hung>>
           \/ /\ FreeIds(c) = {} /\ msgID[c] # 0
              /\ Refuse(t)
              /\ UNCHANGED <<msgID, hung>>
           \/ /\ FreeIds(c) = {} /\ msgID[c] = 0  \* start_msgid is never met
              /\ hung' = TRUE
              /\ UNCHANGED <<msgID, appVars, stage>>
        /\ UNCHANGED <<queueVars, outbound, responses, pendingWrite, netVars,
                       sendVars, calls, success, written>>

\* mutant: the limit is not checked
CheckBufferNever(t) ==
    /\ pc[t] = "check"
    /\ pc' = [pc EXCEPT ![t] = "add"]
    /\ UNCHANGED <<cur, queueVars, clientVars, netVars, sendVars, hung, histVars>>

\* MQTTAsync_getNoBufferedMessages, unless the oldest message is to go
CheckBuffer(t) ==
    /\ pc[t] = "check"
    /\ \/ /\ ~DeleteOldest /\ noBuffered[cur[t].client] >= MaxBuffered
          /\ Refuse(t)
       \/ /\ DeleteOldest \/ noBuffered[cur[t].client] < MaxBuffered
          /\ pc' = [pc EXCEPT ![t] = "add"]
          /\ UNCHANGED <<cur, stage>>
    /\ UNCHANGED <<queueVars, clientVars, netVars, sendVars, hung, calls,
                   success, written>>

\* MQTTAsync_addCommand: the oldest publish goes when the buffer is full
AddCommand(t) ==
    LET cmd  == cur[t]
        c    == cmd.client
        all  == Append(commands, cmd)
        pubs == {n \in DOMAIN all : all[n].client = c /\ IsPublish(all[n])}
    IN  /\ pc[t] = "add"
        /\ \/ /\ ~IsPublish(cmd)
              /\ commands' = all
              /\ stage' = [stage EXCEPT ![cmd.op] = "queued"]
              /\ UNCHANGED noBuffered
           \/ /\ IsPublish(cmd) /\ noBuffered[c] < MaxBuffered
              /\ commands' = all
              /\ noBuffered' = [noBuffered EXCEPT ![c] = @ + 1]
              /\ stage' = [stage EXCEPT ![cmd.op] = "queued"]
           \/ /\ IsPublish(cmd) /\ noBuffered[c] >= MaxBuffered
              /\ \E n \in pubs :
                   /\ IsFirst(n, pubs)
                   /\ commands' = Detach(all, n)
                   /\ stage' = [stage EXCEPT ![cmd.op] = "queued",
                                             ![all[n].op] = "dropped"]
              /\ UNCHANGED noBuffered
        /\ pc' = [pc EXCEPT ![t] = "idle"]
        /\ cur' = [cur EXCEPT ![t] = NoCommand]
        /\ UNCHANGED <<clientVars, netVars, sendVars, hung, calls, success,
                       written>>

----------------------------------------------------------------------------
(* The send thread: MQTTAsync_processCommand *)

\* mutant: the in-flight window is one too wide
RunnableOneMore(cmd) ==
    /\ state[cmd.client] = "up"
    /\ sockPending[cmd.client] = NoCommand
    /\ cmd.kind = "PUB0" \/ Len(outbound[cmd.client]) <= MaxInflight

\* connected, no connect or disconnect in progress, nothing pending on the
\* socket, message ids left and, but for QoS 0, room in the in-flight window
Runnable(cmd) ==
    /\ state[cmd.client] = "up"
    /\ sockPending[cmd.client] = NoCommand
    /\ Len(outbound[cmd.client]) < MaxMsgId - 1
    /\ cmd.kind = "PUB0" \/ Len(outbound[cmd.client]) < MaxInflight

\* a command that cannot run hides the later ones of its client
\* (ignored_clients), and no others
Candidates ==
    {n \in DOMAIN commands :
        /\ Runnable(commands[n])
        /\ \A k \in 1 .. n - 1 : commands[k].client # commands[n].client}

\* mutant: only messages with QoS 1 and 2 are taken off the count
UnbufferQos1(cmd) ==
    IF cmd.kind = "PUB1" THEN [noBuffered EXCEPT ![cmd.client] = @ - 1] ELSE noBuffered

\* noBufferedMessages without the command
Unbuffer(cmd) ==
    IF IsPublish(cmd) THEN [noBuffered EXCEPT ![cmd.client] = @ - 1] ELSE noBuffered

Dequeue ==
    /\ sendPc = "idle"
    /\ \E n \in Candidates :
         /\ IsFirst(n, Candidates)
         /\ sendCmd' = commands[n]
         /\ noBuffered' = Unbuffer(commands[n])
         /\ commands' = Detach(commands, n)
         /\ stage' = [stage EXCEPT ![commands[n].op] = "sending"]
    /\ sendPc' = "write"
    /\ UNCHANGED <<clientVars, netVars, appVars, sendRc, hung, calls, success,
                   written>>

\* the packet goes out whole, or in part, or not at all; a QoS 1 or 2 message
\* is in outboundMsgs before that (MQTTProtocol_startPublish)
WritePacket(rc) ==
    LET c == sendCmd.client
    IN  /\ sendPc = "write"
        /\ sendRc' = rc
        /\ outbound' = IF sendCmd.kind = "PUB1"
                       THEN [outbound EXCEPT ![c] = Append(@, sendCmd)]
                       ELSE outbound
        /\ sockPending' = IF rc = "INTERRUPTED"
                          THEN [sockPending EXCEPT ![c] = sendCmd]
                          ELSE sockPending
        /\ owed' = IF rc = "COMPLETE" /\ sendCmd.kind # "PUB0"
                   THEN [owed EXCEPT ![c] = Append(@, sendCmd)] ELSE owed
        /\ written' = IF rc = "COMPLETE" THEN written \cup {sendCmd.op}
                                         ELSE written
        /\ sendPc' = IF sendCmd.kind = "PUB0" /\ rc # "COMPLETE"
                     THEN "flag" ELSE "finish"
        /\ UNCHANGED <<queueVars, msgID, responses, pendingWrite, sockError,
                       state, appVars, sendCmd, hung, stage, calls, success>>

\* command->client->pending_write = &command->command
FlagPendingWrite ==
    /\ sendPc = "flag"
    /\ pendingWrite' = [pendingWrite EXCEPT ![sendCmd.client] = sendCmd.op]
    /\ sendPc' = "finish"
    /\ UNCHANGED <<queueVars, msgID, outbound, responses, netVars, appVars,
                   sendCmd, sendRc, hung, histVars>>

\* callback for op o
CallBack(o, ok) ==
    /\ calls' = [calls EXCEPT ![o] = @ + 1]
    /\ success' = IF ok THEN success \cup {o} ELSE success
    /\ stage' = [stage EXCEPT ![o] = "done"]

\* a failed command is reported and an internal DISCONNECT queued at the head;
\* a QoS 0 message written whole is reported; the others wait for a response
FinishCommand ==
    LET c == sendCmd.client
    IN  /\ sendPc = "finish"
        /\ \/ /\ sendRc = "SOCKET_ERROR"
              /\ CallBack(sendCmd.op, FALSE)
              /\ state' = [state EXCEPT ![c] = "closing"]
              /\ UNCHANGED responses
           \/ /\ sendRc = "COMPLETE" /\ sendCmd.kind = "PUB0"
              /\ CallBack(sendCmd.op, TRUE)
              /\ UNCHANGED <<state, responses>>
           \/ /\ sendRc # "SOCKET_ERROR"
              /\ sendRc = "INTERRUPTED" \/ sendCmd.kind # "PUB0"
              /\ responses' = [responses EXCEPT ![c] = Append(@, sendCmd)]
              /\ stage' = [stage EXCEPT ![sendCmd.op] = "waiting"]
              /\ UNCHANGED <<state, calls, success>>
        /\ sendPc' = "idle"
        /\ sendCmd' = NoCommand
        /\ sendRc' = "COMPLETE"
        /\ UNCHANGED <<queueVars, msgID, outbound, pendingWrite, sockPending,
                       sockError, owed, appVars, hung, written>>

----------------------------------------------------------------------------
(* The receive thread *)

\* MQTTAsync_writeComplete: a pending write has been continued to its end, or
\* has failed.  mqttasync_mutex is not held.  pending_write may point to freed
\* memory, where a later SUBSCRIBE may live: its response goes unreported.
WriteComplete(c, ok) ==
    LET w     == sockPending[c]
        p     == pendingWrite[c]
        found == {n \in DOMAIN responses[c] : responses[c][n].op = p}
        subs  == {n \in DOMAIN responses[c] : responses[c][n].kind = "SUB"}
    IN  /\ w # NoCommand
        /\ sockPending' = [sockPending EXCEPT ![c] = NoCommand]
        /\ owed' = IF ok /\ w.kind # "PUB0"
                   THEN [owed EXCEPT ![c] = Append(@, w)] ELSE owed
        /\ written' = IF ok THEN written \cup {w.op} ELSE written
        /\ sockError' = IF ok THEN sockError ELSE sockError \cup {c}
        /\ pendingWrite' = [pendingWrite EXCEPT ![c] = NoOp]
        /\ \/ /\ p # NoOp
              /\ \E n \in found :
                   responses' = [responses EXCEPT ![c] = Detach(@, n)]
              /\ CallBack(p, ok)
           \/ /\ p # NoOp /\ found = {} /\ stage[p] = "done"
              /\ \E n \in subs :
                   /\ responses' = [responses EXCEPT ![c] = Detach(@, n)]
                   /\ stage' = [stage EXCEPT ![responses[c][n].op] = "lost"]
              /\ UNCHANGED <<calls, success>>
           \/ /\ p = NoOp \/ found = {}
              /\ UNCHANGED <<responses, stage, calls, success>>
        /\ UNCHANGED <<queueVars, msgID, outbound, state, appVars, sendVars, hung>>

\* handlePubacks or handlePubcomps take the message off outboundMsgs, then
\* MQTTAsync_cycle (for SUBACK and UNSUBACK MQTTAsync_receiveThread) takes the
\* first response with the same id off and reports it
Acknowledge(c, n, ok) ==
    LET ack  == owed[c][n]
        msgs == WithToken(outbound[c], ack.token)
        resp == WithToken(responses[c], ack.token)
    IN  /\ Unlocked
        /\ owed' = [owed EXCEPT ![c] = Detach(@, n)]
        /\ \/ /\ IsPublish(ack)
              /\ \E m \in msgs :
                   /\ IsFirst(m, msgs)
                   /\ outbound' = [outbound EXCEPT ![c] = Detach(@, m)]
           \/ ~IsPublish(ack) /\ UNCHANGED outbound
           \/ msgs = {} /\ UNCHANGED outbound
        /\ \/ \E r \in resp :
                /\ IsFirst(r, resp)
                /\ responses' = [responses EXCEPT ![c] = Detach(@, r)]
                /\ CallBack(responses[c][r].op, ok)
           \/ resp = {} /\ UNCHANGED <<responses, stage, calls, success>>
        /\ UNCHANGED <<queueVars, msgID, pendingWrite, sockPending, sockError,
                       state, appVars, sendVars, hung, written>>

\* mutant: the responses are reported and stay in their list
CleanUpKeeps(c) ==
    /\ outbound' = [outbound EXCEPT ![c] = <<>>]
    /\ msgID' = [msgID EXCEPT ![c] = 0]
    /\ calls' = [o \in Ops |-> IF o \in OpsIn(responses[c]) THEN calls[o] + 1
                                                            ELSE calls[o]]
    /\ UNCHANGED <<responses, stage>>

\* mutant: the responses are freed and not reported
CleanUpSilent(c) ==
    /\ outbound' = [outbound EXCEPT ![c] = <<>>]
    /\ msgID' = [msgID EXCEPT ![c] = 0]
    /\ responses' = [responses EXCEPT ![c] = <<>>]
    /\ UNCHANGED <<calls, stage>>

\* MQTTAsync_cleanSession, freeResponses included
CleanUp(c) ==
    /\ outbound' = [outbound EXCEPT ![c] = <<>>]
    /\ msgID' = [msgID EXCEPT ![c] = 0]
    /\ responses' = [responses EXCEPT ![c] = <<>>]
    /\ calls' = [o \in Ops |-> IF o \in OpsIn(responses[c]) THEN calls[o] + 1
                                                            ELSE calls[o]]
    /\ stage' = [o \in Ops |-> IF o \in OpsIn(responses[c]) THEN "done"
                                                            ELSE stage[o]]

KeepSession == UNCHANGED <<outbound, msgID, responses, calls, stage>>

\* MQTTProtocol_retry(zero, 1, 1): EVERY connected client without a pending
\* write resends its in-flight messages from the first.  n[d] of them go out
\* whole; the next one of a client in broken fails, else it goes out in part,
\* and either ends the resending.
Resend(clients, n, broken) ==
    /\ \A d \in clients : n[d] <= Len(outbound'[d])
    /\ \A d \in clients : d \in broken => n[d] < Len(outbound'[d])
    /\ owed' = [d \in Clients |->
                  IF d \in clients THEN owed[d] \o SubSeq(outbound'[d], 1, n[d])
                                   ELSE owed[d]]
    /\ sockPending' = [d \in Clients |->
                         IF d \in clients \ broken /\ n[d] < Len(outbound'[d])
                         THEN outbound'[d][n[d] + 1] ELSE sockPending[d]]
    /\ written' = written \cup
         UNION {OpsIn(SubSeq(outbound'[d], 1, n[d])) : d \in clients}

\* MQTTAsync_completeConnection with a successful CONNACK
ConnectionUp(c, sessionPresent, n, broken) ==
    LET resend == {d \in Clients : /\ d = c \/ state[d] # "down"
                                   /\ sockPending[d] = NoCommand}
    IN  /\ Unlocked
        /\ state[c] = "down"
        /\ IF CleanSession \/ ~sessionPresent THEN CleanUp(c) ELSE KeepSession
        /\ \/ /\ outbound'[c] = <<>>
              /\ state' = [state EXCEPT ![c] = "up"]
              /\ UNCHANGED <<owed, sockPending, written>>
           \/ /\ outbound'[c] # <<>>
              /\ broken \subseteq resend
              /\ Resend(resend, n, broken)
              /\ state' = [d \in Clients |->
                             IF d \in broken THEN "closing"
                             ELSE IF d = c THEN "up" ELSE state[d]]
        /\ UNCHANGED <<queueVars, pendingWrite, sockError, appVars, sendVars,
                       hung, success>>

\* MQTTAsync_closeSession (or closeOnly, when another server URI or MQTT
\* version is to be tried): DISCONNECT processed or timed out, socket error,
\* keepalive failure, DISCONNECT from the server
ConnectionDown(c, only) ==
    /\ Unlocked
    /\ state[c] # "down"
    /\ state' = [state EXCEPT ![c] = "down"]
    /\ sockPending' = [sockPending EXCEPT ![c] = NoCommand]
    /\ sockError' = sockError \ {c}
    /\ owed' = [owed EXCEPT ![c] = <<>>]
    /\ IF CleanSession /\ ~only THEN CleanUp(c) ELSE KeepSession
    /\ UNCHANGED <<queueVars, pendingWrite, appVars, sendVars, hung, success,
                   written>>

\* a DISCONNECT command with a timeout is processed: in-flight messages are
\* waited for, no other command is started
StartDisconnect(c) ==
    /\ Unlocked
    /\ state[c] = "up"
    /\ state' = [state EXCEPT ![c] = "disconnecting"]
    /\ UNCHANGED <<queueVars, clientVars, sockPending, sockError, owed,
                   appVars, sendVars, hung, histVars>>

----------------------------------------------------------------------------
AppStep(t) == AssignMsgId(t) \/ CheckBuffer(t) \/ AddCommand(t)

SendStep ==
    \/ Dequeue
    \/ \E rc \in {"COMPLETE", "INTERRUPTED", "SOCKET_ERROR"} : WritePacket(rc)
    \/ FlagPendingWrite
    \/ FinishCommand

ReceiveStep(c) ==
    \/ \E ok \in BOOLEAN : WriteComplete(c, ok)
    \/ \E n \in DOMAIN owed[c], ok \in BOOLEAN : Acknowledge(c, n, ok)

ConnectionStep(c) ==
    \/ \E present \in BOOLEAN, n \in [Clients -> 0 .. MaxInflight],
          broken \in SUBSET Clients : ConnectionUp(c, present, n, broken)
    \/ \E only \in BOOLEAN : ConnectionDown(c, only)
    \/ StartDisconnect(c)

Next ==
    /\ ~hung
    /\ \/ \E t \in Threads, c \in Clients, k \in Kinds, o \in Ops : Call(t, c, k, o)
       \/ \E t \in Threads : AppStep(t)
       \/ SendStep
       \/ \E c \in Clients : ReceiveStep(c) \/ ConnectionStep(c)

Spec == Init /\ [][Next]_vars

\* The library's threads run, the server answers what it has received and a
\* socket that failed is closed; no more is assumed of the connection.
Fairness ==
    /\ \A t \in Threads : WF_vars(~hung /\ AppStep(t))
    /\ WF_vars(~hung /\ SendStep)
    /\ \A c \in Clients : WF_vars(~hung /\ ReceiveStep(c))
    /\ \A c \in Clients :
         WF_vars(~hung /\ c \in sockError /\ \E only \in BOOLEAN : ConnectionDown(c, only))

FairSpec == Spec /\ Fairness

----------------------------------------------------------------------------
(* Properties *)

\* An API call is answered by at most one callback, onSuccess or onFailure,
\* whichever of writeComplete, MQTTAsync_cycle, freeResponses and
\* processCommand come to handle it.
CallbackAtMostOnce == \A o \in Ops : calls[o] <= 1

Accepted(o) == stage[o] \notin {"new", "calling", "rejected"}
Held(o) ==
    \/ o \in OpsIn(commands)
    \/ sendPc # "idle" /\ sendCmd.op = o
    \/ \E c \in Clients : o \in OpsIn(responses[c])

\* A request the library has accepted is in the command list, in the hands of
\* the send thread or in its client's response list until it is reported; only
\* the deletion of the oldest buffered message ends it silently.
NothingForgotten ==
    \A o \in Ops : Accepted(o) => Held(o) \/ calls[o] > 0 \/ stage[o] = "dropped"

\* A request that has been reported is in no list any more, so that no later
\* acknowledgement or close can find it.
ReportedIsReleased == \A o \in Ops : calls[o] > 0 => ~Held(o)

Buffered(c) == {n \in DOMAIN commands :
                    commands[n].client = c /\ IsPublish(commands[n])}

\* noBufferedMessages, kept by addCommand and processCommand, is the number of
\* PUBLISH commands in the list and never exceeds maxBufferedMessages.
BufferCount ==
    \A c \in Clients : /\ noBuffered[c] = Cardinality(Buffered(c))
                       /\ noBuffered[c] <= MaxBuffered

\* requests that own a message id of client c
Owners(c) ==
    {commands[n] : n \in {k \in DOMAIN commands : commands[k].client = c}}
    \cup (IF sendPc # "idle" /\ sendCmd.client = c THEN {sendCmd} ELSE {})
    \cup {outbound[c][n] : n \in DOMAIN outbound[c]}
    \cup {responses[c][n] : n \in DOMAIN responses[c]}

\* No two requests of a client that are queued, in flight or waiting for a
\* response have the same message id (MQTTAsync_assignMsgId).
UniqueTokens ==
    \A c \in Clients : \A r, s \in Owners(c) :
        r.token # 0 /\ r.token = s.token => r.op = s.op

\* A QoS 1 or 2 publish that waits for its response still has its message in
\* outboundMsgs, so that a reconnect resends it and a response can come.
ResponseHasMessage ==
    \A c \in Clients : \A n \in DOMAIN responses[c] :
        responses[c][n].kind = "PUB1" =>
            \E m \in DOMAIN outbound[c] : outbound[c][m] = responses[c][n]

\* The in-flight window that processCommand checks before it unlocks
\* mqttcommand_mutex is not exceeded when the message is stored afterwards.
InflightBounded == \A c \in Clients : Len(outbound[c]) <= MaxInflight

\* onSuccess of a publish or subscribe means that its own packet has been
\* wholly written to a socket.
SuccessMeansWritten == success \subseteq written

\* Unless the application asked for the oldest message to be deleted, a message
\* is refused when the buffer is full and none that was accepted is deleted.
NoAcceptedMessageDeleted ==
    ~DeleteOldest => \A o \in Ops : stage[o] # "dropped"

\* With retryInterval 0 a message is not sent twice on one connection: the
\* server never owes two acknowledgements for it.
NoInSessionRetry ==
    \A c \in Clients : \A m, n \in DOMAIN owed[c] :
        owed[c][m].op = owed[c][n].op => m = n

\* While the connections stay up, every accepted request is reported.
StaysUpDrains ==
    <>[](\A c \in Clients : state[c] = "up") =>
        \A o \in Ops : [](Accepted(o) => <>(stage[o] \in {"done", "dropped", "lost"}))
=============================================================================
