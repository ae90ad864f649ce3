------------------------------ MODULE QoSCrash ------------------------------
(***************************************************************************)
(* QoSFlow with a process that may also stop inside two handlers, between  *)
(* their effects on the store and on the connection.                       *)
(***************************************************************************)
EXTENDS QoSFlow

\* in MQTTAsync_processCommand, after MQTTAsync_unpersistCommand and before
\* MQTTPacket_sends persists the PUBLISH
CrashInSend ==
    /\ connected
    /\ commands # <<>> /\ Len(outbound) < MaxInflight
    /\ commands' = Tail(commands)
    /\ outbound' = InOrder({Restored(q) : q \in store.sent})
    /\ inbound' = store.received
    /\ messageQueue' = store.queue
    /\ store' = [store EXCEPT !.commands = Tail(commands),
                              !.pubrel = @ \cap {q.id : q \in store.sent}]
    /\ Disconnected
    /\ UNCHANGED <<serverVars, outStatus, arrived>>

\* in MQTTProtocol_handlePubrels, after PUBCOMP has been sent, and taken by the
\* server, and before the message is handed over
CrashInPubrel ==
    /\ ~offer
    /\ toClient # <<>> /\ Head(toClient).type = "PUBREL"
    /\ LET i == Head(toClient).id
       IN  /\ ById(inbound, i) # {}
           /\ serverOut' = Without(serverOut, i)
           /\ inStatus' = [m \in InMsgs |->
                             IF \E q \in ById(inbound, i) : q.msg = m
                             THEN "complete" ELSE inStatus[m]]
    /\ commands' = store.commands
    /\ outbound' = InOrder({Restored(q) : q \in store.sent})
    /\ inbound' = store.received
    /\ messageQueue' = store.queue
    /\ store' = [store EXCEPT !.pubrel = @ \cap {q.id : q \in store.sent}]
    /\ Disconnected
    /\ UNCHANGED <<serverIn, atServer, outStatus, arrived>>

CrashNext == Next \/ CrashInSend \/ CrashInPubrel
CrashSpec == Init /\ [][CrashNext]_vars
=============================================================================
