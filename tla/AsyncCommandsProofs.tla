------------------------ MODULE AsyncCommandsProofs ------------------------
(***************************************************************************)
(* Proofs about AsyncCommands, for any numbers of clients, threads,        *)
(* requests, message ids and buffered messages: first what moves between   *)
(* the lists, then what the lists hold in total, how many messages are     *)
(* buffered, that no request is forgotten and which message ids are used.  *)
(***************************************************************************)
EXTENDS AsyncCommands, FiniteSetTheorems, TLAPS

----------------------------------------------------------------------------
(* Lists *)

\* ListDetach shortens a list by one item and moves the later ones up.
LEMMA DetachType ==
    ASSUME NEW S, NEW s \in Seq(S), NEW n \in DOMAIN s
    PROVE  /\ Detach(s, n) \in Seq(S)
           /\ Len(Detach(s, n)) = Len(s) - 1
           /\ DOMAIN Detach(s, n) = 1 .. Len(s) - 1
           /\ \A i \in 1 .. Len(s) - 1 :
                Detach(s, n)[i] = IF i < n THEN s[i] ELSE s[i + 1]
<1>1. /\ n \in 1 .. Len(s)
      /\ Len(s) \in Nat
      /\ Len(s) - 1 \in Nat
  OBVIOUS
<1>2. \A i \in 1 .. Len(s) - 1 : (IF i < n THEN s[i] ELSE s[i + 1]) \in S
  BY <1>1
<1>3. QED
  BY <1>1, <1>2 DEF Detach

\* no two items of a list are the same request
Distinct(s) == \A m, n \in DOMAIN s : s[m].op = s[n].op => m = n

\* What ListDetach leaves of a list of different requests are the other ones.
LEMMA DetachDistinct ==
    ASSUME NEW s \in Seq(Command), NEW n \in DOMAIN s, Distinct(s)
    PROVE  /\ Distinct(Detach(s, n))
           /\ \A i \in DOMAIN Detach(s, n) :
                \E k \in DOMAIN s : /\ k # n
                                    /\ Detach(s, n)[i] = s[k]
                                    /\ s[k].op # s[n].op
<1> DEFINE d == Detach(s, n)
           Old(i) == IF i < n THEN i ELSE i + 1
<1>0. /\ n \in 1 .. Len(s) /\ Len(s) \in Nat
      /\ DOMAIN s = 1 .. Len(s)
  OBVIOUS
<1>1. /\ DOMAIN d = 1 .. Len(s) - 1
      /\ \A i \in 1 .. Len(s) - 1 : d[i] = IF i < n THEN s[i] ELSE s[i + 1]
  BY DetachType
<1>2. \A i \in DOMAIN d : Old(i) \in DOMAIN s /\ Old(i) # n /\ d[i] = s[Old(i)]
  BY <1>0, <1>1
<1>3. \A i, j \in DOMAIN d : Old(i) = Old(j) => i = j
  BY <1>0, <1>1
<1> HIDE DEF d, Old
<1>4. Distinct(d)
  BY <1>2, <1>3 DEF Distinct
<1>5. \A i \in DOMAIN d : \E k \in DOMAIN s : k # n /\ d[i] = s[k] /\ s[k].op # s[n].op
  BY <1>2 DEF Distinct
<1>6. QED
  BY <1>4, <1>5 DEF d

\* Appending a request that is not in a list of different requests.
LEMMA AppendDistinct ==
    ASSUME NEW s \in Seq(Command), NEW x \in Command, Distinct(s),
           \A n \in DOMAIN s : s[n].op # x.op
    PROVE  /\ Append(s, x) \in Seq(Command)
           /\ Distinct(Append(s, x))
           /\ \A i \in DOMAIN Append(s, x) :
                \/ i \in DOMAIN s /\ Append(s, x)[i] = s[i]
                \/ i = Len(s) + 1 /\ Append(s, x)[i] = x
<1> DEFINE a == Append(s, x)
<1>1. /\ a \in Seq(Command) /\ Len(s) \in Nat
      /\ DOMAIN a = 1 .. Len(s) + 1 /\ DOMAIN s = 1 .. Len(s)
      /\ \A i \in DOMAIN a : \/ i \in DOMAIN s /\ a[i] = s[i]
                             \/ i = Len(s) + 1 /\ a[i] = x
  OBVIOUS
<1> HIDE DEF a
<1>2. ASSUME NEW m \in DOMAIN a, NEW n \in DOMAIN a, a[m].op = a[n].op
      PROVE  m = n
  BY <1>1, <1>2 DEF Distinct
<1>3. QED
  BY <1>1, <1>2 DEF Distinct, a

----------------------------------------------------------------------------
(* Types *)

\* a thread in the middle of a call, and the send thread in processCommand, hold
\* a command
TypeInv ==
    /\ TypeOK
    /\ \A t \in Threads : pc[t] # "idle" => cur[t] \in Command
    /\ sendPc # "idle" => sendCmd \in Command

\* The client starts with empty lists and idle threads.
LEMMA TypeInit == Init => TypeInv
<1> SUFFICES ASSUME Init PROVE TypeInv
  OBVIOUS
<1>1. /\ <<>> \in Seq(Command)
      /\ 0 \in 0 .. MaxMsgId
  BY LimitsAssumption
<1>2. /\ commands \in Seq(Command)
      /\ noBuffered \in [Clients -> Int]
      /\ msgID \in [Clients -> 0 .. MaxMsgId]
      /\ outbound \in [Clients -> Seq(Command)]
      /\ responses \in [Clients -> Seq(Command)]
      /\ owed \in [Clients -> Seq(Command)]
  BY <1>1 DEF Init
<1>3. /\ pendingWrite \in [Clients -> Ops \cup {NoOp}]
      /\ sockPending \in [Clients -> Command \cup {NoCommand}]
      /\ sockError \in SUBSET Clients
      /\ state \in [Clients -> {"down", "up", "closing", "disconnecting"}]
      /\ pc \in [Threads -> {"idle", "assign", "check", "add"}]
      /\ cur \in [Threads -> Command \cup {NoCommand}]
      /\ \A t \in Threads : pc[t] = "idle"
  BY DEF Init
<1>4. /\ sendPc = "idle"
      /\ sendCmd \in Command \cup {NoCommand}
      /\ sendRc \in {"COMPLETE", "INTERRUPTED", "SOCKET_ERROR"}
      /\ hung \in BOOLEAN
      /\ stage \in [Ops -> Stages]
      /\ calls \in [Ops -> Nat]
      /\ success \in SUBSET Ops
      /\ written \in SUBSET Ops
  BY DEF Init, Stages
<1>5. QED
  BY <1>2, <1>3, <1>4 DEF TypeInv, TypeOK

\* what commands are made of
LEMMA CommandFields ==
    \A x \in Command : /\ x.client \in Clients /\ x.kind \in Kinds
                       /\ x.token \in 0 .. MaxMsgId /\ x.op \in Ops
BY DEF Command

\* A callback counts once and settles its request.
LEMMA CallBackTypes ==
    ASSUME TypeInv, NEW o \in Ops, NEW ok \in BOOLEAN, CallBack(o, ok)
    PROVE  calls' \in [Ops -> Nat] /\ stage' \in [Ops -> Stages] /\ success' \in SUBSET Ops
BY DEF CallBack, TypeInv, TypeOK, Stages

\* MQTTAsync_cleanSession empties lists or leaves them alone.
LEMMA SessionTypes ==
    ASSUME TypeInv, NEW c \in Clients, CleanUp(c) \/ KeepSession
    PROVE  /\ outbound' \in [Clients -> Seq(Command)]
           /\ responses' \in [Clients -> Seq(Command)]
           /\ msgID' \in [Clients -> 0 .. MaxMsgId]
           /\ calls' \in [Ops -> Nat]
           /\ stage' \in [Ops -> Stages]
<1>1. CASE CleanUp(c)
  <2>1. <<>> \in Seq(Command) /\ 0 \in 0 .. MaxMsgId
    BY LimitsAssumption
  <2>2. /\ outbound' \in [Clients -> Seq(Command)]
        /\ responses' \in [Clients -> Seq(Command)]
        /\ msgID' \in [Clients -> 0 .. MaxMsgId]
    BY <1>1, <2>1 DEF CleanUp, TypeInv, TypeOK
  <2>3. calls' \in [Ops -> Nat] /\ stage' \in [Ops -> Stages]
    BY <1>1 DEF CleanUp, TypeInv, TypeOK, Stages
  <2>4. QED
    BY <2>2, <2>3
<1>2. CASE KeepSession
  BY <1>2 DEF KeepSession, TypeInv, TypeOK
<1>3. QED
  BY <1>1, <1>2

\* MQTTProtocol_retry puts on the wire what is in outboundMsgs.
LEMMA ResendTypes ==
    ASSUME TypeInv, outbound' \in [Clients -> Seq(Command)],
           NEW clients \in SUBSET Clients, NEW n \in [Clients -> 0 .. MaxInflight],
           NEW broken \in SUBSET Clients, Resend(clients, n, broken)
    PROVE  /\ owed' \in [Clients -> Seq(Command)]
           /\ sockPending' \in [Clients -> Command \cup {NoCommand}]
           /\ written' \in SUBSET Ops
<1> DEFINE sent(d) == SubSeq(outbound'[d], 1, n[d])
<1>1. \A d \in clients : n[d] \in Nat /\ n[d] <= Len(outbound'[d])
  BY LimitsAssumption DEF Resend
<1>2. \A d \in clients : sent(d) \in Seq(Command)
  BY <1>1
<1>3. \A d \in clients : OpsIn(sent(d)) \subseteq Ops
  BY <1>2 DEF OpsIn, Command
<1> HIDE DEF sent
<1>4. owed' \in [Clients -> Seq(Command)]
  <2>1. owed' = [d \in Clients |-> IF d \in clients THEN owed[d] \o sent(d) ELSE owed[d]]
    BY DEF Resend, sent
  <2>2. \A d \in clients : owed[d] \o sent(d) \in Seq(Command)
    BY <1>2 DEF TypeInv, TypeOK
  <2>3. QED
    BY <2>1, <2>2 DEF TypeInv, TypeOK
<1>5. sockPending' \in [Clients -> Command \cup {NoCommand}]
  <2>1. \A d \in clients \ broken :
          n[d] < Len(outbound'[d]) => outbound'[d][n[d] + 1] \in Command
    BY <1>1
  <2>2. QED
    BY <2>1 DEF Resend, TypeInv, TypeOK
<1>6. written' \in SUBSET Ops
  <2>1. written' = written \cup UNION {OpsIn(sent(d)) : d \in clients}
    BY DEF Resend, sent
  <2>2. QED
    BY <1>3, <2>1 DEF TypeInv, TypeOK
<1>7. QED
  BY <1>4, <1>5, <1>6

\* All variables keep their types through every step.
LEMMA TypeStep == TypeInv /\ [Next]_vars => TypeInv'
<1> SUFFICES ASSUME TypeInv, [Next]_vars PROVE TypeInv'
  OBVIOUS
<1> USE LimitsAssumption, NullAssumption, CommandFields
<1>1. ASSUME NEW t \in Threads, NEW c \in Clients, NEW k \in Kinds, NEW o \in Ops,
             Call(t, c, k, o)
      PROVE  TypeInv'
  <2>1. [client |-> c, kind |-> k, token |-> 0, op |-> o] \in Command
    BY DEF Command
  <2>2. QED
    BY <1>1, <2>1 DEF Call, TypeInv, TypeOK, Stages, queueVars, clientVars, netVars, sendVars
<1>2. ASSUME NEW t \in Threads, AssignMsgId(t) PROVE TypeInv'
  <2>1. cur[t] \in Command
    BY <1>2 DEF TypeInv, AssignMsgId
  <2>2. \A i \in FreeIds(cur[t].client) : [cur[t] EXCEPT !.token = i] \in Command
    BY <2>1 DEF FreeIds, Command
  <2>3. \A i \in FreeIds(cur[t].client) : i \in 0 .. MaxMsgId
    BY DEF FreeIds
  <2>4. UNCHANGED <<queueVars, outbound, responses, pendingWrite, netVars, sendVars,
                    calls, success, written>>
    BY <1>2 DEF AssignMsgId
  <2>5. ASSUME NEW i \in FreeIds(cur[t].client),
               msgID' = [msgID EXCEPT ![cur[t].client] = i],
               cur' = [cur EXCEPT ![t].token = i],
               pc' = [pc EXCEPT ![t] = IF IsPublish(cur[t]) THEN "check" ELSE "add"],
               UNCHANGED <<stage, hung>>
        PROVE  TypeInv'
    <3>1. /\ cur'[t] \in Command
          /\ \A u \in Threads : u # t => cur'[u] = cur[u] /\ pc'[u] = pc[u]
      BY <2>2, <2>5 DEF TypeInv, TypeOK
    <3>2. /\ msgID' \in [Clients -> 0 .. MaxMsgId]
          /\ cur' \in [Threads -> Command \cup {NoCommand}]
          /\ pc' \in [Threads -> {"idle", "assign", "check", "add"}]
      BY <2>1, <2>2, <2>3, <2>5 DEF TypeInv, TypeOK
    <3>3. QED
      BY <2>4, <2>5, <3>1, <3>2 DEF TypeInv, TypeOK, queueVars, netVars, sendVars
  <2>6. CASE Refuse(t) /\ UNCHANGED <<msgID, hung>>
    BY <2>1, <2>4, <2>6 DEF Refuse, TypeInv, TypeOK, Stages, queueVars, netVars, sendVars
  <2>7. CASE hung' = TRUE /\ UNCHANGED <<msgID, appVars, stage>>
    BY <2>4, <2>7 DEF TypeInv, TypeOK, queueVars, netVars, sendVars, appVars
  <2>8. QED
    BY <1>2, <2>5, <2>6, <2>7 DEF AssignMsgId
<1>3. ASSUME NEW t \in Threads, CheckBuffer(t) PROVE TypeInv'
  <2>1. cur[t] \in Command
    BY <1>3 DEF TypeInv, CheckBuffer
  <2>2. UNCHANGED <<queueVars, clientVars, netVars, sendVars, hung, calls, success, written>>
    BY <1>3 DEF CheckBuffer
  <2>3. CASE Refuse(t)
    BY <2>1, <2>2, <2>3
    DEF Refuse, TypeInv, TypeOK, Stages, queueVars, clientVars, netVars, sendVars
  <2>4. CASE pc' = [pc EXCEPT ![t] = "add"] /\ UNCHANGED <<cur, stage>>
    BY <2>1, <2>2, <2>4
    DEF TypeInv, TypeOK, queueVars, clientVars, netVars, sendVars
  <2>5. QED
    BY <1>3, <2>3, <2>4 DEF CheckBuffer
<1>4. ASSUME NEW t \in Threads, AddCommand(t) PROVE TypeInv'
  <2> DEFINE all == Append(commands, cur[t])
  <2>1. cur[t] \in Command
    BY <1>4 DEF TypeInv, AddCommand
  <2>2. all \in Seq(Command)
    BY <2>1 DEF TypeInv, TypeOK
  <2> HIDE DEF all
  <2>3. \A n \in DOMAIN all : Detach(all, n) \in Seq(Command) /\ all[n].op \in Ops
    <3>1. \A n \in DOMAIN all : all[n] \in Command
      BY <2>2
    <3>2. QED
      BY <2>2, <3>1, DetachType
  <2>4. /\ commands' \in Seq(Command) /\ stage' \in [Ops -> Stages]
        /\ noBuffered' \in [Clients -> Int]
    <3>0. /\ stage \in [Ops -> Stages] /\ noBuffered \in [Clients -> Int]
          /\ {"queued", "dropped"} \subseteq Stages
          /\ cur[t].op \in Ops /\ cur[t].client \in Clients
      BY <2>1 DEF TypeInv, TypeOK, Stages
    <3>1. CASE /\ commands' = all
               /\ stage' = [stage EXCEPT ![cur[t].op] = "queued"]
               /\ \/ noBuffered' = noBuffered
                  \/ noBuffered' = [noBuffered EXCEPT ![cur[t].client] = @ + 1]
      BY <2>2, <3>0, <3>1
    <3>2. ASSUME NEW n \in DOMAIN all,
                 commands' = Detach(all, n),
                 stage' = [stage EXCEPT ![cur[t].op] = "queued",
                                        ![all[n].op] = "dropped"],
                 noBuffered' = noBuffered
          PROVE  /\ commands' \in Seq(Command) /\ stage' \in [Ops -> Stages]
                 /\ noBuffered' \in [Clients -> Int]
      BY <2>3, <3>0, <3>2
    <3>3. QED
      BY <1>4, <3>1, <3>2 DEF AddCommand, IsFirst, all
  <2>5. QED
    BY <1>4, <2>1, <2>4
    DEF AddCommand, TypeInv, TypeOK, clientVars, netVars, sendVars
<1>5. ASSUME Dequeue PROVE TypeInv'
  <2>1. PICK n \in DOMAIN commands :
          /\ sendCmd' = commands[n]
          /\ noBuffered' = Unbuffer(commands[n])
          /\ commands' = Detach(commands, n)
          /\ stage' = [stage EXCEPT ![commands[n].op] = "sending"]
    BY <1>5 DEF Dequeue, Candidates, IsFirst
  <2>2. commands[n] \in Command /\ Detach(commands, n) \in Seq(Command)
    BY DetachType DEF TypeInv, TypeOK
  <2>3. /\ stage \in [Ops -> Stages] /\ noBuffered \in [Clients -> Int]
        /\ "sending" \in Stages
        /\ commands[n].op \in Ops /\ commands[n].client \in Clients
    BY <2>2 DEF TypeInv, TypeOK, Stages
  <2>4. noBuffered' \in [Clients -> Int]
    BY <2>1, <2>3 DEF Unbuffer
  <2>5. stage' \in [Ops -> Stages]
    BY <2>1, <2>3
  <2>6. QED
    BY <1>5, <2>1, <2>2, <2>4, <2>5
    DEF Dequeue, TypeInv, TypeOK, clientVars, netVars, appVars
<1>6. ASSUME NEW rc \in {"COMPLETE", "INTERRUPTED", "SOCKET_ERROR"}, WritePacket(rc)
      PROVE  TypeInv'
  <2>1. sendCmd \in Command
    BY <1>6 DEF TypeInv, WritePacket
  <2>2. sendCmd.client \in Clients /\ sendCmd.op \in Ops
    BY <2>1
  <2>3. /\ outbound' \in [Clients -> Seq(Command)]
        /\ owed' \in [Clients -> Seq(Command)]
    <3>1. /\ outbound \in [Clients -> Seq(Command)]
          /\ owed \in [Clients -> Seq(Command)]
      BY DEF TypeInv, TypeOK
    <3>2. /\ Append(outbound[sendCmd.client], sendCmd) \in Seq(Command)
          /\ Append(owed[sendCmd.client], sendCmd) \in Seq(Command)
      BY <2>1, <2>2, <3>1
    <3>3. /\ \/ outbound' = outbound
             \/ outbound' = [outbound EXCEPT ![sendCmd.client] = Append(@, sendCmd)]
          /\ \/ owed' = owed
             \/ owed' = [owed EXCEPT ![sendCmd.client] = Append(@, sendCmd)]
      BY <1>6 DEF WritePacket
    <3>4. outbound' \in [Clients -> Seq(Command)]
      BY <3>1, <3>2, <3>3
    <3>5. owed' \in [Clients -> Seq(Command)]
      BY <3>1, <3>2, <3>3
    <3>6. QED
      BY <3>4, <3>5
  <2>4. /\ sockPending' \in [Clients -> Command \cup {NoCommand}]
        /\ written' \in SUBSET Ops
    BY <1>6, <2>1, <2>2 DEF WritePacket, TypeInv, TypeOK
  <2>5. QED
    BY <1>6, <2>1, <2>3, <2>4 DEF WritePacket, TypeInv, TypeOK, queueVars, appVars
<1>7. CASE FlagPendingWrite
  <2>1. sendCmd \in Command
    BY <1>7 DEF TypeInv, FlagPendingWrite
  <2>2. QED
    BY <1>7, <2>1 DEF FlagPendingWrite, TypeInv, TypeOK, queueVars, netVars, appVars, histVars
<1>8. CASE FinishCommand
  <2>1. sendCmd \in Command
    BY <1>8 DEF TypeInv, FinishCommand
  <2>2. /\ responses' \in [Clients -> Seq(Command)]
        /\ state' \in [Clients -> {"down", "up", "closing", "disconnecting"}]
    <3>1. /\ \/ state' = state
             \/ state' = [state EXCEPT ![sendCmd.client] = "closing"]
          /\ \/ responses' = responses
             \/ responses' = [responses EXCEPT ![sendCmd.client] = Append(@, sendCmd)]
      BY <1>8 DEF FinishCommand
    <3>2. state' \in [Clients -> {"down", "up", "closing", "disconnecting"}]
      BY <2>1, <3>1 DEF TypeInv, TypeOK
    <3>3. /\ responses \in [Clients -> Seq(Command)]
          /\ Append(responses[sendCmd.client], sendCmd) \in Seq(Command)
      BY <2>1 DEF TypeInv, TypeOK
    <3>4. responses' \in [Clients -> Seq(Command)]
      <4>1. CASE responses' = responses
        BY <3>3, <4>1
      <4>2. CASE responses' = [responses EXCEPT ![sendCmd.client] = Append(@, sendCmd)]
        BY <3>3, <4>2
      <4>3. QED
        BY <3>1, <4>1, <4>2
    <3>5. QED
      BY <3>2, <3>4
  <2>3. calls' \in [Ops -> Nat] /\ stage' \in [Ops -> Stages] /\ success' \in SUBSET Ops
    <3>1. ASSUME NEW ok \in BOOLEAN, CallBack(sendCmd.op, ok)
          PROVE  calls' \in [Ops -> Nat] /\ stage' \in [Ops -> Stages] /\ success' \in SUBSET Ops
      BY <2>1, <3>1, CallBackTypes
    <3>2. CASE /\ UNCHANGED <<calls, success>>
               /\ stage' = [stage EXCEPT ![sendCmd.op] = "waiting"]
      BY <2>1, <3>2 DEF TypeInv, TypeOK, Stages
    <3>3. QED
      BY <1>8, <3>1, <3>2 DEF FinishCommand
  <2>4. QED
    BY <1>8, <2>2, <2>3 DEF FinishCommand, TypeInv, TypeOK, queueVars, appVars
<1>9. ASSUME NEW c \in Clients, NEW ok \in BOOLEAN, WriteComplete(c, ok) PROVE TypeInv'
  <2>1. sockPending[c] \in Command
    BY <1>9 DEF TypeInv, TypeOK, WriteComplete
  <2>2. \A n \in DOMAIN responses[c] :
          /\ [responses EXCEPT ![c] = Detach(@, n)] \in [Clients -> Seq(Command)]
          /\ responses[c][n].op \in Ops
    <3>1. responses[c] \in Seq(Command)
      BY DEF TypeInv, TypeOK
    <3>2. \A n \in DOMAIN responses[c] :
            Detach(responses[c], n) \in Seq(Command) /\ responses[c][n] \in Command
      BY <3>1, DetachType
    <3>3. QED
      BY <3>2 DEF TypeInv, TypeOK
  <2>3. /\ responses' \in [Clients -> Seq(Command)]
        /\ calls' \in [Ops -> Nat] /\ stage' \in [Ops -> Stages] /\ success' \in SUBSET Ops
    <3> DEFINE p == pendingWrite[c]
               R == DOMAIN responses[c]
    <3>1. ASSUME NEW n \in R, responses' = [responses EXCEPT ![c] = Detach(@, n)],
                 p = responses[c][n].op, CallBack(p, ok)
          PROVE  /\ responses' \in [Clients -> Seq(Command)]
                 /\ calls' \in [Ops -> Nat] /\ stage' \in [Ops -> Stages]
                 /\ success' \in SUBSET Ops
      BY <2>2, <3>1, CallBackTypes
    <3>2. ASSUME NEW n \in R, responses' = [responses EXCEPT ![c] = Detach(@, n)],
                 stage' = [stage EXCEPT ![responses[c][n].op] = "lost"],
                 UNCHANGED <<calls, success>>
          PROVE  /\ responses' \in [Clients -> Seq(Command)]
                 /\ calls' \in [Ops -> Nat] /\ stage' \in [Ops -> Stages]
                 /\ success' \in SUBSET Ops
      BY <2>2, <3>2 DEF TypeInv, TypeOK, Stages
    <3>3. CASE UNCHANGED <<responses, stage, calls, success>>
      BY <3>3 DEF TypeInv, TypeOK
    <3>4. QED
      BY <1>9, <3>1, <3>2, <3>3 DEF WriteComplete
  <2>4. /\ sockPending' \in [Clients -> Command \cup {NoCommand}]
        /\ owed' \in [Clients -> Seq(Command)]
        /\ written' \in SUBSET Ops /\ sockError' \in SUBSET Clients
        /\ pendingWrite' \in [Clients -> Ops \cup {NoOp}]
    BY <1>9, <2>1 DEF WriteComplete, TypeInv, TypeOK
  <2>5. UNCHANGED <<queueVars, msgID, outbound, state, appVars, sendVars, hung>>
    BY <1>9 DEF WriteComplete
  <2>6. QED
    BY <2>3, <2>4, <2>5 DEF TypeInv, TypeOK, queueVars, appVars, sendVars
<1>10. ASSUME NEW c \in Clients, NEW n \in DOMAIN owed[c], NEW ok \in BOOLEAN,
              Acknowledge(c, n, ok)
       PROVE  TypeInv'
  <2>1. \A s \in Seq(Command) : \A m \in DOMAIN s : Detach(s, m) \in Seq(Command)
    BY DetachType
  <2>2. owed' \in [Clients -> Seq(Command)]
    BY <1>10, <2>1 DEF Acknowledge, TypeInv, TypeOK
  <2>3. outbound' \in [Clients -> Seq(Command)]
    <3>1. \/ UNCHANGED outbound
          \/ \E m \in DOMAIN outbound[c] :
               outbound' = [outbound EXCEPT ![c] = Detach(@, m)]
      BY <1>10 DEF Acknowledge, WithToken, IsFirst
    <3>2. outbound \in [Clients -> Seq(Command)]
      BY DEF TypeInv, TypeOK
    <3>3. \A m \in DOMAIN outbound[c] : Detach(outbound[c], m) \in Seq(Command)
      BY <2>1, <3>2
    <3>4. QED
      BY <3>1, <3>2, <3>3
  <2>4. /\ responses' \in [Clients -> Seq(Command)]
        /\ calls' \in [Ops -> Nat] /\ stage' \in [Ops -> Stages] /\ success' \in SUBSET Ops
    <3>1. CASE UNCHANGED <<responses, stage, calls, success>>
      BY <3>1 DEF TypeInv, TypeOK
    <3>2. ASSUME NEW r \in DOMAIN responses[c],
                 responses' = [responses EXCEPT ![c] = Detach(@, r)],
                 CallBack(responses[c][r].op, ok)
          PROVE  /\ responses' \in [Clients -> Seq(Command)]
                 /\ calls' \in [Ops -> Nat] /\ stage' \in [Ops -> Stages]
                 /\ success' \in SUBSET Ops
      <4>1. responses[c] \in Seq(Command) /\ responses[c][r].op \in Ops
        BY DEF TypeInv, TypeOK
      <4>2. responses \in [Clients -> Seq(Command)] /\ Detach(responses[c], r) \in Seq(Command)
        BY <2>1, <4>1 DEF TypeInv, TypeOK
      <4>3. responses' \in [Clients -> Seq(Command)]
        BY <3>2, <4>2
      <4>4. QED
        BY <3>2, <4>1, <4>3, CallBackTypes
    <3>3. QED
      BY <1>10, <3>1, <3>2 DEF Acknowledge, WithToken, IsFirst
  <2>5. QED
    BY <1>10, <2>2, <2>3, <2>4
    DEF Acknowledge, TypeInv, TypeOK, queueVars, appVars, sendVars
<1>11. ASSUME NEW c \in Clients, NEW present \in BOOLEAN,
              NEW n \in [Clients -> 0 .. MaxInflight], NEW broken \in SUBSET Clients,
              ConnectionUp(c, present, n, broken)
       PROVE  TypeInv'
  <2>1. /\ outbound' \in [Clients -> Seq(Command)]
        /\ responses' \in [Clients -> Seq(Command)]
        /\ msgID' \in [Clients -> 0 .. MaxMsgId]
        /\ calls' \in [Ops -> Nat] /\ stage' \in [Ops -> Stages]
    BY <1>11, SessionTypes DEF ConnectionUp
  <2>2. state' \in [Clients -> {"down", "up", "closing", "disconnecting"}]
    BY ZenonT(60), <1>11 DEF ConnectionUp, TypeInv, TypeOK
  <2>3. /\ owed' \in [Clients -> Seq(Command)]
        /\ sockPending' \in [Clients -> Command \cup {NoCommand}]
        /\ written' \in SUBSET Ops
    <3>1. CASE UNCHANGED <<owed, sockPending, written>>
      BY <3>1 DEF TypeInv, TypeOK
    <3>2. CASE Resend({d \in Clients : /\ d = c \/ state[d] # "down"
                                       /\ sockPending[d] = NoCommand}, n, broken)
      BY <2>1, <3>2, ResendTypes
    <3>3. QED
      BY <1>11, <3>1, <3>2 DEF ConnectionUp
  <2>4. QED
    BY <1>11, <2>1, <2>2, <2>3
    DEF ConnectionUp, TypeInv, TypeOK, queueVars, appVars, sendVars
<1>12. ASSUME NEW c \in Clients, NEW only \in BOOLEAN, ConnectionDown(c, only)
       PROVE  TypeInv'
  <2>1. /\ outbound' \in [Clients -> Seq(Command)]
        /\ responses' \in [Clients -> Seq(Command)]
        /\ msgID' \in [Clients -> 0 .. MaxMsgId]
        /\ calls' \in [Ops -> Nat] /\ stage' \in [Ops -> Stages]
    BY <1>12, SessionTypes DEF ConnectionDown
  <2>2. /\ state' \in [Clients -> {"down", "up", "closing", "disconnecting"}]
        /\ sockPending' \in [Clients -> Command \cup {NoCommand}]
        /\ sockError' \in SUBSET Clients
        /\ owed' \in [Clients -> Seq(Command)]
    BY <1>12 DEF ConnectionDown, TypeInv, TypeOK
  <2>3. UNCHANGED <<queueVars, pendingWrite, appVars, sendVars, hung, success, written>>
    BY <1>12 DEF ConnectionDown
  <2>4. QED
    BY <2>1, <2>2, <2>3 DEF TypeInv, TypeOK, queueVars, appVars, sendVars
<1>13. ASSUME NEW c \in Clients, StartDisconnect(c) PROVE TypeInv'
  BY <1>13
  DEF StartDisconnect, TypeInv, TypeOK, queueVars, clientVars, appVars, sendVars, histVars
<1>14. CASE UNCHANGED vars
  BY <1>14
  DEF vars, TypeInv, TypeOK, queueVars, clientVars, netVars, appVars, sendVars, histVars
<1>15. QED
  BY <1>1, <1>2, <1>3, <1>4, <1>5, <1>6, <1>7, <1>8, <1>9, <1>10, <1>11, <1>12,
     <1>13, <1>14
  DEF Next, AppStep, SendStep, ReceiveStep, ConnectionStep

\* Every variable always has its type: in particular msgID stays a legal message
\* id or 0, and processCommand never works on a NULL command.
THEOREM TypeCorrect == Spec => []TypeOK
<1>1. Init => TypeInv
  BY TypeInit
<1>2. TypeInv /\ [Next]_vars => TypeInv'
  BY TypeStep
<1>3. TypeInv => TypeOK
  BY DEF TypeInv
<1>4. QED
  BY <1>1, <1>2, <1>3, PTL DEF Spec

----------------------------------------------------------------------------
(* The in-flight window *)

\* the room that the scan of processCommand saw is still there when
\* MQTTProtocol_startPublish appends to outboundMsgs
WindowInv ==
    /\ TypeInv
    /\ InflightBounded
    /\ sendPc = "write" /\ sendCmd.kind = "PUB1" =>
         Len(outbound[sendCmd.client]) < MaxInflight

\* outboundMsgs grows only in WritePacket, which runs after Dequeue and before
\* the send thread gives up mqttasync_mutex.
LEMMA WindowStep == WindowInv /\ [Next]_vars => WindowInv'
<1> SUFFICES ASSUME WindowInv, [Next]_vars PROVE WindowInv'
  OBVIOUS
<1>0. TypeInv /\ TypeInv'
  BY TypeStep DEF WindowInv
<1> USE LimitsAssumption, CommandFields
<1>1. ASSUME UNCHANGED <<outbound, sendCmd>>,
             sendPc' = "write" => sendPc = "write"
      PROVE  WindowInv'
  BY <1>0, <1>1 DEF WindowInv, InflightBounded
<1>2. ASSUME NEW t \in Threads, NEW c \in Clients, NEW k \in Kinds, NEW o \in Ops,
             Call(t, c, k, o)
      PROVE  WindowInv'
  BY <1>1, <1>2 DEF Call, clientVars, sendVars
<1>3. ASSUME NEW t \in Threads, AppStep(t) PROVE WindowInv'
  BY <1>1, <1>3 DEF AppStep, AssignMsgId, CheckBuffer, AddCommand, clientVars, sendVars
<1>4. CASE Dequeue
  <2>1. PICK n \in DOMAIN commands : sendCmd' = commands[n] /\ Runnable(commands[n])
    BY <1>4 DEF Dequeue, Candidates, IsFirst
  <2>2. UNCHANGED outbound
    BY <1>4 DEF Dequeue, clientVars
  <2>3. QED
    BY <1>0, <2>1, <2>2 DEF Runnable, WindowInv, InflightBounded
<1>5. ASSUME NEW rc \in {"COMPLETE", "INTERRUPTED", "SOCKET_ERROR"}, WritePacket(rc)
      PROVE  WindowInv'
  <2>1. sendCmd \in Command /\ sendPc = "write" /\ sendPc' # "write"
    BY <1>0, <1>5 DEF WritePacket, TypeInv
  <2>2. CASE sendCmd.kind # "PUB1"
    BY <1>1, <1>5, <2>1, <2>2 DEF WritePacket
  <2>3. CASE sendCmd.kind = "PUB1"
    <3>1. outbound' = [outbound EXCEPT ![sendCmd.client] = Append(@, sendCmd)]
      BY <1>5, <2>3 DEF WritePacket
    <3>2. /\ outbound[sendCmd.client] \in Seq(Command)
          /\ Len(outbound[sendCmd.client]) < MaxInflight
          /\ outbound'[sendCmd.client] = Append(outbound[sendCmd.client], sendCmd)
          /\ \A d \in Clients : d # sendCmd.client => outbound'[d] = outbound[d]
      BY <1>0, <2>1, <2>3, <3>1 DEF WindowInv, TypeInv, TypeOK
    <3>3. Len(outbound'[sendCmd.client]) <= MaxInflight
      BY <2>1, <3>2
    <3>4. InflightBounded'
      BY <3>2, <3>3 DEF WindowInv, InflightBounded
    <3>5. QED
      BY <1>0, <2>1, <3>4 DEF WindowInv
  <2>4. QED
    BY <2>2, <2>3
<1>6. CASE FlagPendingWrite
  BY <1>1, <1>6 DEF FlagPendingWrite
<1>7. CASE FinishCommand
  BY <1>0, <1>7 DEF FinishCommand, WindowInv, InflightBounded
<1>8. ASSUME NEW c \in Clients, NEW ok \in BOOLEAN, WriteComplete(c, ok)
      PROVE  WindowInv'
  BY <1>1, <1>8 DEF WriteComplete, sendVars
\* the other steps need mqttasync_mutex, so the send thread is not in between
<1>9. ASSUME sendPc' = "idle",
             \A d \in Clients : Len(outbound'[d]) <= Len(outbound[d])
      PROVE  WindowInv'
  <2>1. \A d \in Clients : Len(outbound'[d]) \in Nat /\ Len(outbound[d]) \in Nat
    BY <1>0 DEF TypeInv, TypeOK
  <2>2. QED
    BY <1>0, <1>9, <2>1 DEF WindowInv, InflightBounded
<1>10. ASSUME NEW c \in Clients, NEW n \in DOMAIN owed[c], NEW ok \in BOOLEAN,
              Acknowledge(c, n, ok)
       PROVE  WindowInv'
  <2>1. sendPc' = "idle"
    BY <1>10 DEF Acknowledge, Unlocked, sendVars
  <2>2. CASE UNCHANGED outbound
    BY <1>9, <2>1, <2>2, <1>0 DEF TypeInv, TypeOK
  <2>3. ASSUME NEW m \in DOMAIN outbound[c],
               outbound' = [outbound EXCEPT ![c] = Detach(@, m)]
        PROVE  WindowInv'
    <3>1. outbound \in [Clients -> Seq(Command)] /\ outbound[c] \in Seq(Command)
      BY <1>0 DEF TypeInv, TypeOK
    <3>2. Len(Detach(outbound[c], m)) = Len(outbound[c]) - 1
      BY <3>1, DetachType
    <3>3. \A d \in Clients : Len(outbound'[d]) <= Len(outbound[d])
      BY <2>3, <3>1, <3>2
    <3>4. QED
      BY <1>9, <2>1, <3>3
  <2>4. QED
    BY <1>10, <2>2, <2>3 DEF Acknowledge, WithToken, IsFirst
<1>11. ASSUME NEW c \in Clients, CleanUp(c) \/ KeepSession, sendPc' = "idle"
       PROVE  WindowInv'
  <2>1. outbound \in [Clients -> Seq(Command)]
    BY <1>0 DEF TypeInv, TypeOK
  <2>2. \A d \in Clients : outbound'[d] = <<>> \/ outbound'[d] = outbound[d]
    BY <1>11, <2>1 DEF CleanUp, KeepSession
  <2>3. \A d \in Clients : Len(outbound'[d]) <= Len(outbound[d])
    BY <2>1, <2>2
  <2>4. QED
    BY <1>9, <1>11, <2>3
<1>12. ASSUME NEW c \in Clients, ConnectionStep(c) PROVE WindowInv'
  <2>1. CASE StartDisconnect(c)
    BY <1>1, <2>1 DEF StartDisconnect, clientVars, sendVars
  <2>2. CASE ~StartDisconnect(c)
    <3>1. (CleanUp(c) \/ KeepSession) /\ sendPc' = "idle"
      BY <1>12, <2>2
      DEF ConnectionStep, ConnectionUp, ConnectionDown, Unlocked, sendVars
    <3>2. QED
      BY <1>11, <3>1
  <2>3. QED
    BY <2>1, <2>2
<1>13. CASE UNCHANGED vars
  BY <1>1, <1>13 DEF vars, clientVars, sendVars
<1>14. QED
  BY <1>2, <1>3, <1>4, <1>5, <1>6, <1>7, <1>8, <1>10, <1>12, <1>13
  DEF Next, SendStep, ReceiveStep

\* c->outboundMsgs never holds more than maxInflightMessages messages, although
\* processCommand checks its length in one critical section of
\* mqttcommand_mutex and appends after it.
THEOREM WindowKept == Spec => []InflightBounded
<1>1. Init => WindowInv
  <2> SUFFICES ASSUME Init PROVE WindowInv
    OBVIOUS
  <2>2. TypeInv
    BY TypeInit
  <2>3. InflightBounded
    BY LimitsAssumption DEF Init, InflightBounded
  <2>4. sendPc # "write"
    BY DEF Init
  <2>5. QED
    BY <2>2, <2>3, <2>4 DEF WindowInv
<1>2. WindowInv => InflightBounded
  BY DEF WindowInv
<1>3. QED
  BY <1>1, <1>2, WindowStep, PTL DEF Spec

----------------------------------------------------------------------------
(* Every request has one owner: the thread that builds it, the command     *)
(* list, the send thread, or one response list.  So a request is reported  *)
(* at most once and nothing holds it afterwards.                           *)

\* the command list holds different requests, all of them queued
QueueOwn ==
    /\ Distinct(commands)
    /\ \A n \in DOMAIN commands : stage[commands[n].op] = "queued"

\* application threads build different requests
CallOwn ==
    \A t \in Threads : pc[t] # "idle" =>
        /\ stage[cur[t].op] = "calling"
        /\ \A u \in Threads : pc[u] # "idle" /\ cur[u].op = cur[t].op => u = t

\* the send thread's command is in no list
SendOwn == sendPc # "idle" => stage[sendCmd.op] = "sending"

\* response lists hold different requests, within a list and between clients
WaitOwn ==
    \A c \in Clients : \A n \in DOMAIN responses[c] :
        /\ stage[responses[c][n].op] = "waiting"
        /\ \A d \in Clients : \A m \in DOMAIN responses[d] :
             responses[d][m].op = responses[c][n].op => d = c /\ m = n

\* a request has been reported when and only when it is done
CountOwn == \A o \in Ops : calls[o] = IF stage[o] = "done" THEN 1 ELSE 0

OwnInv == TypeInv /\ QueueOwn /\ CallOwn /\ SendOwn /\ WaitOwn /\ CountOwn

\* Nobody holds a request before the first call.
LEMMA OwnInit == Init => OwnInv
<1> SUFFICES ASSUME Init PROVE OwnInv
  OBVIOUS
<1>1. TypeInv
  BY TypeInit
<1>2. QueueOwn
  BY DEF Init, QueueOwn, Distinct
<1>3. CallOwn /\ SendOwn
  BY DEF Init, CallOwn, SendOwn
<1>4. WaitOwn
  BY DEF Init, WaitOwn
<1>5. CountOwn
  BY DEF Init, CountOwn
<1>6. QED
  BY <1>1, <1>2, <1>3, <1>4, <1>5 DEF OwnInv

\* A response taken off its list leaves the others where they were.
LEMMA TakeResponse ==
    ASSUME TypeInv, WaitOwn, NEW c \in Clients, NEW r \in DOMAIN responses[c],
           responses' = [responses EXCEPT ![c] = Detach(@, r)],
           \A o \in Ops : o # responses[c][r].op => stage'[o] = stage[o]
    PROVE  WaitOwn'
<1> DEFINE x == responses[c][r].op
           s == responses[c]
           Old(d, i) == IF d = c /\ i >= r THEN i + 1 ELSE i
<1>0. /\ responses \in [Clients -> Seq(Command)]
      /\ s \in Seq(Command) /\ r \in 1 .. Len(s) /\ Len(s) \in Nat
  BY DEF TypeInv, TypeOK
<1>1. /\ DOMAIN Detach(s, r) = 1 .. Len(s) - 1
      /\ \A i \in 1 .. Len(s) - 1 :
           Detach(s, r)[i] = IF i < r THEN s[i] ELSE s[i + 1]
  BY <1>0, DetachType
<1>2. /\ responses'[c] = Detach(s, r)
      /\ \A d \in Clients : d # c => responses'[d] = responses[d]
  BY <1>0
<1>3. ASSUME NEW d \in Clients, NEW i \in DOMAIN responses'[d]
      PROVE  /\ Old(d, i) \in DOMAIN responses[d]
             /\ responses'[d][i] = responses[d][Old(d, i)]
             /\ ~(d = c /\ Old(d, i) = r)
             /\ d = c => i \in Int
  <2>1. CASE d = c
    BY <1>0, <1>1, <1>2, <2>1
  <2>2. CASE d # c
    BY <1>2, <2>2
  <2>3. QED
    BY <2>1, <2>2
<1>4. ASSUME NEW d \in Clients, NEW i \in DOMAIN responses'[d],
             NEW j \in DOMAIN responses'[d], Old(d, i) = Old(d, j)
      PROVE  i = j
  BY <1>0, <1>3, <1>4
<1> HIDE DEF Old, x, s
<1>5. ASSUME NEW d \in Clients, NEW i \in DOMAIN responses'[d]
      PROVE  stage'[responses'[d][i].op] = "waiting"
  <2>1. /\ responses[d][Old(d, i)].op \in Ops
        /\ responses[d][Old(d, i)].op # x
    BY SMTT(60), <1>3, <1>5, CommandFields DEF WaitOwn, TypeInv, TypeOK, x
  <2>2. QED
    BY <1>3, <2>1 DEF WaitOwn, x
<1>6. ASSUME NEW d \in Clients, NEW i \in DOMAIN responses'[d],
             NEW e \in Clients, NEW j \in DOMAIN responses'[e],
             responses'[e][j].op = responses'[d][i].op
      PROVE  e = d /\ j = i
  <2>1. e = d /\ Old(e, j) = Old(d, i)
    BY <1>3, <1>6 DEF WaitOwn
  <2>2. QED
    BY <1>4, <2>1
<1>7. QED
  BY <1>5, <1>6 DEF WaitOwn

\* A request reported by a callback was owned by nobody else: the other owners
\* keep theirs.
LEMMA OthersKeep ==
    ASSUME OwnInv, NEW x \in Ops, stage[x] \in {"sending", "waiting"},
           \A o \in Ops : o # x => stage'[o] = stage[o],
           UNCHANGED <<commands, pc, cur>>
    PROVE  QueueOwn' /\ CallOwn'
<1>1. QueueOwn'
  <2>1. \A n \in DOMAIN commands : commands[n].op \in Ops
    BY CommandFields DEF OwnInv, TypeInv, TypeOK
  <2>2. \A n \in DOMAIN commands : commands[n].op # x
    BY DEF OwnInv, QueueOwn
  <2>3. QED
    BY <2>1, <2>2 DEF OwnInv, QueueOwn, Distinct
<1>2. CallOwn'
  <2>1. \A t \in Threads : pc[t] # "idle" => cur[t].op \in Ops /\ cur[t].op # x
    BY CommandFields DEF OwnInv, CallOwn, TypeInv
  <2>2. QED
    BY <2>1 DEF OwnInv, CallOwn
<1>3. QED
  BY <1>1, <1>2

\* A callback moves the count and the stage of one request together.
LEMMA CallBackCounts ==
    ASSUME OwnInv, NEW x \in Ops, stage[x] \in {"sending", "waiting"},
           NEW ok \in BOOLEAN, CallBack(x, ok)
    PROVE  /\ CountOwn'
           /\ stage'[x] = "done"
           /\ \A o \in Ops : o # x => stage'[o] = stage[o]
BY DEF OwnInv, TypeInv, TypeOK, CountOwn, CallBack

\* A stage other than "done" reached without a callback keeps the counts.
LEMMA StageCounts ==
    ASSUME OwnInv, NEW x \in Ops, stage[x] # "done", NEW st, st # "done",
           stage' = [stage EXCEPT ![x] = st], calls' = calls
    PROVE  CountOwn'
BY DEF OwnInv, TypeInv, TypeOK, CountOwn

\* An application thread's step that leaves the lists alone.
LEMMA CallStep ==
    ASSUME OwnInv, NEW x \in Ops, NEW st \in {"calling", "rejected"},
           stage[x] \in {"new", "calling"},
           stage' = [stage EXCEPT ![x] = st],
           UNCHANGED <<commands, responses, sendPc, sendCmd, calls>>
    PROVE  QueueOwn' /\ SendOwn' /\ WaitOwn' /\ CountOwn'
<1>1. QueueOwn'
  BY CommandFields DEF OwnInv, TypeInv, TypeOK, QueueOwn, Distinct
<1>2. SendOwn'
  BY CommandFields DEF OwnInv, TypeInv, TypeOK, SendOwn
<1>3. WaitOwn'
  <2>1. \A c \in Clients : \A n \in DOMAIN responses[c] :
          responses[c][n].op \in Ops /\ responses[c][n].op # x
    BY CommandFields DEF OwnInv, TypeInv, TypeOK, WaitOwn
  <2>2. \A c \in Clients : \A n \in DOMAIN responses[c] :
          stage'[responses[c][n].op] = stage[responses[c][n].op]
    BY <2>1 DEF OwnInv, TypeInv, TypeOK
  <2>3. QED
    BY <2>2 DEF OwnInv, WaitOwn
<1>4. CountOwn'
  BY StageCounts
<1>5. QED
  BY <1>1, <1>2, <1>3, <1>4

\* The send thread appends its command to the responses of the command's client.
LEMMA GiveResponse ==
    ASSUME TypeInv, WaitOwn, NEW x \in Command, NEW c \in Clients,
           \A d \in Clients : \A n \in DOMAIN responses[d] : responses[d][n].op # x.op,
           responses' = [responses EXCEPT ![c] = Append(@, x)],
           stage'[x.op] = "waiting",
           \A o \in Ops : o # x.op => stage'[o] = stage[o]
    PROVE  WaitOwn'
<1>1. responses \in [Clients -> Seq(Command)] /\ responses[c] \in Seq(Command)
  BY DEF TypeInv, TypeOK
<1>2. /\ responses'[c] = Append(responses[c], x)
      /\ \A d \in Clients : d # c => responses'[d] = responses[d]
  BY <1>1
<1>3. \A i \in DOMAIN Append(responses[c], x) :
        \/ i \in DOMAIN responses[c] /\ Append(responses[c], x)[i] = responses[c][i]
        \/ i = Len(responses[c]) + 1 /\ Append(responses[c], x)[i] = x
  BY <1>1
<1>4. ASSUME NEW d \in Clients, NEW i \in DOMAIN responses'[d]
      PROVE  \/ i \in DOMAIN responses[d] /\ responses'[d][i] = responses[d][i]
             \/ d = c /\ i = Len(responses[c]) + 1 /\ responses'[d][i] = x
  BY <1>2, <1>3
<1>5. \A d \in Clients : \A n \in DOMAIN responses[d] : responses[d][n].op \in Ops
  BY <1>1, CommandFields
<1>6. ASSUME NEW d \in Clients, NEW i \in DOMAIN responses'[d]
      PROVE  stage'[responses'[d][i].op] = "waiting"
  BY <1>4, <1>5 DEF WaitOwn
<1>7. ASSUME NEW d \in Clients, NEW i \in DOMAIN responses'[d],
             NEW e \in Clients, NEW j \in DOMAIN responses'[e],
             responses'[e][j].op = responses'[d][i].op
      PROVE  e = d /\ j = i
  BY <1>4, <1>7 DEF WaitOwn
<1>8. QED
  BY <1>6, <1>7 DEF WaitOwn

\* MQTTAsync_freeResponses reports every response of a client, each of them once,
\* and no request of another client.
LEMMA CleanUpOwn ==
    ASSUME OwnInv, NEW c \in Clients, CleanUp(c),
           UNCHANGED <<commands, pc, cur, sendPc, sendCmd>>
    PROVE  QueueOwn' /\ CallOwn' /\ SendOwn' /\ WaitOwn' /\ CountOwn'
<1> DEFINE freed == OpsIn(responses[c])
<1>1. \A o \in Ops : /\ o \notin freed => stage'[o] = stage[o] /\ calls'[o] = calls[o]
                     /\ o \in freed => stage'[o] = "done" /\ calls'[o] = calls[o] + 1
  BY DEF CleanUp
<1>2. \A o \in freed : stage[o] = "waiting"
  BY DEF OwnInv, WaitOwn, OpsIn
<1>3. /\ responses'[c] = <<>>
      /\ \A d \in Clients : d # c => responses'[d] = responses[d]
  BY DEF CleanUp, OwnInv, TypeInv, TypeOK
<1>4. \A d \in Clients : d # c => \A n \in DOMAIN responses[d] :
        responses[d][n].op \in Ops /\ responses[d][n].op \notin freed
  <2>1. \A d \in Clients : \A n \in DOMAIN responses[d] : responses[d][n].op \in Ops
    BY CommandFields DEF OwnInv, TypeInv, TypeOK
  <2>2. QED
    BY <2>1 DEF OwnInv, WaitOwn, OpsIn
<1> HIDE DEF freed
<1>5. QueueOwn'
  <2>1. \A n \in DOMAIN commands : commands[n].op \in Ops /\ commands[n].op \notin freed
    BY <1>2, CommandFields DEF OwnInv, QueueOwn, TypeInv, TypeOK
  <2>2. QED
    BY <1>1, <2>1 DEF OwnInv, QueueOwn
<1>6. CallOwn'
  <2>1. \A t \in Threads : pc[t] # "idle" => cur[t].op \in Ops /\ cur[t].op \notin freed
    BY <1>2, CommandFields DEF OwnInv, CallOwn, TypeInv
  <2>2. QED
    BY <1>1, <2>1 DEF OwnInv, CallOwn
<1>7. SendOwn'
  BY <1>1, <1>2, CommandFields DEF OwnInv, SendOwn, TypeInv
<1>8. WaitOwn'
  <2>1. \A d \in Clients : \A n \in DOMAIN responses'[d] :
          d # c /\ stage'[responses'[d][n].op] = "waiting"
    BY <1>1, <1>3, <1>4 DEF OwnInv, WaitOwn
  <2>2. QED
    BY <1>3, <2>1 DEF OwnInv, WaitOwn
<1>9. CountOwn'
  BY <1>1, <1>2 DEF OwnInv, CountOwn
<1>10. QED
  BY <1>5, <1>6, <1>7, <1>8, <1>9

\* No step gives a request a second owner or a second callback.
LEMMA OwnStep == OwnInv /\ [Next]_vars => OwnInv'
<1> SUFFICES ASSUME OwnInv, [Next]_vars PROVE OwnInv'
  OBVIOUS
<1>0. TypeInv' /\ TypeInv
  BY TypeStep DEF OwnInv
<1> USE CommandFields
<1>1. ASSUME NEW t \in Threads, NEW c \in Clients, NEW k \in Kinds, NEW o \in Ops,
             Call(t, c, k, o)
      PROVE  OwnInv'
  <2>1. /\ stage[o] = "new"
        /\ stage' = [stage EXCEPT ![o] = "calling"]
        /\ UNCHANGED <<commands, responses, sendPc, sendCmd, calls>>
    BY <1>1 DEF Call, queueVars, clientVars, sendVars
  <2>2. QueueOwn' /\ SendOwn' /\ WaitOwn' /\ CountOwn'
    BY <2>1, CallStep
  <2>3. /\ cur'[t].op = o /\ stage'[o] = "calling"
        /\ \A u \in Threads : u # t => cur'[u] = cur[u] /\ pc'[u] = pc[u]
        /\ \A u \in Threads : pc[u] # "idle" => cur[u].op # o /\ cur[u].op \in Ops
    BY SMTT(60), <1>0, <1>1 DEF Call, OwnInv, CallOwn, TypeInv, TypeOK
  <2>4. CallOwn'
    <3>1. \A p \in Ops : p # o => stage'[p] = stage[p]
      BY <1>0, <2>1 DEF TypeInv, TypeOK
    <3>2. QED
      BY <2>3, <3>1 DEF OwnInv, CallOwn
  <2>5. QED
    BY <1>0, <2>2, <2>4 DEF OwnInv
<1>2. ASSUME NEW t \in Threads, pc[t] # "idle", Refuse(t),
             UNCHANGED <<commands, responses, sendPc, sendCmd, calls>>
      PROVE  OwnInv'
  <2>1. cur[t].op \in Ops /\ stage[cur[t].op] = "calling"
    BY <1>0, <1>2 DEF OwnInv, CallOwn, TypeInv
  <2>2. QueueOwn' /\ SendOwn' /\ WaitOwn' /\ CountOwn'
    <3> DEFINE x == cur[t].op
    <3>1. /\ x \in Ops /\ stage[x] \in {"new", "calling"}
          /\ stage' = [stage EXCEPT ![x] = "rejected"]
          /\ UNCHANGED <<commands, responses, sendPc, sendCmd, calls>>
      BY <1>2, <2>1 DEF Refuse
    <3> HIDE DEF x
    <3>2. QED
      BY <3>1, CallStep
  <2>3. /\ pc'[t] = "idle"
        /\ \A u \in Threads : u # t => cur'[u] = cur[u] /\ pc'[u] = pc[u]
        /\ \A u \in Threads : u # t /\ pc[u] # "idle" =>
             cur[u].op # cur[t].op /\ cur[u].op \in Ops
    BY <1>0, <1>2 DEF Refuse, OwnInv, CallOwn, TypeInv, TypeOK
  <2>4. CallOwn'
    BY <1>0, <1>2, <2>3 DEF Refuse, OwnInv, CallOwn, TypeInv, TypeOK
  <2>5. QED
    BY <1>0, <2>2, <2>4 DEF OwnInv
<1>3. ASSUME NEW t \in Threads, AssignMsgId(t) PROVE OwnInv'
  <2>1. UNCHANGED <<commands, responses, sendPc, sendCmd, calls>> /\ pc[t] # "idle"
    BY <1>3 DEF AssignMsgId, queueVars, sendVars
  <2>2. CASE Refuse(t)
    BY <1>2, <2>1, <2>2
  <2>3. CASE ~Refuse(t)
    <3>1. /\ UNCHANGED stage
          /\ \/ UNCHANGED <<pc, cur>>
             \/ /\ \E i \in 0 .. MaxMsgId : cur' = [cur EXCEPT ![t].token = i]
                /\ \E q \in {"check", "add"} : pc' = [pc EXCEPT ![t] = q]
      BY <1>3, <2>3, LimitsAssumption DEF AssignMsgId, FreeIds, appVars
    <3>2. \A u \in Threads : /\ pc'[u] # "idle" => pc[u] # "idle"
                             /\ pc[u] # "idle" => cur'[u].op = cur[u].op
      <4>1. CASE UNCHANGED <<pc, cur>>
        BY <4>1
      <4>2. ASSUME NEW i \in 0 .. MaxMsgId, cur' = [cur EXCEPT ![t].token = i],
                   NEW q \in {"check", "add"}, pc' = [pc EXCEPT ![t] = q]
            PROVE  \A u \in Threads : /\ pc'[u] # "idle" => pc[u] # "idle"
                                      /\ pc[u] # "idle" => cur'[u].op = cur[u].op
        <5>1. cur[t] \in Command
          BY <1>0, <2>1 DEF TypeInv
        <5>2. cur'[t] = [cur[t] EXCEPT !.token = i]
          BY <1>0, <4>2 DEF TypeInv, TypeOK
        <5>3. cur'[t].op = cur[t].op
          BY <5>1, <5>2 DEF Command
        <5>4. \A u \in Threads : u # t => cur'[u] = cur[u] /\ pc'[u] = pc[u]
          BY <1>0, <4>2 DEF TypeInv, TypeOK
        <5>5. QED
          BY <2>1, <5>3, <5>4
      <4>3. QED
        BY <3>1, <4>1, <4>2
    <3>3. CallOwn'
      BY <3>1, <3>2 DEF OwnInv, CallOwn
    <3>4. QueueOwn' /\ SendOwn' /\ WaitOwn' /\ CountOwn'
      BY <2>1, <3>1 DEF OwnInv, QueueOwn, SendOwn, WaitOwn, CountOwn
    <3>5. QED
      BY <1>0, <3>3, <3>4 DEF OwnInv
  <2>4. QED
    BY <2>2, <2>3
<1>4. ASSUME NEW t \in Threads, CheckBuffer(t) PROVE OwnInv'
  <2>1. UNCHANGED <<commands, responses, sendPc, sendCmd, calls>> /\ pc[t] # "idle"
    BY <1>4 DEF CheckBuffer, queueVars, clientVars, sendVars
  <2>2. CASE Refuse(t)
    BY <1>2, <2>1, <2>2
  <2>3. CASE pc' = [pc EXCEPT ![t] = "add"] /\ UNCHANGED <<cur, stage>>
    <3>1. \A u \in Threads : pc'[u] # "idle" => pc[u] # "idle"
      BY <1>0, <2>1, <2>3 DEF TypeInv, TypeOK
    <3>2. CallOwn'
      BY <2>3, <3>1 DEF OwnInv, CallOwn
    <3>3. QueueOwn' /\ SendOwn' /\ WaitOwn' /\ CountOwn'
      BY <2>1, <2>3 DEF OwnInv, QueueOwn, SendOwn, WaitOwn, CountOwn
    <3>4. QED
      BY <1>0, <3>2, <3>3 DEF OwnInv
  <2>4. QED
    BY <1>4, <2>2, <2>3 DEF CheckBuffer
<1>5. ASSUME NEW t \in Threads, AddCommand(t) PROVE OwnInv'
  <2> DEFINE cmd == cur[t]
             all == Append(commands, cmd)
  <2>1. /\ cmd \in Command /\ stage[cmd.op] = "calling"
        /\ UNCHANGED <<responses, sendPc, sendCmd, calls>>
        /\ pc' = [pc EXCEPT ![t] = "idle"]
        /\ cur' = [cur EXCEPT ![t] = NoCommand]
    BY <1>0, <1>5 DEF AddCommand, OwnInv, CallOwn, TypeInv, clientVars, sendVars
  <2>2. /\ Distinct(commands) /\ commands \in Seq(Command)
        /\ \A n \in DOMAIN commands : commands[n].op # cmd.op
    BY <1>0, <2>1 DEF OwnInv, QueueOwn, TypeInv, TypeOK
  <2>3. /\ all \in Seq(Command) /\ Distinct(all)
        /\ \A i \in DOMAIN all : \/ i \in DOMAIN commands /\ all[i] = commands[i]
                                 \/ all[i] = cmd
    BY <2>1, <2>2, AppendDistinct
  <2> HIDE DEF all, cmd
  \* the requests that get another stage are this one and one from the list
  <2>4. ASSUME NEW y \in Ops, y = cmd.op \/ stage[y] = "queued",
               NEW st \in {"queued", "dropped"},
               y = cmd.op \/ st = "dropped",
               stage' = [stage EXCEPT ![cmd.op] = "queued", ![y] = st]
        PROVE  CallOwn' /\ SendOwn' /\ WaitOwn' /\ CountOwn'
    <3>1. /\ stage'[y] = st
          /\ \A o \in Ops : o \notin {cmd.op, y} => stage'[o] = stage[o]
          /\ y # cmd.op => stage'[cmd.op] = "queued"
      BY <1>0, <2>1, <2>4 DEF TypeInv, TypeOK
    <3>2. SendOwn'
      BY <1>0, <2>1, <2>4, <3>1 DEF OwnInv, SendOwn, TypeInv
    <3>3. WaitOwn'
      <4>1. \A c \in Clients : \A n \in DOMAIN responses[c] :
              responses[c][n].op \in Ops
        BY SMTT(60), <1>0 DEF TypeInv, TypeOK
      <4>2. QED
        <5>1. \A c \in Clients : \A n \in DOMAIN responses[c] :
                responses[c][n].op \notin {cmd.op, y}
          BY <2>1, <2>4 DEF OwnInv, WaitOwn
        <5>2. \A c \in Clients : \A n \in DOMAIN responses[c] :
                stage'[responses[c][n].op] = "waiting"
          BY <3>1, <4>1, <5>1 DEF OwnInv, WaitOwn
        <5>3. QED
          BY <2>1, <5>2 DEF OwnInv, WaitOwn
    <3>4. CountOwn'
      BY <2>1, <2>4, <3>1 DEF OwnInv, CountOwn
    <3>5. CallOwn'
      <4>1. \A u \in Threads : u # t => cur'[u] = cur[u] /\ pc'[u] = pc[u]
        BY <1>0, <2>1 DEF TypeInv, TypeOK
      <4>2. pc'[t] = "idle" /\ pc[t] # "idle"
        BY <1>0, <1>5, <2>1 DEF TypeInv, TypeOK, AddCommand
      <4>3. \A u \in Threads : u # t /\ pc[u] # "idle" =>
              cur[u].op \in Ops \ {cmd.op, y}
        BY <1>0, <2>1, <2>4, <4>2 DEF OwnInv, CallOwn, TypeInv, cmd
      <4>4. QED
        BY <3>1, <4>1, <4>2, <4>3 DEF OwnInv, CallOwn
    <3>6. QED
      BY <3>2, <3>3, <3>4, <3>5
  <2>5. CASE commands' = all /\ stage' = [stage EXCEPT ![cmd.op] = "queued"]
    <3>1. stage' = [stage EXCEPT ![cmd.op] = "queued", ![cmd.op] = "queued"]
      BY <1>0, <2>1, <2>5 DEF TypeInv, TypeOK
    <3>2. CallOwn' /\ SendOwn' /\ WaitOwn' /\ CountOwn'
      BY <2>1, <2>4, <3>1
    <3>3. ASSUME NEW n \in DOMAIN all PROVE stage'[all[n].op] = "queued"
      <4>1. all[n].op \in Ops
        BY <2>3
      <4>2. all[n].op = cmd.op \/ stage[all[n].op] = "queued"
        BY <2>3 DEF OwnInv, QueueOwn
      <4>3. QED
        BY <1>0, <2>1, <2>5, <4>1, <4>2 DEF TypeInv, TypeOK
    <3>4. QED
      BY <1>0, <2>3, <2>5, <3>2, <3>3 DEF OwnInv, QueueOwn
  <2>6. ASSUME NEW n \in DOMAIN all, commands' = Detach(all, n),
               stage' = [stage EXCEPT ![cmd.op] = "queued", ![all[n].op] = "dropped"]
        PROVE  OwnInv'
    <3>1. all[n].op \in Ops /\ (all[n].op = cmd.op \/ stage[all[n].op] = "queued")
      BY <2>3 DEF OwnInv, QueueOwn
    <3>2. CallOwn' /\ SendOwn' /\ WaitOwn' /\ CountOwn'
      BY <2>4, <2>6, <3>1
    <3>3. /\ Distinct(Detach(all, n))
          /\ \A i \in DOMAIN Detach(all, n) :
               \E k \in DOMAIN all : /\ Detach(all, n)[i] = all[k]
                                     /\ all[k].op # all[n].op
      BY <2>3, DetachDistinct
    <3>4. ASSUME NEW k \in DOMAIN all, all[k].op # all[n].op
          PROVE  stage'[all[k].op] = "queued"
      <4>1. all[k].op \in Ops
        BY <2>3
      <4>2. all[k].op = cmd.op \/ stage[all[k].op] = "queued"
        BY <2>3 DEF OwnInv, QueueOwn
      <4>3. stage \in [Ops -> Stages] /\ cmd.op \in Ops
        BY <1>0, <2>1 DEF TypeInv, TypeOK
      <4>4. CASE all[k].op = cmd.op
        BY ONLY <2>6, <3>1, <3>4, <4>3, <4>4
      <4>5. CASE all[k].op # cmd.op
        BY ONLY <2>6, <3>1, <3>4, <4>1, <4>2, <4>3, <4>5
      <4>6. QED
        BY <4>4, <4>5
    <3>5. QueueOwn'
      <4>1. ASSUME NEW i \in DOMAIN Detach(all, n)
            PROVE  stage'[Detach(all, n)[i].op] = "queued"
        BY <3>3, <3>4
      <4>2. QED
        BY <2>6, <3>3, <4>1 DEF QueueOwn
    <3>6. QED
      BY <1>0, <3>2, <3>5 DEF OwnInv
  <2>7. QED
    BY <1>5, <2>5, <2>6 DEF AddCommand, IsFirst, all, cmd
<1>6. CASE Dequeue
  <2>1. PICK n \in DOMAIN commands :
          /\ sendCmd' = commands[n]
          /\ commands' = Detach(commands, n)
          /\ stage' = [stage EXCEPT ![commands[n].op] = "sending"]
    BY <1>6 DEF Dequeue, Candidates, IsFirst
  <2>2. /\ commands \in Seq(Command) /\ commands[n].op \in Ops
        /\ stage[commands[n].op] = "queued"
        /\ UNCHANGED <<responses, pc, cur, calls>>
    BY <1>0, <1>6 DEF Dequeue, clientVars, appVars, OwnInv, QueueOwn, TypeInv, TypeOK
  <2>3. /\ stage'[commands[n].op] = "sending"
        /\ \A o \in Ops : o # commands[n].op => stage'[o] = stage[o]
    BY <1>0, <2>1, <2>2 DEF TypeInv, TypeOK
  <2>4. QueueOwn'
    <3>1. /\ Distinct(Detach(commands, n))
          /\ \A i \in DOMAIN Detach(commands, n) :
               \E k \in DOMAIN commands : /\ Detach(commands, n)[i] = commands[k]
                                          /\ commands[k].op # commands[n].op
      BY <2>2, DetachDistinct DEF OwnInv, QueueOwn
    <3>2. \A k \in DOMAIN commands : commands[k].op # commands[n].op =>
            stage'[commands[k].op] = "queued"
      BY <2>2, <2>3 DEF OwnInv, QueueOwn
    <3>3. QED
      BY <2>1, <3>1, <3>2 DEF QueueOwn
  <2>5. SendOwn'
    BY <2>1, <2>3 DEF SendOwn
  <2>6. CallOwn'
    <3>1. \A u \in Threads : pc[u] # "idle" => cur[u].op \in Ops \ {commands[n].op}
      BY <1>0, <2>2 DEF OwnInv, CallOwn, TypeInv
    <3>2. QED
      BY <2>2, <2>3, <3>1 DEF OwnInv, CallOwn
  <2>7. WaitOwn'
    <3>1. \A c \in Clients : \A m \in DOMAIN responses[c] : responses[c][m].op \in Ops
      BY <1>0 DEF TypeInv, TypeOK
    <3>2. QED
      BY <2>2, <2>3, <3>1 DEF OwnInv, WaitOwn
  <2>8. CountOwn'
    BY <2>1, <2>2, StageCounts
  <2>9. QED
    BY <1>0, <2>4, <2>5, <2>6, <2>7, <2>8 DEF OwnInv
\* what does not touch the lists, the stages and the threads
<1>7. ASSUME UNCHANGED <<commands, responses, stage, calls, pc, cur>>,
             sendPc' # "idle" => sendPc # "idle" /\ sendCmd' = sendCmd
      PROVE  OwnInv'
  BY <1>0, <1>7 DEF OwnInv, QueueOwn, CallOwn, SendOwn, WaitOwn, CountOwn
<1>8. CASE (\E rc \in {"COMPLETE", "INTERRUPTED", "SOCKET_ERROR"} : WritePacket(rc))
           \/ FlagPendingWrite
  BY <1>7, <1>8 DEF WritePacket, FlagPendingWrite, queueVars, appVars, histVars
<1>9. CASE FinishCommand
  <2> DEFINE c == sendCmd.client
             x == sendCmd.op
  <2>1. /\ sendCmd \in Command /\ x \in Ops /\ c \in Clients /\ stage[x] = "sending"
        /\ sendPc' = "idle" /\ UNCHANGED <<commands, pc, cur>>
    BY <1>0, <1>9 DEF FinishCommand, OwnInv, SendOwn, TypeInv, queueVars, appVars
  <2>2. SendOwn'
    BY <2>1 DEF SendOwn
  <2> HIDE DEF c, x
  <2>3. \A d \in Clients : \A n \in DOMAIN responses[d] :
          responses[d][n].op \in Ops /\ responses[d][n].op # x
    <3>1. \A d \in Clients : responses[d] \in Seq(Command)
      BY <1>0 DEF TypeInv, TypeOK
    <3>2. \A d \in Clients : \A n \in DOMAIN responses[d] : responses[d][n].op \in Ops
      BY <3>1
    <3>3. QED
      BY <2>1, <3>2 DEF OwnInv, WaitOwn
  <2>4. ASSUME NEW ok \in BOOLEAN, CallBack(x, ok), UNCHANGED responses PROVE OwnInv'
    <3>1. CountOwn' /\ \A o \in Ops : o # x => stage'[o] = stage[o]
      BY <2>1, <2>4, CallBackCounts
    <3>2. QueueOwn' /\ CallOwn'
      BY <2>1, <3>1, OthersKeep
    <3>3. \A d \in Clients : \A n \in DOMAIN responses[d] :
            stage'[responses[d][n].op] = "waiting"
      BY <2>3, <3>1 DEF OwnInv, WaitOwn
    <3>4. WaitOwn'
      BY <2>4, <3>3 DEF OwnInv, WaitOwn
    <3>5. QED
      BY <1>0, <2>2, <3>1, <3>2, <3>4 DEF OwnInv
  <2>5. CASE /\ responses' = [responses EXCEPT ![c] = Append(@, sendCmd)]
             /\ stage' = [stage EXCEPT ![x] = "waiting"]
             /\ UNCHANGED calls
    <3>1. stage'[x] = "waiting" /\ \A o \in Ops : o # x => stage'[o] = stage[o]
      BY <1>0, <2>1, <2>5 DEF TypeInv, TypeOK
    <3>2. QueueOwn' /\ CallOwn'
      BY <2>1, <3>1, OthersKeep
    <3>3. CountOwn'
      BY <2>1, <2>5, StageCounts
    <3>4. WaitOwn'
      BY <2>1, <2>3, <2>5, <3>1, GiveResponse DEF OwnInv, x
    <3>5. QED
      BY <1>0, <2>2, <3>2, <3>3, <3>4 DEF OwnInv
  <2>6. QED
    BY <1>9, <2>4, <2>5 DEF FinishCommand, c, x
<1>10. ASSUME NEW c \in Clients, NEW r \in DOMAIN responses[c],
              responses' = [responses EXCEPT ![c] = Detach(@, r)],
              \A o \in Ops : o # responses[c][r].op => stage'[o] = stage[o],
              CountOwn', UNCHANGED <<commands, pc, cur, sendPc, sendCmd>>
       PROVE  OwnInv'
  <2>1. responses[c][r].op \in Ops /\ stage[responses[c][r].op] = "waiting"
    BY <1>0 DEF OwnInv, WaitOwn, TypeInv, TypeOK
  <2>2. WaitOwn'
    BY <1>0, <1>10, TakeResponse DEF OwnInv
  <2>3. QueueOwn' /\ CallOwn'
    BY <1>10, <2>1, OthersKeep
  <2>4. SendOwn'
    BY <1>0, <1>10, <2>1 DEF OwnInv, SendOwn, TypeInv
  <2>5. QED
    BY <1>0, <1>10, <2>2, <2>3, <2>4 DEF OwnInv
<1>11. ASSUME NEW c \in Clients, NEW ok \in BOOLEAN, WriteComplete(c, ok)
       PROVE  OwnInv'
  <2>1. UNCHANGED <<commands, pc, cur, sendPc, sendCmd>>
    BY <1>11 DEF WriteComplete, queueVars, appVars, sendVars
  <2>2. ASSUME NEW n \in DOMAIN responses[c],
               responses' = [responses EXCEPT ![c] = Detach(@, n)],
               CallBack(responses[c][n].op, ok)
        PROVE  OwnInv'
    <3>1. responses[c][n].op \in Ops /\ stage[responses[c][n].op] = "waiting"
      BY <1>0 DEF OwnInv, WaitOwn, TypeInv, TypeOK
    <3>2. /\ CountOwn'
          /\ \A o \in Ops : o # responses[c][n].op => stage'[o] = stage[o]
      BY <2>2, <3>1, CallBackCounts
    <3>3. QED
      BY <1>10, <2>1, <2>2, <3>2
  <2>3. ASSUME NEW n \in DOMAIN responses[c],
               responses' = [responses EXCEPT ![c] = Detach(@, n)],
               stage' = [stage EXCEPT ![responses[c][n].op] = "lost"],
               UNCHANGED calls
        PROVE  OwnInv'
    <3>1. responses[c][n].op \in Ops /\ stage[responses[c][n].op] = "waiting"
      BY <1>0 DEF OwnInv, WaitOwn, TypeInv, TypeOK
    <3>2. \A o \in Ops : o # responses[c][n].op => stage'[o] = stage[o]
      BY <1>0, <2>3 DEF TypeInv, TypeOK
    <3>3. CountOwn'
      BY <2>3, <3>1, StageCounts
    <3>4. QED
      BY <1>10, <2>1, <2>3, <3>2, <3>3
  <2>4. CASE UNCHANGED <<responses, stage, calls>>
    BY <1>7, <2>1, <2>4
  <2>5. QED
    BY <1>11, <2>2, <2>3, <2>4 DEF WriteComplete
<1>12. ASSUME NEW c \in Clients, NEW n \in DOMAIN owed[c], NEW ok \in BOOLEAN,
              Acknowledge(c, n, ok)
       PROVE  OwnInv'
  <2>1. UNCHANGED <<commands, pc, cur, sendPc, sendCmd>>
    BY <1>12 DEF Acknowledge, queueVars, appVars, sendVars
  <2>2. ASSUME NEW r \in DOMAIN responses[c],
               responses' = [responses EXCEPT ![c] = Detach(@, r)],
               CallBack(responses[c][r].op, ok)
        PROVE  OwnInv'
    <3>1. responses[c][r].op \in Ops /\ stage[responses[c][r].op] = "waiting"
      BY SMTT(60), <1>0 DEF OwnInv, WaitOwn, TypeInv, TypeOK
    <3>2. /\ CountOwn'
          /\ \A o \in Ops : o # responses[c][r].op => stage'[o] = stage[o]
      BY <2>2, <3>1, CallBackCounts
    <3>3. QED
      BY <1>10, <2>1, <2>2, <3>2
  <2>3. CASE UNCHANGED <<responses, stage, calls>>
    BY <1>7, <2>1, <2>3
  <2>4. QED
    BY <1>12, <2>2, <2>3 DEF Acknowledge, WithToken, IsFirst
<1>13. ASSUME NEW c \in Clients, CleanUp(c) \/ KeepSession,
              UNCHANGED <<commands, pc, cur, sendPc, sendCmd>>
       PROVE  OwnInv'
  <2>1. CASE KeepSession
    BY <1>7, <1>13, <2>1 DEF KeepSession
  <2>2. CASE CleanUp(c)
    BY <1>0, <1>13, <2>2, CleanUpOwn DEF OwnInv
  <2>3. QED
    BY <1>13, <2>1, <2>2
<1>14. ASSUME NEW c \in Clients, ConnectionStep(c) PROVE OwnInv'
  <2>1. ASSUME NEW present \in BOOLEAN, NEW n \in [Clients -> 0 .. MaxInflight],
               NEW broken \in SUBSET Clients, ConnectionUp(c, present, n, broken)
        PROVE  OwnInv'
    BY <1>13, <2>1 DEF ConnectionUp, queueVars, appVars, sendVars
  <2>2. ASSUME NEW only \in BOOLEAN, ConnectionDown(c, only) PROVE OwnInv'
    BY <1>13, <2>2 DEF ConnectionDown, queueVars, appVars, sendVars
  <2>3. CASE StartDisconnect(c)
    BY <1>7, <2>3 DEF StartDisconnect, queueVars, clientVars, appVars, sendVars, histVars
  <2>4. QED
    BY <1>14, <2>1, <2>2, <2>3 DEF ConnectionStep
<1>15. CASE UNCHANGED vars
  BY <1>7, <1>15
  DEF vars, queueVars, clientVars, netVars, appVars, sendVars, histVars
<1>16. QED
  BY <1>1, <1>3, <1>4, <1>5, <1>6, <1>8, <1>9, <1>11, <1>12, <1>14, <1>15
  DEF Next, AppStep, SendStep, ReceiveStep

\* An API call is answered by at most one callback, however writeComplete,
\* MQTTAsync_cycle, freeResponses and processCommand interleave.
THEOREM CallbackOnce == Spec => []CallbackAtMostOnce
<1>1. OwnInv => CallbackAtMostOnce
  BY DEF OwnInv, CountOwn, CallbackAtMostOnce
<1>2. QED
  BY <1>1, OwnInit, OwnStep, PTL DEF Spec

\* Once a request has been reported no list and no thread of the library holds
\* it, so nothing can find it again.
THEOREM ReportedReleased == Spec => []ReportedIsReleased
<1>1. OwnInv => ReportedIsReleased
  <2> SUFFICES ASSUME OwnInv, NEW o \in Ops, calls[o] > 0 PROVE ~Held(o)
    BY DEF ReportedIsReleased
  <2>1. stage[o] = "done"
    BY DEF OwnInv, CountOwn
  <2>2. o \notin OpsIn(commands)
    BY <2>1 DEF OwnInv, QueueOwn, OpsIn
  <2>3. ~(sendPc # "idle" /\ sendCmd.op = o)
    BY <2>1 DEF OwnInv, SendOwn
  <2>4. \A c \in Clients : o \notin OpsIn(responses[c])
    BY <2>1 DEF OwnInv, WaitOwn, OpsIn
  <2>5. QED
    BY <2>2, <2>3, <2>4 DEF Held
<1>2. QED
  BY <1>1, OwnInit, OwnStep, PTL DEF Spec

----------------------------------------------------------------------------
(* The number of buffered messages *)

\* positions of client c's publishes in a list
Pubs(s, c) == {n \in DOMAIN s : s[n].client = c /\ IsPublish(s[n])}

\* There are finitely many of them.
LEMMA PubsFinite ==
    ASSUME NEW s \in Seq(Command), NEW c
    PROVE  IsFiniteSet(Pubs(s, c)) /\ Cardinality(Pubs(s, c)) \in Nat
<1>1. Len(s) \in Nat /\ DOMAIN s = 1 .. Len(s) /\ Pubs(s, c) \in SUBSET (1 .. Len(s))
  BY DEF Pubs
<1>2. IsFiniteSet(1 .. Len(s))
  BY <1>1, FS_Interval
<1>3. IsFiniteSet(Pubs(s, c))
  BY <1>1, <1>2, FS_Subset
<1>4. QED
  BY <1>3, FS_CardinalityType

\* MQTTAsync_addCommand appends a publish: one more is buffered, for its client.
LEMMA PubsAppend ==
    ASSUME NEW s \in Seq(Command), NEW x \in Command, NEW c
    PROVE  Cardinality(Pubs(Append(s, x), c)) =
             IF x.client = c /\ IsPublish(x) THEN Cardinality(Pubs(s, c)) + 1
                                             ELSE Cardinality(Pubs(s, c))
<1> DEFINE a == Append(s, x)
           P == Pubs(s, c)
           l == Len(s) + 1
<1>1. /\ Len(s) \in Nat /\ DOMAIN s = 1 .. Len(s) /\ DOMAIN a = 1 .. Len(s) + 1
      /\ \A i \in DOMAIN s : i \in DOMAIN a /\ a[i] = s[i]
      /\ \A i \in DOMAIN a : i \in DOMAIN s \/ i = l
      /\ a[l] = x /\ l \in DOMAIN a /\ l \notin DOMAIN s
  OBVIOUS
<1> HIDE DEF a, l
<1>2. CASE x.client = c /\ IsPublish(x)
  <2>1. Pubs(a, c) = P \cup {l} /\ l \notin P
    BY <1>1, <1>2 DEF Pubs
  <2>2. QED
    BY ZenonT(60), <1>2, <2>1, PubsFinite, FS_AddElement DEF a
<1>3. CASE ~(x.client = c /\ IsPublish(x))
  <2>1. Pubs(a, c) = P
    BY <1>1, <1>3 DEF Pubs
  <2>2. QED
    BY <1>3, <2>1 DEF a
<1>4. QED
  BY <1>2, <1>3

\* ListDetach takes at most one publish of a client off the list.
LEMMA PubsDetach ==
    ASSUME NEW s \in Seq(Command), NEW n \in DOMAIN s, NEW c
    PROVE  Cardinality(Pubs(Detach(s, n), c)) =
             IF n \in Pubs(s, c) THEN Cardinality(Pubs(s, c)) - 1 ELSE Cardinality(Pubs(s, c))
<1> DEFINE d == Detach(s, n)
           P == Pubs(s, c) \ {n}
           D == Pubs(d, c)
           f == [i \in D |-> IF i < n THEN i ELSE i + 1]
<1>1. /\ n \in Int /\ 1 <= n /\ n <= Len(s) /\ Len(s) \in Nat
      /\ DOMAIN s = 1 .. Len(s) /\ DOMAIN d = 1 .. Len(s) - 1
      /\ \A i \in 1 .. Len(s) - 1 : d[i] = IF i < n THEN s[i] ELSE s[i + 1]
      /\ d \in Seq(Command)
  BY DetachType
<1> HIDE DEF d
<1>2. ASSUME NEW i \in D
      PROVE  /\ i \in Int /\ f[i] \in P
             /\ f[i] = (IF i < n THEN i ELSE i + 1)
  <2>1. i \in 1 .. Len(s) - 1 /\ d[i].client = c /\ IsPublish(d[i])
    BY <1>1 DEF Pubs
  <2>2. CASE i < n
    BY SMTT(60), <1>1, <2>1, <2>2 DEF Pubs
  <2>3. CASE ~(i < n)
    BY <1>1, <2>1, <2>3 DEF Pubs
  <2>4. QED
    BY <2>2, <2>3
<1>3. f \in [D -> P]
  BY <1>2
<1>4. \A i, j \in D : f[i] = f[j] => i = j
  BY <1>1, <1>2
<1>5. ASSUME NEW k \in P PROVE \E i \in D : f[i] = k
  <2>1. k \in 1 .. Len(s) /\ k # n /\ s[k].client = c /\ IsPublish(s[k])
    BY <1>1 DEF Pubs
  <2>2. CASE k < n
    <3>1. k \in 1 .. Len(s) - 1 /\ d[k] = s[k]
      BY <1>1, <2>1, <2>2
    <3>2. k \in D
      BY <1>1, <2>1, <3>1 DEF Pubs
    <3>3. QED
      BY <2>2, <3>2
  <2>3. CASE ~(k < n)
    <3>1. k - 1 \in 1 .. Len(s) - 1 /\ ~(k - 1 < n) /\ (k - 1) + 1 = k /\ d[k - 1] = s[k]
      BY <1>1, <2>1, <2>3
    <3>2. k - 1 \in D
      BY <1>1, <2>1, <3>1 DEF Pubs
    <3>3. QED
      BY <1>2, <3>1, <3>2
  <2>4. QED
    BY <2>2, <2>3
<1> HIDE DEF f
<1>6. f \in Bijection(D, P)
  BY <1>3, <1>4, <1>5 DEF Bijection, Injection, Surjection, IsInjective
<1>7. ExistsBijection(D, P)
  BY <1>6 DEF ExistsBijection
<1>8. IsFiniteSet(D)
  BY <1>1, PubsFinite
<1>9. Cardinality(P) = Cardinality(D)
  BY <1>7, <1>8, FS_Bijection
<1>10. QED
  BY <1>9, PubsFinite, FS_RemoveElement DEF d

\* the counter of every client counts its publishes in the list
BufferInv == TypeInv /\ BufferCount

\* addCommand and processCommand change the list and the counter together; the
\* oldest publish makes room for the new one when the buffer is full.
LEMMA BufferStep == BufferInv /\ [Next]_vars => BufferInv'
<1> SUFFICES ASSUME BufferInv, [Next]_vars PROVE BufferInv'
  OBVIOUS
<1>0. TypeInv /\ TypeInv' /\ commands \in Seq(Command) /\ noBuffered \in [Clients -> Int]
  BY TypeStep DEF BufferInv, TypeInv, TypeOK
<1>1. \A d \in Clients : /\ noBuffered[d] = Cardinality(Pubs(commands, d))
                         /\ noBuffered[d] <= MaxBuffered
                         /\ noBuffered[d] \in Int
  BY <1>0 DEF BufferInv, BufferCount, Buffered, Pubs
<1>2. ASSUME \A d \in Clients : /\ noBuffered'[d] = Cardinality(Pubs(commands', d))
                                /\ noBuffered'[d] <= MaxBuffered
      PROVE  BufferInv'
  BY <1>0, <1>2 DEF BufferInv, BufferCount, Buffered, Pubs
<1>3. CASE UNCHANGED queueVars
  BY <1>1, <1>2, <1>3 DEF queueVars
<1>4. ASSUME NEW t \in Threads, AddCommand(t) PROVE BufferInv'
  <2> DEFINE x == cur[t]
             c == x.client
             all == Append(commands, x)
  <2>1. x \in Command /\ c \in Clients
    BY <1>0, <1>4, CommandFields DEF AddCommand, TypeInv
  <2>2. all \in Seq(Command)
    BY <1>0, <2>1
  <2>3. \A d \in Clients : Cardinality(Pubs(all, d)) =
          IF c = d /\ IsPublish(x) THEN noBuffered[d] + 1 ELSE noBuffered[d]
    BY <1>0, <1>1, <2>1, PubsAppend
  <2> HIDE DEF x
  <2>4. CASE ~IsPublish(x) /\ commands' = all /\ UNCHANGED noBuffered
    BY <1>1, <1>2, <2>3, <2>4
  <2>5. CASE /\ IsPublish(x) /\ noBuffered[c] < MaxBuffered /\ commands' = all
             /\ noBuffered' = [noBuffered EXCEPT ![c] = @ + 1]
    <3>1. \A d \in Clients : noBuffered'[d] = IF c = d THEN noBuffered[d] + 1 ELSE noBuffered[d]
      BY <1>0, <2>1, <2>5
    <3>2. QED
      BY <1>1, <1>2, <2>1, <2>3, <2>5, <3>1, LimitsAssumption
  <2>6. ASSUME NEW n \in Pubs(all, c), commands' = Detach(all, n), UNCHANGED noBuffered,
               IsPublish(x)
        PROVE  BufferInv'
    <3>1. n \in DOMAIN all /\ \A d \in Clients : n \in Pubs(all, d) <=> d = c
      BY <2>6 DEF Pubs
    <3>2. \A d \in Clients : Cardinality(Pubs(Detach(all, n), d)) =
            IF n \in Pubs(all, d) THEN Cardinality(Pubs(all, d)) - 1
                                  ELSE Cardinality(Pubs(all, d))
      BY <2>2, <3>1, PubsDetach
    <3> HIDE DEF all
    <3>3. \A d \in Clients : Cardinality(Pubs(commands', d)) = noBuffered[d]
      BY <1>1, <2>3, <2>6, <3>1, <3>2
    <3>4. QED
      BY <1>1, <1>2, <2>6, <3>3
  <2>7. QED
    BY <1>4, <2>4, <2>5, <2>6 DEF AddCommand, IsFirst, Pubs, x
<1>5. ASSUME Dequeue PROVE BufferInv'
  <2>1. PICK n \in DOMAIN commands :
          commands' = Detach(commands, n) /\ noBuffered' = Unbuffer(commands[n])
    BY <1>5 DEF Dequeue, Candidates, IsFirst
  <2> DEFINE x == commands[n]
  <2>2. x \in Command /\ x.client \in Clients
    BY <1>0, CommandFields
  <2>3. \A d \in Clients : n \in Pubs(commands, d) <=> x.client = d /\ IsPublish(x)
    BY DEF Pubs
  <2>4. \A d \in Clients : Cardinality(Pubs(commands', d)) =
          IF n \in Pubs(commands, d) THEN noBuffered[d] - 1 ELSE noBuffered[d]
    BY <1>0, <1>1, <2>1, PubsDetach
  <2>5. \A d \in Clients : noBuffered'[d] =
          IF x.client = d /\ IsPublish(x) THEN noBuffered[d] - 1 ELSE noBuffered[d]
    BY <1>0, <2>1, <2>2 DEF Unbuffer
  <2>6. QED
    BY <1>1, <1>2, <2>3, <2>4, <2>5, LimitsAssumption
<1>6. UNCHANGED queueVars \/ Dequeue \/ \E t \in Threads : AddCommand(t)
  <2>1. CASE UNCHANGED vars
    BY SMTT(60), <2>1 DEF vars
  <2>2. CASE Next
    BY ZenonT(60), <2>2 DEF Next, Call, AppStep, AssignMsgId, CheckBuffer, SendStep, WritePacket,
                FlagPendingWrite, FinishCommand, ReceiveStep, WriteComplete, Acknowledge,
                ConnectionStep, ConnectionUp, ConnectionDown, StartDisconnect
  <2>3. QED
    BY <2>1, <2>2
<1>7. QED
  BY <1>3, <1>4, <1>5, <1>6

\* noBufferedMessages is exact at every moment, although addCommand and the send
\* thread update it under different conditions, and the buffer never overflows.
THEOREM BufferCounted == Spec => []BufferCount
<1>1. Init => BufferInv
  <2> SUFFICES ASSUME Init PROVE BufferInv
    OBVIOUS
  <2>1. TypeInv
    BY TypeInit
  <2>2. \A c \in Clients : Buffered(c) = {} /\ noBuffered[c] = 0
    BY DEF Init, Buffered
  <2>3. QED
    BY <2>1, <2>2, FS_EmptySet, LimitsAssumption DEF BufferInv, BufferCount
<1>2. BufferInv => BufferCount
  BY DEF BufferInv
<1>3. QED
  BY <1>1, <1>2, BufferStep, PTL DEF Spec

----------------------------------------------------------------------------
(* No request is forgotten *)

\* ListDetach takes one item off a list and leaves all the others.
LEMMA DetachItems ==
    ASSUME NEW S, NEW s \in Seq(S), NEW n \in DOMAIN s
    PROVE  /\ \A i \in DOMAIN Detach(s, n) :
                \E k \in DOMAIN s : k # n /\ Detach(s, n)[i] = s[k]
           /\ \A k \in DOMAIN s : k # n =>
                \E i \in DOMAIN Detach(s, n) : Detach(s, n)[i] = s[k]
<1> DEFINE d == Detach(s, n)
<1>1. /\ n \in Int /\ 1 <= n /\ n <= Len(s) /\ Len(s) \in Nat
      /\ DOMAIN s = 1 .. Len(s) /\ DOMAIN d = 1 .. Len(s) - 1
      /\ \A i \in 1 .. Len(s) - 1 : d[i] = IF i < n THEN s[i] ELSE s[i + 1]
  BY DetachType
<1> HIDE DEF d
<1>2. ASSUME NEW i \in DOMAIN d PROVE \E k \in DOMAIN s : k # n /\ d[i] = s[k]
  <2>1. CASE i < n
    BY <1>1, <2>1
  <2>2. CASE ~(i < n)
    <3>1. i + 1 \in DOMAIN s /\ i + 1 # n /\ d[i] = s[i + 1]
      BY <1>1, <2>2
    <3>2. QED
      BY <3>1
  <2>3. QED
    BY <2>1, <2>2
<1>3. ASSUME NEW k \in DOMAIN s, k # n PROVE \E i \in DOMAIN d : d[i] = s[k]
  <2>1. CASE k < n
    <3>1. k \in DOMAIN d /\ d[k] = s[k]
      BY <1>1, <2>1
    <3>2. QED
      BY <3>1
  <2>2. CASE ~(k < n)
    <3>1. k - 1 \in DOMAIN d /\ d[k - 1] = s[k]
      BY <1>1, <1>3, <2>2
    <3>2. QED
      BY <3>1
  <2>3. QED
    BY <2>1, <2>2
<1>4. QED
  BY <1>2, <1>3 DEF d

\* The requests in a list after ListDetach and ListAppend.
LEMMA OpsInLists ==
    ASSUME NEW s \in Seq(Command)
    PROVE  /\ \A n \in DOMAIN s : OpsIn(s) \subseteq OpsIn(Detach(s, n)) \cup {s[n].op}
           /\ \A x \in Command : OpsIn(s) \cup {x.op} \subseteq OpsIn(Append(s, x))
<1>1. ASSUME NEW n \in DOMAIN s, NEW o \in OpsIn(s), o # s[n].op
      PROVE  o \in OpsIn(Detach(s, n))
  <2>1. PICK k \in DOMAIN s : s[k].op = o
    BY DEF OpsIn
  <2>2. PICK i \in DOMAIN Detach(s, n) : Detach(s, n)[i] = s[k]
    BY <1>1, <2>1, DetachItems
  <2>3. QED
    BY <2>1, <2>2 DEF OpsIn
<1>2. ASSUME NEW x \in Command PROVE OpsIn(s) \cup {x.op} \subseteq OpsIn(Append(s, x))
  <2>1. /\ \A k \in DOMAIN s : k \in DOMAIN Append(s, x) /\ Append(s, x)[k] = s[k]
        /\ Len(s) + 1 \in DOMAIN Append(s, x) /\ Append(s, x)[Len(s) + 1] = x
    OBVIOUS
  <2>2. QED
    BY <2>1 DEF OpsIn
<1>3. QED
  BY <1>1, <1>2

\* each stage of an accepted request that is not over has its holder; "lost" is
\* what a SUBSCRIBE becomes that is taken for a QoS 0 message of the past
Kept ==
    \A o \in Ops :
        /\ stage[o] = "queued" => o \in OpsIn(commands)
        /\ stage[o] = "sending" => sendPc # "idle" /\ sendCmd.op = o
        /\ stage[o] = "waiting" => \E c \in Clients : o \in OpsIn(responses[c])
        /\ stage[o] = "lost" => "SUB" \in Kinds

KeepInv == OwnInv /\ Kept

\* A response that is reported leaves the other responses waiting.
LEMMA TakeKeeps ==
    ASSUME TypeInv, Kept, NEW c \in Clients, NEW r \in DOMAIN responses[c],
           responses' = [responses EXCEPT ![c] = Detach(@, r)],
           stage'[responses[c][r].op] \in {"done", "lost"},
           stage'[responses[c][r].op] = "lost" => "SUB" \in Kinds,
           \A o \in Ops : o # responses[c][r].op => stage'[o] = stage[o],
           UNCHANGED <<commands, sendPc, sendCmd>>
    PROVE  Kept'
<1> DEFINE x == responses[c][r].op
<1>1. responses \in [Clients -> Seq(Command)] /\ responses[c] \in Seq(Command)
  BY DEF TypeInv, TypeOK
<1>2. OpsIn(responses[c]) \subseteq OpsIn(responses'[c]) \cup {x}
  BY <1>1, OpsInLists
<1>3. \A d \in Clients : d # c => responses'[d] = responses[d]
  BY <1>1
<1>4. \A d \in Clients : OpsIn(responses[d]) \subseteq OpsIn(responses'[d]) \cup {x}
  BY <1>2, <1>3
<1> HIDE DEF x
<1>5. ASSUME NEW o \in Ops
      PROVE  /\ stage'[o] = "queued" => o \in OpsIn(commands')
             /\ stage'[o] = "sending" => sendPc' # "idle" /\ sendCmd'.op = o
             /\ stage'[o] = "waiting" => \E d \in Clients : o \in OpsIn(responses'[d])
             /\ stage'[o] = "lost" => "SUB" \in Kinds
  <2>1. CASE o = x
    BY <2>1 DEF x
  <2>2. CASE o # x
    BY <1>4, <2>2 DEF Kept, x
  <2>3. QED
    BY <2>1, <2>2
<1>6. QED
  BY <1>5 DEF Kept

\* Every step hands a request on or ends it.
LEMMA KeepStep == KeepInv /\ [Next]_vars => KeepInv'
<1> SUFFICES ASSUME KeepInv, [Next]_vars PROVE KeepInv'
  OBVIOUS
<1>0. /\ OwnInv' /\ OwnInv /\ TypeInv /\ Kept
      /\ commands \in Seq(Command) /\ responses \in [Clients -> Seq(Command)]
      /\ stage \in [Ops -> Stages]
  BY OwnStep DEF KeepInv, OwnInv, TypeInv, TypeOK
<1> USE CommandFields
<1>1. SUFFICES Kept'
  BY <1>0 DEF KeepInv
<1>2. CASE UNCHANGED <<commands, responses, sendPc, sendCmd, stage>>
  BY <1>0, <1>2 DEF Kept, OpsIn
<1>3. ASSUME NEW x \in Ops, NEW st \in {"calling", "rejected"},
             stage' = [stage EXCEPT ![x] = st],
             UNCHANGED <<commands, responses, sendPc, sendCmd>>
      PROVE  Kept'
  <2>1. \A o \in Ops : stage'[o] = IF o = x THEN st ELSE stage[o]
    BY <1>0, <1>3
  <2>2. QED
    BY <1>0, <1>3, <2>1 DEF Kept, OpsIn
<1>4. ASSUME NEW t \in Threads, NEW c \in Clients, NEW k \in Kinds, NEW o \in Ops,
             Call(t, c, k, o)
      PROVE  Kept'
  BY <1>3, <1>4 DEF Call, queueVars, clientVars, sendVars
<1>5. ASSUME NEW t \in Threads, AssignMsgId(t) \/ CheckBuffer(t) PROVE Kept'
  <2>1. cur[t] \in Command /\ UNCHANGED <<commands, responses, sendPc, sendCmd>>
    BY <1>0, <1>5 DEF AssignMsgId, CheckBuffer, TypeInv, queueVars, clientVars, sendVars
  <2>2. UNCHANGED stage \/ Refuse(t)
    BY <1>5 DEF AssignMsgId, CheckBuffer
  <2>3. QED
    BY <1>2, <1>3, <2>1, <2>2 DEF Refuse
<1>6. ASSUME NEW t \in Threads, AddCommand(t) PROVE Kept'
  <2> DEFINE x == cur[t]
             all == Append(commands, x)
  <2>1. x \in Command /\ x.op \in Ops /\ UNCHANGED <<responses, sendPc, sendCmd>>
    BY <1>0, <1>6 DEF AddCommand, TypeInv, clientVars, sendVars
  <2>2. all \in Seq(Command) /\ OpsIn(commands) \cup {x.op} \subseteq OpsIn(all)
    BY <1>0, <2>1, OpsInLists
  <2> HIDE DEF x
  <2>3. CASE commands' = all /\ stage' = [stage EXCEPT ![x.op] = "queued"]
    <3>1. \A o \in Ops : stage'[o] = IF o = x.op THEN "queued" ELSE stage[o]
      BY <1>0, <2>1, <2>3
    <3>2. QED
      BY <1>0, <2>1, <2>2, <2>3, <3>1 DEF Kept
  <2>4. ASSUME NEW n \in DOMAIN all, commands' = Detach(all, n),
               stage' = [stage EXCEPT ![x.op] = "queued", ![all[n].op] = "dropped"]
        PROVE  Kept'
    <3>1. all[n].op \in Ops /\ OpsIn(all) \subseteq OpsIn(commands') \cup {all[n].op}
      <4> HIDE DEF all
      <4>1. all[n] \in Command
        BY <2>2
      <4>2. OpsIn(all) \subseteq OpsIn(Detach(all, n)) \cup {all[n].op}
        BY <2>2, OpsInLists
      <4>3. QED
        BY <2>4, <4>1, <4>2
    <3> HIDE DEF all
    <3>2. \A o \in Ops : stage'[o] = IF o = all[n].op THEN "dropped"
                                     ELSE IF o = x.op THEN "queued" ELSE stage[o]
      BY <1>0, <2>1, <2>4, <3>1
    <3>3. QED
      BY <1>0, <2>1, <2>2, <3>1, <3>2 DEF Kept
  <2>5. QED
    BY <1>6, <2>3, <2>4 DEF AddCommand, IsFirst, x
<1>7. CASE Dequeue
  <2>1. PICK n \in DOMAIN commands :
          /\ sendCmd' = commands[n] /\ commands' = Detach(commands, n)
          /\ stage' = [stage EXCEPT ![commands[n].op] = "sending"]
    BY <1>7 DEF Dequeue, Candidates, IsFirst
  <2>2. /\ commands[n].op \in Ops
        /\ OpsIn(commands) \subseteq OpsIn(commands') \cup {commands[n].op}
    BY <1>0, <2>1, OpsInLists
  <2>3. sendPc = "idle" /\ sendPc' = "write" /\ UNCHANGED responses
    BY <1>7 DEF Dequeue, clientVars
  <2>4. \A o \in Ops : stage'[o] = IF o = commands[n].op THEN "sending" ELSE stage[o]
    BY <1>0, <2>1, <2>2
  <2>5. QED
    BY <1>0, <2>1, <2>2, <2>3, <2>4 DEF Kept
<1>8. ASSUME NEW rc, WritePacket(rc) PROVE Kept'
  BY <1>0, <1>8 DEF WritePacket, Kept, queueVars
<1>9. CASE FlagPendingWrite
  BY <1>0, <1>9 DEF FlagPendingWrite, Kept, queueVars, histVars
<1>10. CASE FinishCommand
  <2>1. /\ sendCmd \in Command /\ sendCmd.op \in Ops /\ sendCmd.client \in Clients
        /\ sendPc' = "idle" /\ UNCHANGED commands /\ sendPc = "finish"
    BY <1>0, <1>10 DEF FinishCommand, TypeInv, queueVars
  <2>2. \A o \in Ops : stage[o] = "sending" => o = sendCmd.op
    BY <1>0 DEF Kept
  <2>3. CASE UNCHANGED responses /\ stage' = [stage EXCEPT ![sendCmd.op] = "done"]
    <3>1. \A o \in Ops : stage'[o] = IF o = sendCmd.op THEN "done" ELSE stage[o]
      BY <1>0, <2>1, <2>3
    <3>2. QED
      BY <1>0, <2>1, <2>2, <2>3, <3>1 DEF Kept, OpsIn
  <2>4. CASE /\ responses' = [responses EXCEPT ![sendCmd.client] = Append(@, sendCmd)]
             /\ stage' = [stage EXCEPT ![sendCmd.op] = "waiting"]
    <3>1. \A o \in Ops : stage'[o] = IF o = sendCmd.op THEN "waiting" ELSE stage[o]
      BY <1>0, <2>1, <2>4
    <3>2. /\ responses[sendCmd.client] \in Seq(Command)
          /\ responses'[sendCmd.client] = Append(responses[sendCmd.client], sendCmd)
          /\ \A d \in Clients : d # sendCmd.client => responses'[d] = responses[d]
      BY <1>0, <2>1, <2>4
    <3>3. OpsIn(responses[sendCmd.client]) \cup {sendCmd.op} \subseteq
            OpsIn(responses'[sendCmd.client])
      BY <2>1, <3>2, OpsInLists
    <3>4. /\ sendCmd.op \in OpsIn(responses'[sendCmd.client])
          /\ \A d \in Clients : OpsIn(responses[d]) \subseteq OpsIn(responses'[d])
      BY <3>2, <3>3
    <3>5. QED
      BY <1>0, <2>1, <2>2, <3>1, <3>4 DEF Kept
  <2>5. QED
    BY <1>10, <2>3, <2>4 DEF FinishCommand, CallBack
<1>11. ASSUME NEW c \in Clients, NEW r \in DOMAIN responses[c], NEW ok \in BOOLEAN,
              CallBack(responses[c][r].op, ok),
              responses' = [responses EXCEPT ![c] = Detach(@, r)],
              UNCHANGED <<commands, sendPc, sendCmd>>
       PROVE  Kept'
  <2>1. responses[c][r].op \in Ops
    BY <1>0
  <2>2. /\ stage'[responses[c][r].op] \in {"done", "lost"}
        /\ stage'[responses[c][r].op] = "lost" => "SUB" \in Kinds
        /\ \A o \in Ops : o # responses[c][r].op => stage'[o] = stage[o]
    BY <1>0, <1>11, <2>1 DEF CallBack
  <2>3. QED
    BY <1>0, <1>11, <2>2, TakeKeeps
<1>12. ASSUME NEW c \in Clients, NEW ok \in BOOLEAN, WriteComplete(c, ok) PROVE Kept'
  <2>1. UNCHANGED <<commands, sendPc, sendCmd>>
    BY <1>12 DEF WriteComplete, queueVars, sendVars
  <2>2. ASSUME NEW n \in DOMAIN responses[c], responses[c][n].kind = "SUB",
               responses' = [responses EXCEPT ![c] = Detach(@, n)],
               stage' = [stage EXCEPT ![responses[c][n].op] = "lost"]
        PROVE  Kept'
    <3>1. responses[c][n] \in Command
      BY <1>0
    <3>2. "SUB" \in Kinds /\ responses[c][n].op \in Ops
      BY <2>2, <3>1
    <3>3. stage'[responses[c][n].op] = "lost"
          /\ \A o \in Ops : o # responses[c][n].op => stage'[o] = stage[o]
      BY <1>0, <2>2, <3>2
    <3>4. QED
      BY <1>0, <2>1, <2>2, <3>2, <3>3, TakeKeeps
  <2>3. CASE UNCHANGED <<responses, stage>>
    BY <1>2, <2>1, <2>3
  <2>4. QED
    BY <1>11, <1>12, <2>1, <2>2, <2>3 DEF WriteComplete
<1>13. ASSUME NEW c \in Clients, NEW n \in DOMAIN owed[c], NEW ok \in BOOLEAN,
              Acknowledge(c, n, ok)
       PROVE  Kept'
  <2>1. UNCHANGED <<commands, sendPc, sendCmd>>
    BY <1>13 DEF Acknowledge, queueVars, sendVars
  <2>2. QED
    BY <1>2, <1>11, <1>13, <2>1 DEF Acknowledge, IsFirst, WithToken
<1>14. ASSUME NEW c \in Clients, CleanUp(c), UNCHANGED <<commands, sendPc, sendCmd>>
       PROVE  Kept'
  <2>1. \A o \in Ops : stage'[o] = IF o \in OpsIn(responses[c]) THEN "done" ELSE stage[o]
    BY <1>14 DEF CleanUp
  <2>2. \A d \in Clients : d # c => responses'[d] = responses[d]
    BY <1>0, <1>14 DEF CleanUp
  <2>3. QED
    BY <1>0, <1>14, <2>1, <2>2 DEF Kept
<1>15. ASSUME NEW c \in Clients, ConnectionStep(c) PROVE Kept'
  <2>1. UNCHANGED <<commands, sendPc, sendCmd>>
    BY <1>15 DEF ConnectionStep, ConnectionUp, ConnectionDown, StartDisconnect,
                 queueVars, sendVars
  <2>2. CleanUp(c) \/ UNCHANGED <<responses, stage>>
    BY <1>15 DEF ConnectionStep, ConnectionUp, ConnectionDown, StartDisconnect,
                 KeepSession, clientVars, histVars
  <2>3. QED
    BY <1>2, <1>14, <2>1, <2>2
<1>16. CASE UNCHANGED vars
  BY <1>2, <1>16 DEF vars, queueVars, clientVars, sendVars, histVars
<1>17. QED
  BY <1>4, <1>5, <1>6, <1>7, <1>8, <1>9, <1>10, <1>12, <1>13, <1>15, <1>16
  DEF Next, AppStep, SendStep, ReceiveStep

\* The invariant holds at the start, before the first request.
LEMMA KeepInit == Init => KeepInv
<1>1. Init => Kept
  BY DEF Init, Kept
<1>2. QED
  BY <1>1, OwnInit DEF KeepInv

\* An application that only publishes, with any number of threads and clients:
\* every message the library has accepted is held by it until it is reported or
\* makes room for a newer one.  (A SUBSCRIBE may be lost, see WriteComplete.)
THEOREM NoPublishForgotten ==
    ASSUME "SUB" \notin Kinds
    PROVE  Spec => []NothingForgotten
<1>1. KeepInv => NothingForgotten
  <2> SUFFICES ASSUME KeepInv, NEW o \in Ops, Accepted(o), ~Held(o), stage[o] # "dropped"
               PROVE  calls[o] > 0
    BY DEF NothingForgotten
  <2>1. stage[o] \in Stages
    BY DEF KeepInv, OwnInv, TypeInv, TypeOK
  <2>2. stage[o] = "done"
    BY <2>1 DEF KeepInv, Kept, Held, Accepted, Stages
  <2>3. QED
    BY <2>2 DEF KeepInv, OwnInv, CountOwn
<1>2. QED
  BY <1>1, KeepInit, KeepStep, PTL DEF Spec

----------------------------------------------------------------------------
(* Applications with one thread *)

\* Two threads may be between the check of the buffer and the insertion, or
\* between the choice of a message id and the insertion, at the same time, and
\* what follows is not true of them.
OneThread == \A t, u \in Threads : t = u

\* the thread that found room in the buffer still has it
RoomInv ==
    /\ TypeInv
    /\ NoAcceptedMessageDeleted
    /\ \A t \in Threads : pc[t] = "add" /\ IsPublish(cur[t]) /\ ~DeleteOldest =>
         noBuffered[cur[t].client] < MaxBuffered

\* The send thread only makes more room.
LEMMA RoomStep == OneThread /\ RoomInv /\ [Next]_vars => RoomInv'
<1> SUFFICES ASSUME OneThread, RoomInv, [Next]_vars PROVE RoomInv'
  OBVIOUS
<1>0. /\ TypeInv /\ TypeInv' /\ commands \in Seq(Command)
      /\ stage \in [Ops -> Stages] /\ noBuffered \in [Clients -> Int]
      /\ pc \in [Threads -> {"idle", "assign", "check", "add"}]
      /\ cur \in [Threads -> Command \cup {NoCommand}]
  BY TypeStep DEF RoomInv, TypeInv, TypeOK
<1> USE CommandFields
<1>1. SUFFICES ASSUME ~DeleteOldest
               PROVE  /\ \A o \in Ops : stage'[o] # "dropped"
                      /\ \A t \in Threads : pc'[t] = "add" /\ IsPublish(cur'[t]) =>
                           noBuffered'[cur'[t].client] < MaxBuffered
  BY <1>0 DEF RoomInv, NoAcceptedMessageDeleted, IsPublish
<1>2. /\ \A o \in Ops : stage[o] # "dropped"
      /\ \A t \in Threads : pc[t] = "add" /\ IsPublish(cur[t]) =>
           noBuffered[cur[t].client] < MaxBuffered
  BY <1>1 DEF RoomInv, NoAcceptedMessageDeleted
<1> DEFINE Goal == /\ \A o \in Ops : stage'[o] # "dropped"
                   /\ \A t \in Threads : pc'[t] = "add" /\ IsPublish(cur'[t]) =>
                        noBuffered'[cur'[t].client] < MaxBuffered
<1>3. ASSUME UNCHANGED <<pc, cur, noBuffered>>, \A o \in Ops : stage'[o] # "dropped"
      PROVE  Goal
  BY <1>2, <1>3 DEF IsPublish
<1>4. ASSUME NEW t \in Threads, NEW c \in Clients, NEW k \in Kinds, NEW o \in Ops,
             Call(t, c, k, o)
      PROVE  Goal
  <2>1. pc'[t] # "add" /\ \A p \in Ops : stage'[p] = stage[p] \/ stage'[p] = "calling"
    BY <1>0, <1>4 DEF Call
  <2>2. QED
    BY <1>2, <2>1 DEF OneThread
<1>5. ASSUME NEW t \in Threads, Refuse(t), cur[t] \in Command PROVE Goal
  <2>1. pc'[t] # "add" /\ \A p \in Ops : stage'[p] = stage[p] \/ stage'[p] = "rejected"
    BY <1>0, <1>5 DEF Refuse
  <2>2. QED
    BY <1>2, <2>1 DEF OneThread
<1>6. ASSUME NEW t \in Threads, AssignMsgId(t) PROVE Goal
  <2>1. cur[t] \in Command
    BY <1>0, <1>6 DEF AssignMsgId, TypeInv
  <2>2. CASE UNCHANGED <<pc, cur, stage>>
    BY <1>2, <1>3, <1>6, <2>2 DEF AssignMsgId, queueVars
  <2>3. ASSUME NEW i \in FreeIds(cur[t].client), cur' = [cur EXCEPT ![t].token = i],
               pc' = [pc EXCEPT ![t] = IF IsPublish(cur[t]) THEN "check" ELSE "add"],
               UNCHANGED stage
        PROVE  Goal
    <3>1. cur'[t] = [cur[t] EXCEPT !.token = i]
      BY <1>0, <2>3
    <3>2. cur'[t].kind = cur[t].kind
      BY <2>1, <3>1 DEF Command
    <3>3. pc'[t] = "add" => ~IsPublish(cur'[t])
      BY <1>0, <2>3, <3>2 DEF IsPublish
    <3>4. QED
      BY <1>2, <2>3, <3>3 DEF OneThread
  <2>4. QED
    BY <1>5, <1>6, <2>1, <2>2, <2>3 DEF AssignMsgId, appVars
<1>7. ASSUME NEW t \in Threads, CheckBuffer(t) PROVE Goal
  <2>1. cur[t] \in Command
    BY <1>0, <1>7 DEF CheckBuffer, TypeInv
  <2>2. CASE /\ noBuffered[cur[t].client] < MaxBuffered /\ UNCHANGED <<cur, stage>>
    BY <1>2, <1>7, <2>2 DEF CheckBuffer, queueVars, OneThread
  <2>3. QED
    BY <1>1, <1>5, <1>7, <2>1, <2>2 DEF CheckBuffer
<1>8. ASSUME NEW t \in Threads, AddCommand(t) PROVE Goal
  <2>1. cur[t] \in Command /\ pc'[t] = "idle" /\ pc[t] = "add"
    BY <1>0, <1>8 DEF AddCommand, TypeInv
  <2>2. IsPublish(cur[t]) => ~(noBuffered[cur[t].client] >= MaxBuffered)
    BY <1>0, <1>2, <2>1, LimitsAssumption
  <2>3. stage' = [stage EXCEPT ![cur[t].op] = "queued"]
    BY <1>8, <2>2 DEF AddCommand
  <2>4. \A o \in Ops : stage'[o] # "dropped"
    BY <1>0, <1>2, <2>1, <2>3
  <2>5. QED
    BY <2>1, <2>4 DEF OneThread
<1>9. CASE Dequeue
  <2>1. PICK n \in DOMAIN commands :
          /\ noBuffered' = Unbuffer(commands[n])
          /\ stage' = [stage EXCEPT ![commands[n].op] = "sending"]
    BY <1>9 DEF Dequeue, Candidates, IsFirst
  <2>2. UNCHANGED <<pc, cur>>
    BY <1>9 DEF Dequeue, appVars
  <2>3. commands[n] \in Command
    BY <1>0
  <2>4. /\ \A d \in Clients : noBuffered'[d] \in Int /\ noBuffered'[d] <= noBuffered[d]
        /\ \A o \in Ops : stage'[o] # "dropped"
    BY <1>0, <1>2, <2>1, <2>3 DEF Unbuffer
  <2>5. \A t \in Threads : pc[t] # "idle" => cur[t].client \in Clients
    BY <1>0 DEF TypeInv
  <2>6. QED
    BY <1>0, <1>2, <2>2, <2>4, <2>5, LimitsAssumption
<1>10. CASE FlagPendingWrite \/ \E rc \in {"COMPLETE", "INTERRUPTED", "SOCKET_ERROR"} : WritePacket(rc)
  BY <1>2, <1>3, <1>10 DEF FlagPendingWrite, WritePacket, queueVars, appVars, histVars
<1>11. CASE FinishCommand
  <2>1. sendCmd \in Command /\ UNCHANGED <<pc, cur, noBuffered>>
    BY <1>0, <1>11 DEF FinishCommand, TypeInv, appVars, queueVars
  <2>2. \A o \in Ops : stage'[o] # "dropped"
    BY <1>0, <1>2, <1>11, <2>1 DEF FinishCommand, CallBack
  <2>3. QED
    BY <1>3, <2>1, <2>2
<1>12. ASSUME NEW c \in Clients, ReceiveStep(c) PROVE Goal
  <2>1. UNCHANGED <<pc, cur, noBuffered>>
    BY <1>12 DEF ReceiveStep, WriteComplete, Acknowledge, appVars, queueVars
  <2>2. ASSUME NEW x, NEW st \in {"done", "lost"}, stage' = [stage EXCEPT ![x] = st]
        PROVE  Goal
    BY <1>0, <1>2, <1>3, <2>1, <2>2
  <2>3. ASSUME NEW x, NEW ok, CallBack(x, ok) PROVE Goal
    BY <2>2, <2>3 DEF CallBack
  <2>4. CASE UNCHANGED stage
    BY <1>2, <1>3, <2>1, <2>4
  <2> HIDE DEF Goal
  <2>5. ASSUME NEW ok \in BOOLEAN, WriteComplete(c, ok) PROVE Goal
    BY <2>2, <2>3, <2>4, <2>5 DEF WriteComplete
  <2>6. ASSUME NEW n \in DOMAIN owed[c], NEW ok \in BOOLEAN, Acknowledge(c, n, ok)
        PROVE  Goal
    BY <2>3, <2>4, <2>6 DEF Acknowledge
  <2>7. QED
    BY <1>12, <2>5, <2>6 DEF ReceiveStep
<1>13. ASSUME NEW c \in Clients, ConnectionStep(c) PROVE Goal
  <2>1. UNCHANGED <<pc, cur, noBuffered>>
    BY <1>13 DEF ConnectionStep, ConnectionUp, ConnectionDown, StartDisconnect, appVars, queueVars
  <2>2. CleanUp(c) \/ UNCHANGED stage
    BY <1>13 DEF ConnectionStep, ConnectionUp, ConnectionDown, StartDisconnect, KeepSession, histVars
  <2>3. \A o \in Ops : stage'[o] # "dropped"
    BY <1>2, <2>2 DEF CleanUp
  <2>4. QED
    BY <1>3, <2>1, <2>3
<1>14. CASE UNCHANGED vars
  BY <1>2, <1>3, <1>14 DEF vars, queueVars, appVars, histVars
<1>15. QED
  BY <1>4, <1>6, <1>7, <1>8, <1>9, <1>10, <1>11, <1>12, <1>13, <1>14
  DEF Next, AppStep, SendStep

\* With one application thread, a message that was accepted is never deleted
\* unless deleteOldestMessages asks for it.
THEOREM AcceptedNotDeleted ==
    ASSUME OneThread
    PROVE  Spec => []NoAcceptedMessageDeleted
<1>1. Init => RoomInv
  <2>1. Init => /\ NoAcceptedMessageDeleted
                /\ \A t \in Threads : pc[t] # "add"
    BY DEF Init, NoAcceptedMessageDeleted
  <2>2. QED
    BY <2>1, TypeInit DEF RoomInv
<1>2. RoomInv /\ [Next]_vars => RoomInv'
  BY RoomStep
<1>3. RoomInv => NoAcceptedMessageDeleted
  BY DEF RoomInv
<1>4. QED
  BY <1>1, <1>2, <1>3, PTL DEF Spec

----------------------------------------------------------------------------
(* Message ids *)

Items(s) == {s[n] : n \in DOMAIN s}

\* What ListDetach and ListAppend do to the items of a list.
LEMMA ItemsInLists ==
    ASSUME NEW s \in Seq(Command)
    PROVE  /\ Items(s) \subseteq Command
           /\ \A n \in DOMAIN s : /\ Items(Detach(s, n)) \subseteq Items(s)
                                  /\ Items(s) \subseteq Items(Detach(s, n)) \cup {s[n]}
           /\ \A x \in Command : Items(Append(s, x)) = Items(s) \cup {x}
<1>1. Items(s) \subseteq Command
  BY DEF Items
<1>2. ASSUME NEW n \in DOMAIN s
      PROVE  /\ Items(Detach(s, n)) \subseteq Items(s)
             /\ Items(s) \subseteq Items(Detach(s, n)) \cup {s[n]}
  BY DetachItems DEF Items
<1>3. ASSUME NEW x \in Command PROVE Items(Append(s, x)) = Items(s) \cup {x}
  <2> DEFINE a == Append(s, x)
             l == Len(s) + 1
  <2>1. /\ \A i \in DOMAIN s : i \in DOMAIN a /\ a[i] = s[i]
        /\ \A i \in DOMAIN a : i \in DOMAIN s \/ i = l
        /\ a[l] = x /\ l \in DOMAIN a
    OBVIOUS
  <2> HIDE DEF a, l
  <2>2. Items(a) = Items(s) \cup {x}
    BY <2>1 DEF Items
  <2>3. QED
    BY <2>2 DEF a
<1>4. QED
  BY <1>1, <1>2, <1>3

\* Who owns a message id of a client.
LEMMA OwnersAre ==
    ASSUME NEW c, NEW r
    PROVE  r \in Owners(c) <=>
             \/ r \in Items(commands) /\ r.client = c
             \/ sendPc # "idle" /\ sendCmd.client = c /\ r = sendCmd
             \/ r \in Items(outbound[c])
             \/ r \in Items(responses[c])
BY DEF Owners, Items

\* The same in the next state.
LEMMA OwnersWillBe ==
    ASSUME NEW c, NEW r
    PROVE  r \in Owners(c)' <=>
             \/ r \in Items(commands') /\ r.client = c
             \/ sendPc' # "idle" /\ sendCmd'.client = c /\ r = sendCmd'
             \/ r \in Items(outbound'[c])
             \/ r \in Items(responses'[c])
BY DEF Owners, Items

\* Only addCommand makes a request the owner of an id.  Every other step hands
\* the request on or lets it go.
LEMMA OwnersStep ==
    ASSUME TypeInv, [Next]_vars, \A t \in Threads : ~AddCommand(t), NEW c \in Clients
    PROVE  Owners(c)' \subseteq Owners(c)
<1>0. /\ commands \in Seq(Command) /\ outbound \in [Clients -> Seq(Command)]
      /\ responses \in [Clients -> Seq(Command)]
  BY DEF TypeInv, TypeOK
<1> USE CommandFields
<1>1. ASSUME Items(commands') \subseteq Items(commands),
             Items(outbound'[c]) \subseteq Items(outbound[c]),
             Items(responses'[c]) \subseteq Items(responses[c]),
             sendPc' # "idle" => sendPc # "idle" /\ sendCmd' = sendCmd
      PROVE  Owners(c)' \subseteq Owners(c)
  BY <1>1, OwnersAre, OwnersWillBe
<1>2. ASSUME UNCHANGED <<commands, sendPc, sendCmd>>,
             outbound'[c] = outbound[c]
               \/ \E n \in DOMAIN outbound[c] : outbound'[c] = Detach(outbound[c], n)
               \/ outbound'[c] = <<>>,
             responses'[c] = responses[c]
               \/ \E n \in DOMAIN responses[c] : responses'[c] = Detach(responses[c], n)
               \/ responses'[c] = <<>>
      PROVE  Owners(c)' \subseteq Owners(c)
  <2>1. Items(<<>>) = {}
    BY DEF Items
  <2>2. Items(outbound'[c]) \subseteq Items(outbound[c])
    BY <1>0, <1>2, <2>1, ItemsInLists
  <2>3. Items(responses'[c]) \subseteq Items(responses[c])
    BY <1>0, <1>2, <2>1, ItemsInLists
  <2>4. QED
    BY <1>1, <1>2, <2>2, <2>3
<1>3. CASE UNCHANGED <<commands, outbound, responses, sendPc, sendCmd>>
  BY <1>1, <1>3
<1>4. CASE Dequeue
  <2>1. PICK n \in DOMAIN commands : sendCmd' = commands[n] /\ commands' = Detach(commands, n)
    BY <1>4 DEF Dequeue, Candidates, IsFirst
  <2>2. UNCHANGED <<outbound, responses>> /\ sendPc' = "write"
    BY <1>4 DEF Dequeue, clientVars
  <2>3. Items(commands') \subseteq Items(commands) /\ sendCmd' \in Items(commands)
    <3>1. Items(Detach(commands, n)) \subseteq Items(commands)
      BY <1>0, ItemsInLists
    <3>2. commands[n] \in Items(commands)
      BY DEF Items
    <3>3. QED
      BY <2>1, <3>1, <3>2
  <2>4. ASSUME NEW r \in Owners(c)' PROVE r \in Owners(c)
    <3>1. \/ r \in Items(commands) /\ r.client = c
          \/ r \in Items(outbound[c]) \/ r \in Items(responses[c])
      BY <2>2, <2>3, OwnersWillBe
    <3>2. QED
      BY <3>1, OwnersAre
  <2>5. QED
    BY <2>4
<1>5. ASSUME NEW rc, WritePacket(rc) PROVE Owners(c)' \subseteq Owners(c)
  <2>1. /\ sendCmd \in Command /\ sendPc # "idle" /\ UNCHANGED <<commands, sendCmd, responses>>
        /\ outbound' = outbound \/ outbound' = [outbound EXCEPT ![sendCmd.client] = Append(@, sendCmd)]
    BY <1>5 DEF WritePacket, TypeInv, queueVars
  <2>2. Items(outbound'[c]) \subseteq Items(outbound[c])
          \cup (IF sendCmd.client = c THEN {sendCmd} ELSE {})
    <3>1. CASE outbound' = outbound
      BY <3>1
    <3>2. CASE outbound' = [outbound EXCEPT ![sendCmd.client] = Append(@, sendCmd)]
      <4>1. outbound'[c] = IF sendCmd.client = c THEN Append(outbound[c], sendCmd) ELSE outbound[c]
        BY <1>0, <2>1, <3>2
      <4>2. outbound[c] \in Seq(Command)
        BY <1>0
      <4>3. Items(Append(outbound[c], sendCmd)) = Items(outbound[c]) \cup {sendCmd}
        BY <2>1, <4>2, ItemsInLists
      <4>4. QED
        BY <4>1, <4>3
    <3>3. QED
      BY <2>1, <3>1, <3>2
  <2>3. QED
    BY <2>1, <2>2, OwnersAre, OwnersWillBe
<1>6. CASE FinishCommand
  <2>1. /\ sendCmd \in Command /\ sendPc # "idle" /\ UNCHANGED <<commands, outbound>>
        /\ sendPc' = "idle"
        /\ \/ responses' = responses
           \/ responses' = [responses EXCEPT ![sendCmd.client] = Append(@, sendCmd)]
    BY <1>6 DEF FinishCommand, TypeInv, queueVars
  <2>2. Items(responses'[c]) \subseteq Items(responses[c])
          \cup (IF sendCmd.client = c THEN {sendCmd} ELSE {})
    <3>1. CASE responses' = responses
      BY <3>1
    <3>2. CASE responses' = [responses EXCEPT ![sendCmd.client] = Append(@, sendCmd)]
      <4>1. responses'[c] = IF sendCmd.client = c THEN Append(responses[c], sendCmd) ELSE responses[c]
        BY <1>0, <2>1, <3>2
      <4>2. responses[c] \in Seq(Command)
        BY <1>0
      <4>3. Items(Append(responses[c], sendCmd)) = Items(responses[c]) \cup {sendCmd}
        BY <2>1, <4>2, ItemsInLists
      <4>4. QED
        BY <4>1, <4>3
    <3>3. QED
      BY <2>1, <3>1, <3>2
  <2>3. QED
    BY <2>1, <2>2, OwnersAre, OwnersWillBe
<1>7. ASSUME NEW d \in Clients, NEW ok \in BOOLEAN, WriteComplete(d, ok)
      PROVE  Owners(c)' \subseteq Owners(c)
  <2>1. UNCHANGED <<commands, outbound, sendPc, sendCmd>>
    BY <1>7 DEF WriteComplete, queueVars, sendVars
  <2>2. UNCHANGED responses \/ \E n \in DOMAIN responses[d] :
                                 responses' = [responses EXCEPT ![d] = Detach(@, n)]
    BY <1>7 DEF WriteComplete
  <2>3. responses'[c] = responses[c]
          \/ \E n \in DOMAIN responses[c] : responses'[c] = Detach(responses[c], n)
    BY <1>0, <2>2
  <2>4. QED
    BY <1>2, <2>1, <2>3
<1>8. ASSUME NEW d \in Clients, NEW k \in DOMAIN owed[d], NEW ok \in BOOLEAN,
             Acknowledge(d, k, ok)
      PROVE  Owners(c)' \subseteq Owners(c)
  <2>1. UNCHANGED <<commands, sendPc, sendCmd>>
    BY <1>8 DEF Acknowledge, queueVars, sendVars
  <2>2. /\ UNCHANGED responses \/ \E n \in DOMAIN responses[d] :
                                    responses' = [responses EXCEPT ![d] = Detach(@, n)]
        /\ UNCHANGED outbound \/ \E n \in DOMAIN outbound[d] :
                                    outbound' = [outbound EXCEPT ![d] = Detach(@, n)]
    BY <1>8 DEF Acknowledge, IsFirst, WithToken
  <2>3. responses'[c] = responses[c]
          \/ \E n \in DOMAIN responses[c] : responses'[c] = Detach(responses[c], n)
    BY <1>0, <2>2
  <2>4. outbound'[c] = outbound[c]
          \/ \E n \in DOMAIN outbound[c] : outbound'[c] = Detach(outbound[c], n)
    BY <1>0, <2>2
  <2>5. QED
    BY <1>2, <2>1, <2>3, <2>4
<1>9. ASSUME NEW d \in Clients, ConnectionStep(d) PROVE Owners(c)' \subseteq Owners(c)
  <2>1. UNCHANGED <<commands, sendPc, sendCmd>>
    BY <1>9 DEF ConnectionStep, ConnectionUp, ConnectionDown, StartDisconnect, queueVars, sendVars
  <2>2. CleanUp(d) \/ UNCHANGED <<outbound, responses>>
    BY <1>9 DEF ConnectionStep, ConnectionUp, ConnectionDown, StartDisconnect, KeepSession, clientVars
  <2>3. outbound'[c] = outbound[c] \/ outbound'[c] = <<>>
    BY <1>0, <2>2 DEF CleanUp
  <2>4. responses'[c] = responses[c] \/ responses'[c] = <<>>
    BY <1>0, <2>2 DEF CleanUp
  <2>5. Items(<<>>) = {}
    BY DEF Items
  <2>6. QED
    BY <1>1, <2>1, <2>3, <2>4, <2>5
<1>10. ASSUME NEW t \in Threads, AssignMsgId(t) \/ CheckBuffer(t)
       PROVE  Owners(c)' \subseteq Owners(c)
  BY <1>3, <1>10 DEF AssignMsgId, CheckBuffer, queueVars, clientVars, sendVars
<1>11. ASSUME NEW t \in Threads, NEW d \in Clients, NEW k \in Kinds, NEW o \in Ops,
              Call(t, d, k, o)
       PROVE  Owners(c)' \subseteq Owners(c)
  BY <1>3, <1>11 DEF Call, queueVars, clientVars, sendVars
<1>12. CASE FlagPendingWrite
  BY <1>1, <1>12 DEF FlagPendingWrite, queueVars
<1>13. CASE UNCHANGED vars
  BY <1>3, <1>13 DEF vars, queueVars, clientVars, sendVars
<1>14. QED
  BY <1>4, <1>5, <1>6, <1>7, <1>8, <1>9, <1>10, <1>11, <1>12, <1>13
  DEF Next, AppStep, SendStep, ReceiveStep

\* every owner's id is its own, also with regard to the request being built
TokenInv ==
    /\ OwnInv
    /\ \A c \in Clients : \A r \in Owners(c) :
         /\ r.kind # "PUB0" => r.token # 0
         /\ \A s \in Owners(c) : r.token # 0 /\ r.token = s.token => r.op = s.op
    /\ \A t \in Threads : pc[t] \in {"check", "add"} =>
         /\ cur[t].kind # "PUB0" => cur[t].token # 0
         /\ \A c \in Clients : cur[t].client = c /\ cur[t].token # 0 =>
              \A r \in Owners(c) : r.token # cur[t].token

\* An id that assignMsgId finds free is no owner's: mqttasync_mutex keeps the send
\* thread, whose command is in no list, out.
LEMMA FreeIdsFree ==
    ASSUME Unlocked, NEW c \in Clients, NEW i \in FreeIds(c), NEW r \in Owners(c)
    PROVE  r.token # i
BY OwnersAre DEF Unlocked, FreeIds, InUse, WithToken, Items

\* With one thread the ids of the owners stay different.
LEMMA TokenStep == OneThread /\ TokenInv /\ [Next]_vars => TokenInv'
<1> SUFFICES ASSUME OneThread, TokenInv, [Next]_vars PROVE TokenInv'
  OBVIOUS
<1>0. /\ OwnInv /\ OwnInv' /\ TypeInv /\ commands \in Seq(Command)
      /\ pc \in [Threads -> {"idle", "assign", "check", "add"}]
      /\ cur \in [Threads -> Command \cup {NoCommand}]
      /\ outbound \in [Clients -> Seq(Command)] /\ responses \in [Clients -> Seq(Command)]
  BY OwnStep DEF TokenInv, OwnInv, TypeInv, TypeOK
<1> USE CommandFields
<1>1. ASSUME NEW t \in Threads, AddCommand(t) PROVE TokenInv'
  <2> DEFINE x == cur[t]
             all == Append(commands, x)
  <2>1. /\ x \in Command /\ pc[t] = "add" /\ pc'[t] = "idle"
        /\ UNCHANGED <<outbound, responses, sendPc, sendCmd>>
    BY <1>0, <1>1 DEF AddCommand, TypeInv, clientVars, sendVars
  <2>2. all \in Seq(Command) /\ Items(all) = Items(commands) \cup {x}
    BY <1>0, <2>1, ItemsInLists
  <2>3. Items(commands') \subseteq Items(commands) \cup {x}
    <3>1. commands' = all \/ \E n \in DOMAIN all : commands' = Detach(all, n)
      BY <1>1 DEF AddCommand, IsFirst
    <3> HIDE DEF all
    <3>2. \A n \in DOMAIN all : Items(Detach(all, n)) \subseteq Items(all)
      BY <2>2, ItemsInLists
    <3>3. QED
      BY <2>2, <3>1, <3>2
  <2> HIDE DEF x
  <2>4. ASSUME NEW c \in Clients, NEW r \in Owners(c)'
        PROVE  r \in Owners(c) \/ (r = x /\ x.client = c)
    <3>1. \/ r \in Items(commands) /\ r.client = c
          \/ r = x /\ x.client = c
          \/ sendPc # "idle" /\ sendCmd.client = c /\ r = sendCmd
          \/ r \in Items(outbound[c])
          \/ r \in Items(responses[c])
      BY <2>1, <2>3, OwnersWillBe
    <3>2. QED
      BY <3>1, OwnersAre
  <2>5. /\ x.kind # "PUB0" => x.token # 0
        /\ \A c \in Clients : x.client = c /\ x.token # 0 =>
             \A r \in Owners(c) : r.token # x.token
    BY <2>1 DEF TokenInv, x
  <2>6. ASSUME NEW c \in Clients, NEW r \in Owners(c)'
        PROVE  /\ r.kind # "PUB0" => r.token # 0
               /\ \A s \in Owners(c)' : r.token # 0 /\ r.token = s.token => r.op = s.op
    BY <2>4, <2>5 DEF TokenInv
  <2>7. \A u \in Threads : pc'[u] \notin {"check", "add"}
    BY <2>1 DEF OneThread
  <2>8. QED
    BY <1>0, <2>6, <2>7 DEF TokenInv
<1>2. ASSUME \A t \in Threads : ~AddCommand(t) PROVE TokenInv'
  <2>1. \A c \in Clients : Owners(c)' \subseteq Owners(c)
    BY <1>0, <1>2, OwnersStep
  <2>2. ASSUME NEW c \in Clients, NEW r \in Owners(c)'
        PROVE  /\ r.kind # "PUB0" => r.token # 0
               /\ \A s \in Owners(c)' : r.token # 0 /\ r.token = s.token => r.op = s.op
    BY <2>1 DEF TokenInv
  <2>3. ASSUME NEW t \in Threads, pc'[t] \in {"check", "add"}
        PROVE  /\ cur'[t].kind # "PUB0" => cur'[t].token # 0
               /\ \A c \in Clients : cur'[t].client = c /\ cur'[t].token # 0 =>
                    \A r \in Owners(c)' : r.token # cur'[t].token
    <3>1. CASE pc[t] \in {"check", "add"} /\ cur'[t] = cur[t]
      BY <2>1, <3>1 DEF TokenInv
    <3>2. ASSUME NEW u \in Threads, AssignMsgId(u)
          PROVE  /\ cur'[t].kind # "PUB0" => cur'[t].token # 0
                 /\ \A c \in Clients : cur'[t].client = c /\ cur'[t].token # 0 =>
                      \A r \in Owners(c)' : r.token # cur'[t].token
      <4>1. u = t /\ cur[t] \in Command /\ pc[t] = "assign" /\ Unlocked
        BY <1>0, <3>2 DEF OneThread, AssignMsgId, TypeInv
      <4>2. PICK i \in FreeIds(cur[t].client) : cur' = [cur EXCEPT ![t].token = i]
        BY <1>0, <2>3, <3>2, <4>1 DEF AssignMsgId, Refuse, appVars
      <4>3. cur'[t] = [cur[t] EXCEPT !.token = i]
        BY <1>0, <4>2
      <4>4. cur'[t].token = i /\ cur'[t].client = cur[t].client /\ i # 0
        BY <4>1, <4>3 DEF Command, FreeIds
      <4>5. \A r \in Owners(cur[t].client) : r.token # i
        BY <4>1, FreeIdsFree
      <4>6. QED
        BY <2>1, <4>4, <4>5
    <3>3. ASSUME NEW u \in Threads, NEW c \in Clients, NEW k \in Kinds, NEW o \in Ops,
                 Call(u, c, k, o)
          PROVE  cur'[t].token = 0 /\ cur'[t].kind = "PUB0"
      <4>1. u = t
        BY DEF OneThread
      <4>2. cur'[t] = [client |-> c, kind |-> k, token |-> 0, op |-> o] /\ k = "PUB0"
        BY <1>0, <2>3, <3>3, <4>1 DEF Call
      <4>3. QED
        BY <4>2
    <3>4. ASSUME NEW u \in Threads, CheckBuffer(u)
          PROVE  pc[t] \in {"check", "add"} /\ cur'[t] = cur[t]
      <4>1. u = t
        BY DEF OneThread
      <4>2. QED
        BY <1>0, <2>3, <3>4, <4>1 DEF CheckBuffer, Refuse
    <3>5. CASE UNCHANGED appVars
      BY <2>3, <3>1, <3>5 DEF appVars
    <3>6. \/ UNCHANGED appVars
          \/ \E u \in Threads : AssignMsgId(u) \/ CheckBuffer(u)
          \/ \E u \in Threads, c \in Clients, k \in Kinds, o \in Ops : Call(u, c, k, o)
      <4>1. CASE UNCHANGED vars
        BY SMTT(60), <4>1 DEF vars
      <4>2. CASE Next
        BY ZenonT(60), <1>2, <4>2
        DEF Next, AppStep, SendStep, Dequeue, WritePacket, FlagPendingWrite, FinishCommand,
            ReceiveStep, WriteComplete, Acknowledge, ConnectionStep, ConnectionUp,
            ConnectionDown, StartDisconnect
      <4>3. QED
        BY <4>1, <4>2
    <3>7. QED
      BY <3>1, <3>2, <3>3, <3>4, <3>5, <3>6
  <2>4. QED
    BY <1>0, <2>2, <2>3 DEF TokenInv
<1>3. QED
  BY <1>1, <1>2

\* Nobody owns an id before the first call.
LEMMA TokenInit == Init => TokenInv
<1> SUFFICES ASSUME Init PROVE TokenInv
  OBVIOUS
<1>1. ASSUME NEW c \in Clients PROVE Owners(c) = {}
  BY DEF Init, Owners
<1>2. QED
  BY <1>1, OwnInit DEF Init, TokenInv

\* With one application thread no two requests of a client that are queued, being
\* sent, in flight or waiting for a response share a message id, however often the
\* ids wrap around and whatever cleanSession frees in between.
THEOREM TokensUnique ==
    ASSUME OneThread
    PROVE  Spec => []UniqueTokens
<1>1. TokenInv /\ [Next]_vars => TokenInv'
  BY TokenStep
<1>2. TokenInv => UniqueTokens
  BY DEF TokenInv, UniqueTokens
<1>3. QED
  BY <1>1, <1>2, TokenInit, PTL DEF Spec

\* a publish whose response is waited for, or will be, is in outboundMsgs
MessageInv ==
    /\ \A c \in Clients : \A x \in Items(responses[c]) :
         x.kind = "PUB1" => x \in Items(outbound[c])
    /\ sendPc = "finish" /\ sendCmd.kind = "PUB1" => sendCmd \in Items(outbound[sendCmd.client])
    /\ sendPc = "flag" => sendCmd.kind = "PUB0"

ResponseInv == TokenInv /\ MessageInv

\* An acknowledgement takes the message and the response of the same request.
LEMMA MessageStep == OneThread /\ ResponseInv /\ [Next]_vars => MessageInv'
<1> SUFFICES ASSUME OneThread, ResponseInv, [Next]_vars PROVE MessageInv'
  OBVIOUS
<1>0. /\ TokenInv /\ OwnInv /\ TypeInv /\ MessageInv /\ WaitOwn
      /\ outbound \in [Clients -> Seq(Command)] /\ responses \in [Clients -> Seq(Command)]
      /\ commands \in Seq(Command)
  BY DEF ResponseInv, TokenInv, OwnInv, TypeInv, TypeOK
<1> USE CommandFields
<1>1. CASE UNCHANGED <<responses, outbound, sendPc, sendCmd>>
  BY <1>0, <1>1 DEF MessageInv
<1>2. CASE Dequeue
  BY <1>0, <1>2 DEF Dequeue, MessageInv, clientVars
<1>3. ASSUME NEW rc \in {"COMPLETE", "INTERRUPTED", "SOCKET_ERROR"}, WritePacket(rc)
      PROVE  MessageInv'
  <2>1. /\ sendCmd \in Command /\ sendCmd.client \in Clients
        /\ UNCHANGED <<sendCmd, responses>>
    BY <1>0, <1>3 DEF WritePacket, TypeInv
  <2>2. CASE sendCmd.kind = "PUB1"
    <3>1. outbound' = [outbound EXCEPT ![sendCmd.client] = Append(@, sendCmd)]
      BY <1>3, <2>2 DEF WritePacket
    <3>2. /\ outbound'[sendCmd.client] = Append(outbound[sendCmd.client], sendCmd)
          /\ \A d \in Clients : d # sendCmd.client => outbound'[d] = outbound[d]
          /\ outbound[sendCmd.client] \in Seq(Command)
      BY <1>0, <2>1, <3>1
    <3>3. Items(outbound'[sendCmd.client]) = Items(outbound[sendCmd.client]) \cup {sendCmd}
      BY <2>1, <3>2, ItemsInLists
    <3>4. \A d \in Clients : Items(outbound[d]) \subseteq Items(outbound'[d])
      BY <3>2, <3>3
    <3>5. sendPc' # "flag"
      BY <1>3, <2>2 DEF WritePacket
    <3>6. QED
      BY <1>0, <2>1, <3>3, <3>4, <3>5 DEF MessageInv
  <2>3. CASE sendCmd.kind # "PUB1"
    <3>1. UNCHANGED outbound /\ (sendPc' = "flag" => sendCmd.kind = "PUB0")
      BY <1>3, <2>3 DEF WritePacket
    <3>2. QED
      BY <1>0, <2>1, <2>3, <3>1 DEF MessageInv
  <2>4. QED
    BY <2>2, <2>3
<1>4. CASE FlagPendingWrite
  <2>1. sendPc = "flag" /\ sendPc' = "finish" /\ UNCHANGED <<responses, outbound, sendCmd>>
    BY <1>4 DEF FlagPendingWrite
  <2>2. QED
    BY <1>0, <2>1 DEF MessageInv
<1>5. CASE FinishCommand
  <2>1. /\ sendCmd \in Command /\ sendCmd.client \in Clients /\ UNCHANGED outbound
        /\ sendPc = "finish" /\ sendPc' = "idle"
        /\ \/ responses' = responses
           \/ responses' = [responses EXCEPT ![sendCmd.client] = Append(@, sendCmd)]
    BY <1>0, <1>5 DEF FinishCommand, TypeInv
  <2>2. CASE responses' = responses
    BY <1>0, <2>1, <2>2 DEF MessageInv
  <2>3. CASE responses' = [responses EXCEPT ![sendCmd.client] = Append(@, sendCmd)]
    <3>1. /\ responses'[sendCmd.client] = Append(responses[sendCmd.client], sendCmd)
          /\ \A d \in Clients : d # sendCmd.client => responses'[d] = responses[d]
          /\ responses[sendCmd.client] \in Seq(Command)
      BY <1>0, <2>1, <2>3
    <3>2. Items(responses'[sendCmd.client]) = Items(responses[sendCmd.client]) \cup {sendCmd}
      BY <2>1, <3>1, ItemsInLists
    <3>3. QED
      BY ZenonT(60), <1>0, <2>1, <3>1, <3>2 DEF MessageInv
  <2>4. QED
    BY <2>1, <2>2, <2>3
<1>6. ASSUME NEW c \in Clients, NEW ok \in BOOLEAN, WriteComplete(c, ok) PROVE MessageInv'
  <2>1. UNCHANGED <<outbound, sendPc, sendCmd>>
    BY <1>6 DEF WriteComplete, sendVars
  <2>2. UNCHANGED responses \/ \E n \in DOMAIN responses[c] :
                                 responses' = [responses EXCEPT ![c] = Detach(@, n)]
    BY <1>6 DEF WriteComplete
  <2>3. ASSUME NEW n \in DOMAIN responses[c], responses' = [responses EXCEPT ![c] = Detach(@, n)]
        PROVE  MessageInv'
    <3>1. /\ responses[c] \in Seq(Command) /\ responses'[c] = Detach(responses[c], n)
          /\ \A d \in Clients : d # c => responses'[d] = responses[d]
      BY <1>0, <2>3
    <3>2. Items(responses'[c]) \subseteq Items(responses[c])
      BY <3>1, ItemsInLists
    <3>3. QED
      BY <1>0, <2>1, <3>1, <3>2 DEF MessageInv
  <2>4. QED
    BY <1>1, <2>1, <2>2, <2>3
<1>7. ASSUME NEW c \in Clients, NEW n \in DOMAIN owed[c], NEW ok \in BOOLEAN,
             Acknowledge(c, n, ok)
      PROVE  MessageInv'
  <2> DEFINE ack == owed[c][n]
             O == outbound[c]
             R == responses[c]
  <2>1. /\ UNCHANGED <<sendPc, sendCmd>> /\ sendPc = "idle"
        /\ O \in Seq(Command) /\ R \in Seq(Command)
    BY <1>0, <1>7 DEF Acknowledge, Unlocked, sendVars
  <2>2. \/ UNCHANGED outbound
        \/ \E m \in DOMAIN O : /\ O[m].token = ack.token
                               /\ outbound' = [outbound EXCEPT ![c] = Detach(@, m)]
    BY <1>7 DEF Acknowledge, IsFirst, WithToken
  <2>3. \/ UNCHANGED responses /\ \A r \in DOMAIN R : R[r].token # ack.token
        \/ \E r \in DOMAIN R : /\ R[r].token = ack.token
                               /\ responses' = [responses EXCEPT ![c] = Detach(@, r)]
    BY <1>7 DEF Acknowledge, IsFirst, WithToken
  <2> HIDE DEF ack
  <2>4. ASSUME NEW d \in Clients, d # c PROVE outbound'[d] = outbound[d] /\ responses'[d] = responses[d]
    <3>1. outbound'[d] = outbound[d]
      BY <1>0, <2>2, <2>4
    <3>2. responses'[d] = responses[d]
      BY <1>0, <2>3, <2>4
    <3>3. QED
      BY <3>1, <3>2
  <2>5. ASSUME NEW x \in Items(responses'[c]), x.kind = "PUB1" PROVE x \in Items(outbound'[c])
    <3>1. x \in Items(R) /\ (x.token = ack.token => \E r, k \in DOMAIN R :
            R[r].token = ack.token /\ k # r /\ x = R[k])
      <4>1. CASE UNCHANGED responses /\ \A r \in DOMAIN R : R[r].token # ack.token
        BY <2>5, <4>1 DEF Items
      <4>2. ASSUME NEW r \in DOMAIN R, R[r].token = ack.token,
                   responses' = [responses EXCEPT ![c] = Detach(@, r)]
            PROVE  x \in Items(R) /\ \E k \in DOMAIN R : k # r /\ x = R[k]
        <5>1. responses'[c] = Detach(R, r)
          BY <1>0, <4>2
        <5>2. PICK i \in DOMAIN Detach(R, r) : x = Detach(R, r)[i]
          BY <2>5, <5>1 DEF Items
        <5>3. PICK k \in DOMAIN R : k # r /\ Detach(R, r)[i] = R[k]
          BY <2>1, <5>2, DetachItems
        <5>4. QED
          BY <5>2, <5>3 DEF Items
      <4>3. QED
        BY <2>3, <4>1, <4>2
    <3>2. x.token # ack.token
      <4>1. SUFFICES ASSUME NEW r \in DOMAIN R, NEW k \in DOMAIN R,
                            R[r].token = x.token, k # r, x = R[k]
                     PROVE  FALSE
        BY <3>1
      <4>2. R[k] \in Owners(c) /\ R[r] \in Owners(c)
        BY OwnersAre DEF Items
      <4>3. R[k].op = R[r].op
        BY ZenonT(60), <1>0, <2>5, <4>1, <4>2 DEF TokenInv
      <4>4. QED
        BY <1>0, <4>1, <4>3 DEF WaitOwn
    <3>3. x \in Items(O)
      BY <1>0, <2>5, <3>1 DEF MessageInv
    <3>4. CASE UNCHANGED outbound
      BY <3>3, <3>4
    <3>5. ASSUME NEW m \in DOMAIN O, O[m].token = ack.token,
                 outbound' = [outbound EXCEPT ![c] = Detach(@, m)]
          PROVE  x \in Items(outbound'[c])
      <4>1. outbound'[c] = Detach(O, m)
        BY <1>0, <3>5
      <4>2. Items(O) \subseteq Items(Detach(O, m)) \cup {O[m]}
        BY <2>1, ItemsInLists
      <4>3. QED
        BY <3>2, <3>3, <3>5, <4>1, <4>2
    <3>6. QED
      BY <2>2, <3>4, <3>5
  <2>6. QED
    BY <1>0, <2>1, <2>4, <2>5 DEF MessageInv
<1>8. ASSUME NEW c \in Clients, ConnectionStep(c) PROVE MessageInv'
  <2>1. UNCHANGED <<sendPc, sendCmd>>
    BY <1>8 DEF ConnectionStep, ConnectionUp, ConnectionDown, StartDisconnect, sendVars
  <2>2. CleanUp(c) \/ UNCHANGED <<outbound, responses>>
    BY <1>8 DEF ConnectionStep, ConnectionUp, ConnectionDown, StartDisconnect, KeepSession, clientVars
  <2>3. CASE CleanUp(c)
    <3>1. sendPc = "idle"
      BY <1>8, <2>3 DEF ConnectionStep, ConnectionUp, ConnectionDown, StartDisconnect,
                        Unlocked
    <3>2. /\ responses'[c] = <<>> /\ \A d \in Clients : d # c => responses'[d] = responses[d]
          /\ \A d \in Clients : d # c => outbound'[d] = outbound[d]
      BY <1>0, <2>3 DEF CleanUp
    <3>3. Items(<<>>) = {}
      BY DEF Items
    <3>4. QED
      BY <1>0, <2>1, <3>1, <3>2, <3>3 DEF MessageInv
  <2>4. QED
    BY <1>1, <2>1, <2>2, <2>3
<1>9. ASSUME NEW t \in Threads, AppStep(t) PROVE MessageInv'
  BY <1>1, <1>9 DEF AppStep, AssignMsgId, CheckBuffer, AddCommand, clientVars, sendVars
<1>10. ASSUME NEW t \in Threads, NEW c \in Clients, NEW k \in Kinds, NEW o \in Ops,
              Call(t, c, k, o)
       PROVE  MessageInv'
  BY <1>1, <1>10 DEF Call, clientVars, sendVars
<1>11. CASE UNCHANGED vars
  BY <1>1, <1>11 DEF vars, clientVars, sendVars
<1>12. QED
  BY <1>2, <1>3, <1>4, <1>5, <1>6, <1>7, <1>8, <1>9, <1>10, <1>11
  DEF Next, SendStep, ReceiveStep

\* With one application thread, a response that is waited for still has its
\* message in outboundMsgs, so that a reconnect will send it again.
THEOREM MessagesKept ==
    ASSUME OneThread
    PROVE  Spec => []ResponseHasMessage
<1>1. Init => ResponseInv
  <2>1. Init => MessageInv
    BY DEF Init, MessageInv, Items
  <2>2. QED
    BY <2>1, TokenInit DEF ResponseInv
<1>2. ResponseInv /\ [Next]_vars => ResponseInv'
  BY TokenStep, MessageStep DEF ResponseInv
<1>3. ResponseInv => ResponseHasMessage
  BY DEF ResponseInv, MessageInv, Items, ResponseHasMessage
<1>4. QED
  BY <1>1, <1>2, <1>3, PTL DEF Spec

----------------------------------------------------------------------------
(* What has been sent, with one client *)

\* The resending of one client's reconnect writes to the others, too, so that
\* what follows is not true of several clients.
OneClient == \A c, d \in Clients : c = d

\* o is in flight for client c, or about to be
Sent(o, c) ==
    \/ o \in OpsIn(outbound[c])
    \/ o \in OpsIn(owed[c])
    \/ sockPending[c] # NoCommand /\ sockPending[c].op = o

\* a request the send thread has taken off the list
Started == {"sending", "waiting", "done", "lost"}

\* A request goes to the wire once in a session.
WireInv ==
    /\ \A c \in Clients : \A o \in Ops : Sent(o, c) =>
         /\ stage[o] \in Started
         /\ sendPc = "write" => o # sendCmd.op
    /\ \A c \in Clients :
         /\ Distinct(outbound[c])
         /\ Distinct(owed[c])
         /\ sockPending[c] # NoCommand => sockPending[c].op \notin OpsIn(owed[c])
         /\ state[c] = "down" => owed[c] = <<>> /\ sockPending[c] = NoCommand
    /\ sendPc # "idle" => state[sendCmd.client] # "down"

RetryInv == OwnInv /\ WireInv

\* The requests of a list are those of its items.
LEMMA OpsOfItems == \A t : OpsIn(t) = {x.op : x \in Items(t)}
BY DEF OpsIn, Items

\* What OpsIn gives for the lists that the steps make.
LEMMA OpsMade ==
    ASSUME NEW s \in Seq(Command)
    PROVE  /\ \A n \in DOMAIN s : OpsIn(Detach(s, n)) \subseteq OpsIn(s)
           /\ \A x \in Command : OpsIn(Append(s, x)) = OpsIn(s) \cup {x.op}
           /\ OpsIn(s) \subseteq Ops
           /\ \A n \in DOMAIN s : s[n].op \in OpsIn(s)
<1>0. \A t : OpsIn(t) = {x.op : x \in Items(t)}
  BY OpsOfItems
<1>1. ASSUME NEW n \in DOMAIN s PROVE OpsIn(Detach(s, n)) \subseteq OpsIn(s)
  BY <1>0, ItemsInLists
<1>2. ASSUME NEW x \in Command PROVE OpsIn(Append(s, x)) = OpsIn(s) \cup {x.op}
  <2>1. Items(Append(s, x)) = Items(s) \cup {x}
    BY ItemsInLists
  <2>2. QED
    BY <1>0, <2>1
<1>3. OpsIn(s) \subseteq Ops
  BY CommandFields DEF OpsIn
<1>4. \A n \in DOMAIN s : s[n].op \in OpsIn(s)
  BY DEF OpsIn
<1>5. QED
  BY <1>1, <1>2, <1>3, <1>4

\* A list that grows by a request it does not have, or loses one, holds different
\* requests.
LEMMA DistinctMade ==
    ASSUME NEW s \in Seq(Command), Distinct(s)
    PROVE  /\ \A n \in DOMAIN s : /\ Distinct(Detach(s, n))
                                  /\ s[n].op \notin OpsIn(Detach(s, n))
           /\ \A x \in Command : x.op \notin OpsIn(s) => Distinct(Append(s, x))
<1>1. ASSUME NEW n \in DOMAIN s
      PROVE  Distinct(Detach(s, n)) /\ s[n].op \notin OpsIn(Detach(s, n))
  BY DetachDistinct DEF OpsIn
<1>2. ASSUME NEW x \in Command, x.op \notin OpsIn(s) PROVE Distinct(Append(s, x))
  BY <1>2, AppendDistinct DEF OpsIn
<1>3. QED
  BY <1>1, <1>2

\* The messages a reconnect writes are the first ones of outboundMsgs; the one
\* that goes out in part is the next.
LEMMA ResendOne ==
    ASSUME NEW clients \in SUBSET Clients, NEW n \in [Clients -> 0 .. MaxInflight], NEW broken,
           Resend(clients, n, broken), outbound' \in [Clients -> Seq(Command)],
           NEW c \in clients, owed[c] = <<>>, sockPending[c] = NoCommand,
           Distinct(outbound'[c])
    PROVE  /\ owed'[c] \in Seq(Command)
           /\ Distinct(owed'[c])
           /\ Items(owed'[c]) \subseteq Items(outbound'[c])
           /\ sockPending'[c] # NoCommand =>
                sockPending'[c] \in Items(outbound'[c]) /\ sockPending'[c].op \notin OpsIn(owed'[c])
           /\ OpsIn(owed'[c]) \subseteq written'
           /\ written \subseteq written'
<1> DEFINE s == outbound'[c]
           k == n[c]
           w == SubSeq(s, 1, k)
<1>1. /\ s \in Seq(Command) /\ Len(s) \in Nat /\ DOMAIN s = 1 .. Len(s)
      /\ k \in Nat /\ k <= Len(s) /\ c \in Clients
  BY LimitsAssumption DEF Resend
<1>2. w \in Seq(Command) /\ DOMAIN w = 1 .. k /\ \A i \in 1 .. k : w[i] = s[i]
  BY <1>1
<1>3. owed'[c] = <<>> \o w
  BY <1>1 DEF Resend
<1>4. <<>> \o w = w
  BY <1>2
<1>5. \/ sockPending'[c] = NoCommand
      \/ k < Len(s) /\ sockPending'[c] = s[k + 1]
  BY <1>1 DEF Resend
<1>6. OpsIn(w) \subseteq written' /\ written \subseteq written'
  <2>1. written' = written \cup UNION {OpsIn(SubSeq(outbound'[d], 1, n[d])) : d \in clients}
    BY DEF Resend
  <2>2. QED
    BY <2>1
<1> HIDE DEF w, s, k
<1>7. Distinct(w)
  BY <1>1, <1>2 DEF Distinct, s
<1>8. Items(w) \subseteq Items(s)
  BY <1>1, <1>2 DEF Items
<1>9. ASSUME k < Len(s) PROVE s[k + 1] \in Items(s) /\ s[k + 1].op \notin OpsIn(w)
  <2>1. k + 1 \in DOMAIN s /\ \A i \in DOMAIN w : i \in DOMAIN s /\ i # k + 1 /\ w[i] = s[i]
    BY <1>1, <1>2, <1>9
  <2>2. \A i \in DOMAIN w : w[i].op # s[k + 1].op
    BY <2>1 DEF Distinct, s
  <2>3. QED
    BY <2>1, <2>2 DEF Items, OpsIn
<1>10. QED
  BY <1>2, <1>3, <1>4, <1>5, <1>6, <1>7, <1>8, <1>9 DEF s

\* No step brings a request back that the send thread has taken.
LEMMA StartedStays ==
    ASSUME OwnInv, [Next]_vars, NEW o \in Ops, stage[o] \in Started
    PROVE  stage'[o] \in Started
<1>0. /\ stage \in [Ops -> Stages] /\ commands \in Seq(Command)
      /\ responses \in [Clients -> Seq(Command)] /\ pendingWrite \in [Clients -> Ops \cup {NoOp}]
      /\ QueueOwn /\ CallOwn /\ TypeInv
  BY DEF OwnInv, TypeInv, TypeOK
<1> USE CommandFields
<1>1. ASSUME NEW p, NEW z \in Started, stage' = [stage EXCEPT ![p] = z]
      PROVE  stage'[o] \in Started
  BY <1>0, <1>1
<1>2. CASE UNCHANGED stage
  BY <1>2
<1>3. ASSUME NEW t \in Threads, NEW c \in Clients, NEW k \in Kinds, NEW p \in Ops,
             Call(t, c, k, p)
      PROVE  stage'[o] \in Started
  BY <1>0, <1>3 DEF Call, Started
<1>4. ASSUME NEW t \in Threads, AppStep(t) PROVE stage'[o] \in Started
  <2>0. cur[t].op # o
    <3>1. pc[t] # "idle"
      BY <1>4 DEF AppStep, AssignMsgId, CheckBuffer, AddCommand
    <3>2. QED
      BY <1>0, <3>1 DEF CallOwn, Started
  <2>1. CASE AssignMsgId(t)
    <3>1. UNCHANGED stage \/ stage' = [stage EXCEPT ![cur[t].op] = "rejected"]
      BY <2>1 DEF AssignMsgId, Refuse, appVars
    <3>2. QED
      BY <1>0, <2>0, <3>1
  <2>2. CASE CheckBuffer(t)
    <3>1. UNCHANGED stage \/ stage' = [stage EXCEPT ![cur[t].op] = "rejected"]
      BY <2>2 DEF CheckBuffer, Refuse
    <3>2. QED
      BY <1>0, <2>0, <3>1
  <2>3. CASE AddCommand(t)
    <3> DEFINE all == Append(commands, cur[t])
    <3>1. \/ stage' = [stage EXCEPT ![cur[t].op] = "queued"]
          \/ \E n \in DOMAIN all : stage' = [stage EXCEPT ![cur[t].op] = "queued",
                                                          ![all[n].op] = "dropped"]
      BY <2>3 DEF AddCommand
    <3>2. \A n \in DOMAIN all : all[n].op # o
      <4>1. cur[t] \in Command
        BY <1>0, <2>3 DEF AddCommand, TypeInv
      <4>2. ASSUME NEW n \in DOMAIN all
            PROVE  all[n] = cur[t] \/ (n \in DOMAIN commands /\ all[n] = commands[n])
        BY <1>0, <4>1
      <4>3. \A n \in DOMAIN commands : commands[n].op # o
        BY <1>0 DEF QueueOwn, Started
      <4>4. QED
        BY <2>0, <4>2, <4>3
    <3> HIDE DEF all
    <3>3. QED
      BY <1>0, <2>0, <3>1, <3>2
  <2>4. QED
    BY <1>4, <2>1, <2>2, <2>3 DEF AppStep
<1>5. CASE SendStep
  <2>1. UNCHANGED stage \/ \E p : \E z \in Started : stage' = [stage EXCEPT ![p] = z]
    BY <1>5 DEF SendStep, Dequeue, WritePacket, FlagPendingWrite, FinishCommand, CallBack,
                Started, histVars
  <2>2. QED
    BY <1>1, <1>2, <2>1
<1>6. ASSUME NEW c \in Clients, ReceiveStep(c) PROVE stage'[o] \in Started
  <2>1. UNCHANGED stage \/ \E p : \E z \in Started : stage' = [stage EXCEPT ![p] = z]
    BY <1>6 DEF ReceiveStep, WriteComplete, Acknowledge, CallBack, Started
  <2>2. QED
    BY <1>1, <1>2, <2>1
<1>7. ASSUME NEW c \in Clients, ConnectionStep(c) PROVE stage'[o] \in Started
  <2>1. CleanUp(c) \/ UNCHANGED stage
    BY <1>7 DEF ConnectionStep, ConnectionUp, ConnectionDown, StartDisconnect, KeepSession,
                histVars
  <2>2. QED
    BY <1>0, <2>1 DEF CleanUp, Started
<1>8. QED
  BY <1>2, <1>3, <1>4, <1>5, <1>6, <1>7 DEF Next, vars, histVars

\* What is on the wire stays started; only the send thread's packet and a
\* resending add to it.
LEMMA WireStep == OneClient /\ RetryInv /\ [Next]_vars => WireInv'
<1> SUFFICES ASSUME OneClient, RetryInv, [Next]_vars PROVE WireInv'
  OBVIOUS
<1>0. /\ OwnInv /\ TypeInv /\ WireInv /\ QueueOwn /\ SendOwn
      /\ stage \in [Ops -> Stages] /\ commands \in Seq(Command)
      /\ outbound \in [Clients -> Seq(Command)] /\ owed \in [Clients -> Seq(Command)]
      /\ sockPending \in [Clients -> Command \cup {NoCommand}]
      /\ state \in [Clients -> {"down", "up", "closing", "disconnecting"}]
      /\ sendPc # "idle" => sendCmd \in Command
  BY DEF RetryInv, OwnInv, TypeInv, TypeOK
<1>T. /\ outbound' \in [Clients -> Seq(Command)] /\ owed' \in [Clients -> Seq(Command)]
      /\ sockPending' \in [Clients -> Command \cup {NoCommand}]
  BY <1>0, TypeStep DEF TypeInv, TypeOK
<1> USE CommandFields, NullAssumption
<1>S. \A o \in Ops : stage[o] \in Started => stage'[o] \in Started
  BY <1>0, StartedStays
\* the step adds nothing to the wire
<1>1. ASSUME \A c \in Clients : OpsIn(outbound'[c]) \subseteq OpsIn(outbound[c]),
             \A c \in Clients : OpsIn(owed'[c]) \subseteq OpsIn(owed[c]) \cup
               (IF sockPending[c] # NoCommand THEN {sockPending[c].op} ELSE {}),
             \A c \in Clients : sockPending'[c] \in {NoCommand, sockPending[c]},
             sendPc' = "write" => sendPc = "write" /\ sendCmd' = sendCmd
      PROVE  \A c \in Clients : \A o \in Ops : Sent(o, c)' =>
               /\ stage'[o] \in Started
               /\ sendPc' = "write" => o # sendCmd'.op
  <2>1. ASSUME NEW c \in Clients, NEW o \in Ops, Sent(o, c)' PROVE Sent(o, c)
    BY <1>1, <2>1 DEF Sent
  <2>2. QED
    BY <1>0, <1>1, <1>S, <2>1 DEF WireInv
<1>2. CASE UNCHANGED <<outbound, owed, sockPending, state, sendPc, sendCmd>>
  <2>1. \A c \in Clients : \A o \in Ops : Sent(o, c)' =>
               /\ stage'[o] \in Started
               /\ sendPc' = "write" => o # sendCmd'.op
    BY <1>1, <1>2
  <2>2. QED
    BY <1>0, <1>2, <2>1 DEF WireInv
<1>3. CASE Dequeue
  <2>1. PICK n \in DOMAIN commands : sendCmd' = commands[n] /\ state[commands[n].client] = "up"
    BY <1>3 DEF Dequeue, Candidates, Runnable, IsFirst
  <2>2. UNCHANGED <<outbound, owed, sockPending, state>> /\ sendPc' = "write"
    BY <1>3 DEF Dequeue, clientVars, netVars
  <2>3. ASSUME NEW c \in Clients, NEW o \in Ops, Sent(o, c)'
        PROVE  /\ stage'[o] \in Started
               /\ sendPc' = "write" => o # sendCmd'.op
    <3>1. Sent(o, c)
      BY <2>2, <2>3 DEF Sent
    <3>2. stage[o] \in Started
      BY <1>0, <3>1 DEF WireInv
    <3>3. stage[commands[n].op] = "queued"
      BY <1>0 DEF QueueOwn
    <3>4. QED
      BY <1>S, <2>1, <3>2, <3>3 DEF Started
  <2>4. QED
    BY <1>0, <2>1, <2>2, <2>3 DEF WireInv
<1>4. ASSUME NEW rc \in {"COMPLETE", "INTERRUPTED", "SOCKET_ERROR"}, WritePacket(rc)
      PROVE  WireInv'
  <2> DEFINE c == sendCmd.client
  <2>1. /\ sendCmd \in Command /\ c \in Clients /\ sendCmd.op \in Ops /\ UNCHANGED <<sendCmd, state>>
        /\ sendPc = "write" /\ sendPc' # "write" /\ sendPc' # "idle" /\ state[c] # "down"
        /\ stage[sendCmd.op] \in Started
    BY <1>0, <1>4 DEF WritePacket, SendOwn, WireInv, Started
  <2>2. ASSUME NEW d \in Clients PROVE ~Sent(sendCmd.op, d)
    BY <1>0, <2>1, <2>2 DEF WireInv
  <2> HIDE DEF c
  <2>3. /\ UNCHANGED outbound \/ outbound' = [outbound EXCEPT ![c] = Append(@, sendCmd)]
        /\ \/ UNCHANGED <<owed, sockPending>>
           \/ UNCHANGED owed /\ sockPending' = [sockPending EXCEPT ![c] = sendCmd]
           \/ UNCHANGED sockPending /\ owed' = [owed EXCEPT ![c] = Append(@, sendCmd)]
    BY <1>4 DEF WritePacket, c
  <2>4. ASSUME NEW d \in Clients
        PROVE  /\ OpsIn(outbound'[d]) \subseteq OpsIn(outbound[d]) \cup {sendCmd.op}
               /\ Distinct(outbound'[d])
    <3>1. /\ outbound[d] \in Seq(Command) /\ Distinct(outbound[d])
          /\ sendCmd.op \notin OpsIn(outbound[d])
      BY <1>0, <2>2 DEF WireInv, Sent
    <3>2. outbound'[d] = outbound[d] \/ outbound'[d] = Append(outbound[d], sendCmd)
      BY <1>0, <2>1, <2>3
    <3>3. Distinct(Append(outbound[d], sendCmd))
      BY <2>1, <3>1, DistinctMade
    <3>4. OpsIn(Append(outbound[d], sendCmd)) = OpsIn(outbound[d]) \cup {sendCmd.op}
      BY <2>1, <3>1, OpsMade
    <3>5. QED
      BY <3>1, <3>2, <3>3, <3>4
  <2>5. ASSUME NEW d \in Clients
        PROVE  /\ OpsIn(owed'[d]) \subseteq OpsIn(owed[d]) \cup {sendCmd.op}
               /\ Distinct(owed'[d])
               /\ sockPending'[d] \in {NoCommand, sockPending[d], sendCmd}
               /\ sockPending'[d] # NoCommand => sockPending'[d].op \notin OpsIn(owed'[d])
               /\ state[d] = "down" => owed'[d] = <<>> /\ sockPending'[d] = NoCommand
    <3>1. /\ owed[d] \in Seq(Command) /\ Distinct(owed[d])
          /\ sendCmd.op \notin OpsIn(owed[d])
          /\ sockPending[d] # NoCommand => sockPending[d].op \notin OpsIn(owed[d]) \cup {sendCmd.op}
          /\ state[d] = "down" => owed[d] = <<>> /\ sockPending[d] = NoCommand
      BY <1>0, <2>2 DEF WireInv, Sent
    <3>2. \/ owed'[d] = owed[d] /\ sockPending'[d] = sockPending[d]
          \/ d = c /\ owed'[d] = owed[d] /\ sockPending'[d] = sendCmd
          \/ d = c /\ owed'[d] = Append(owed[d], sendCmd) /\ sockPending'[d] = sockPending[d]
      BY <1>0, <2>1, <2>3
    <3>3. Distinct(Append(owed[d], sendCmd))
      BY <2>1, <3>1, DistinctMade
    <3>4. OpsIn(Append(owed[d], sendCmd)) = OpsIn(owed[d]) \cup {sendCmd.op}
      BY <2>1, <3>1, OpsMade
    <3>5. QED
      BY <2>1, <3>1, <3>2, <3>3, <3>4
  <2>6. ASSUME NEW d \in Clients, NEW o \in Ops, Sent(o, d)' PROVE stage'[o] \in Started
    <3>1. Sent(o, d) \/ o = sendCmd.op
      BY <2>4, <2>5, <2>6 DEF Sent
    <3>2. QED
      BY <1>0, <1>S, <2>1, <3>1 DEF WireInv
  <2>7. QED
    BY <2>1, <2>4, <2>5, <2>6 DEF WireInv, c
<1>5. CASE FlagPendingWrite
  <2>1. UNCHANGED <<outbound, owed, sockPending, state, sendCmd>> /\ sendPc' = "finish" /\ sendPc = "flag"
    BY <1>5 DEF FlagPendingWrite, netVars
  <2>2. \A c \in Clients : \A o \in Ops : Sent(o, c)' =>
               /\ stage'[o] \in Started
               /\ sendPc' = "write" => o # sendCmd'.op
    BY <1>1, <2>1
  <2>3. QED
    BY <1>0, <2>1, <2>2 DEF WireInv
<1>6. CASE FinishCommand
  <2>1. /\ UNCHANGED <<outbound, owed, sockPending>> /\ sendPc' = "idle"
        /\ UNCHANGED state \/ state' = [state EXCEPT ![sendCmd.client] = "closing"]
    BY <1>6 DEF FinishCommand
  <2>2. \A c \in Clients : \A o \in Ops : Sent(o, c)' =>
               /\ stage'[o] \in Started
               /\ sendPc' = "write" => o # sendCmd'.op
    BY <1>1, <2>1
  <2>3. \A c \in Clients : state'[c] = "down" => state[c] = "down"
    BY <1>0, <2>1
  <2>4. QED
    BY <1>0, <2>1, <2>2, <2>3 DEF WireInv
<1>7. ASSUME NEW c \in Clients, NEW ok \in BOOLEAN, WriteComplete(c, ok) PROVE WireInv'
  <2> DEFINE w == sockPending[c]
  <2>1. /\ UNCHANGED <<outbound, state, sendPc, sendCmd>> /\ w # NoCommand /\ w \in Command
        /\ sockPending' = [sockPending EXCEPT ![c] = NoCommand]
        /\ UNCHANGED owed \/ owed' = [owed EXCEPT ![c] = Append(@, w)]
    BY <1>0, <1>7 DEF WriteComplete, sendVars
  <2>2. /\ sockPending'[c] = NoCommand
        /\ owed'[c] = owed[c] \/ owed'[c] = Append(owed[c], w)
        /\ \A d \in Clients : d # c => owed'[d] = owed[d] /\ sockPending'[d] = sockPending[d]
    BY <1>0, <2>1
  <2>3. /\ owed[c] \in Seq(Command) /\ Distinct(owed[c]) /\ w.op \notin OpsIn(owed[c])
        /\ state[c] # "down"
    BY <1>0, <2>1 DEF WireInv
  <2> HIDE DEF w
  <2>4. Distinct(Append(owed[c], w)) /\ OpsIn(Append(owed[c], w)) = OpsIn(owed[c]) \cup {w.op}
    BY <2>1, <2>3, DistinctMade, OpsMade
  <2>5. /\ Distinct(owed'[c]) /\ OpsIn(owed'[c]) \subseteq OpsIn(owed[c]) \cup {w.op}
    BY <2>2, <2>3, <2>4
  <2>6. \A d \in Clients : \A o \in Ops : Sent(o, d)' =>
               /\ stage'[o] \in Started
               /\ sendPc' = "write" => o # sendCmd'.op
    BY <1>1, <2>1, <2>2, <2>5 DEF w
  <2>7. QED
    BY <1>0, <2>1, <2>2, <2>3, <2>5, <2>6 DEF WireInv
<1>8. ASSUME NEW c \in Clients, NEW n \in DOMAIN owed[c], NEW ok \in BOOLEAN,
             Acknowledge(c, n, ok)
      PROVE  WireInv'
  <2>1. /\ UNCHANGED <<sockPending, state, sendPc, sendCmd>>
        /\ owed' = [owed EXCEPT ![c] = Detach(@, n)]
        /\ UNCHANGED outbound \/ \E m \in DOMAIN outbound[c] :
                                   outbound' = [outbound EXCEPT ![c] = Detach(@, m)]
    BY <1>8 DEF Acknowledge, IsFirst, WithToken, sendVars
  <2>2. /\ \A d \in Clients : d # c => owed'[d] = owed[d] /\ outbound'[d] = outbound[d]
        /\ owed'[c] = Detach(owed[c], n)
        /\ outbound'[c] = outbound[c] \/ \E m \in DOMAIN outbound[c] : outbound'[c] = Detach(outbound[c], m)
        /\ owed[c] \in Seq(Command) /\ outbound[c] \in Seq(Command)
        /\ Distinct(owed[c]) /\ Distinct(outbound[c])
    BY <1>0, <2>1 DEF WireInv
  <2>3. Distinct(owed'[c]) /\ OpsIn(owed'[c]) \subseteq OpsIn(owed[c])
    BY <2>2, DistinctMade, OpsMade
  <2>4. Distinct(outbound'[c]) /\ OpsIn(outbound'[c]) \subseteq OpsIn(outbound[c])
    <3>1. ASSUME NEW m \in DOMAIN outbound[c]
          PROVE  Distinct(Detach(outbound[c], m)) /\ OpsIn(Detach(outbound[c], m)) \subseteq OpsIn(outbound[c])
      BY <2>2, DistinctMade, OpsMade
    <3>2. QED
      BY <2>2, <3>1
  <2>5. \A d \in Clients : \A o \in Ops : Sent(o, d)' =>
               /\ stage'[o] \in Started
               /\ sendPc' = "write" => o # sendCmd'.op
    BY <1>1, <2>1, <2>2, <2>3, <2>4
  <2>6. state[c] # "down"
    BY <1>0 DEF WireInv
  <2>7. QED
    BY <1>0, <2>1, <2>2, <2>3, <2>4, <2>5, <2>6 DEF WireInv
<1>9. ASSUME NEW c \in Clients, NEW present \in BOOLEAN, NEW n \in [Clients -> 0 .. MaxInflight],
             NEW broken \in SUBSET Clients, ConnectionUp(c, present, n, broken)
      PROVE  WireInv'
  <2> DEFINE resend == {d \in Clients : (d = c \/ state[d] # "down") /\ sockPending[d] = NoCommand}
  <2>1. /\ UNCHANGED <<sendPc, sendCmd>> /\ sendPc = "idle" /\ state[c] = "down"
        /\ \A d \in Clients : d = c
        /\ owed[c] = <<>> /\ sockPending[c] = NoCommand /\ Distinct(outbound[c])
    BY <1>0, <1>9 DEF ConnectionUp, Unlocked, sendVars, OneClient, WireInv
  <2>2. outbound'[c] = outbound[c] \/ outbound'[c] = <<>>
    BY <1>0, <1>9 DEF ConnectionUp, CleanUp, KeepSession
  <2>3. Distinct(<<>>) /\ OpsIn(<<>>) = {} /\ Items(<<>>) = {}
    BY DEF Distinct, OpsIn, Items
  <2>4. Distinct(outbound'[c]) /\ OpsIn(outbound'[c]) \subseteq OpsIn(outbound[c])
    BY <2>1, <2>2, <2>3
  <2>5. CASE UNCHANGED <<owed, sockPending>> /\ state' = [state EXCEPT ![c] = "up"]
    <3>1. \A d \in Clients : \A o \in Ops : Sent(o, d)' =>
               /\ stage'[o] \in Started
               /\ sendPc' = "write" => o # sendCmd'.op
      BY <1>1, <2>1, <2>4, <2>5
    <3>2. state'[c] = "up"
      BY <1>0, <2>5
    <3>3. QED
      BY <2>1, <2>3, <2>4, <2>5, <3>1, <3>2 DEF WireInv
  <2>6. CASE Resend(resend, n, broken) /\ state' = [d \in Clients |->
                             IF d \in broken THEN "closing"
                             ELSE IF d = c THEN "up" ELSE state[d]]
    <3>1. c \in resend /\ resend \in SUBSET Clients
      BY <2>1
    <3> HIDE DEF resend
    <3>2. /\ owed'[c] \in Seq(Command)
          /\ Distinct(owed'[c])
          /\ Items(owed'[c]) \subseteq Items(outbound'[c])
          /\ sockPending'[c] # NoCommand =>
               sockPending'[c] \in Items(outbound'[c]) /\ sockPending'[c].op \notin OpsIn(owed'[c])
      BY <1>T, <2>1, <2>4, <2>6, <3>1, ResendOne
    <3>3. OpsIn(owed'[c]) \subseteq OpsIn(outbound'[c])
      BY <3>2, OpsOfItems
    <3>4. sockPending'[c] # NoCommand => sockPending'[c].op \in OpsIn(outbound'[c])
      BY <3>2 DEF OpsIn, Items
    <3>5. ASSUME NEW o \in Ops, Sent(o, c)' PROVE stage'[o] \in Started
      <4>1. Sent(o, c)
        BY <2>4, <3>3, <3>4, <3>5 DEF Sent
      <4>2. QED
        BY <1>0, <1>S, <4>1 DEF WireInv
    <3>6. state'[c] # "down"
      BY <2>6
    <3>7. QED
      BY <2>1, <2>4, <3>2, <3>5, <3>6 DEF WireInv
  <2>7. QED
    BY <1>9, <2>5, <2>6 DEF ConnectionUp
<1>10. ASSUME NEW c \in Clients, NEW only \in BOOLEAN, ConnectionDown(c, only) PROVE WireInv'
  <2>1. /\ UNCHANGED <<sendPc, sendCmd>> /\ sendPc = "idle"
        /\ \A d \in Clients : d = c
        /\ owed'[c] = <<>> /\ sockPending'[c] = NoCommand /\ Distinct(outbound[c])
        /\ outbound'[c] = outbound[c] \/ outbound'[c] = <<>>
    BY <1>0, <1>10 DEF ConnectionDown, Unlocked, sendVars, OneClient, WireInv, CleanUp, KeepSession
  <2>2. Distinct(<<>>) /\ OpsIn(<<>>) = {}
    BY DEF Distinct, OpsIn
  <2>3. \A d \in Clients : \A o \in Ops : Sent(o, d)' =>
               /\ stage'[o] \in Started
               /\ sendPc' = "write" => o # sendCmd'.op
    BY <1>1, <2>1, <2>2
  <2>4. QED
    BY <2>1, <2>2, <2>3 DEF WireInv
<1>11. ASSUME NEW c \in Clients, StartDisconnect(c) PROVE WireInv'
  <2>1. /\ UNCHANGED <<outbound, owed, sockPending, sendPc, sendCmd>>
        /\ \A d \in Clients : state'[d] = "down" => state[d] = "down"
    BY <1>0, <1>11 DEF StartDisconnect, clientVars, sendVars
  <2>2. \A d \in Clients : \A o \in Ops : Sent(o, d)' =>
               /\ stage'[o] \in Started
               /\ sendPc' = "write" => o # sendCmd'.op
    BY <1>1, <2>1
  <2>3. QED
    BY <1>0, <2>1, <2>2 DEF WireInv
<1>12. ASSUME NEW t \in Threads, AppStep(t) PROVE WireInv'
  BY <1>2, <1>12 DEF AppStep, AssignMsgId, CheckBuffer, AddCommand, clientVars, sendVars, netVars
<1>13. ASSUME NEW t \in Threads, NEW c \in Clients, NEW k \in Kinds, NEW o \in Ops,
              Call(t, c, k, o)
       PROVE  WireInv'
  BY <1>2, <1>13 DEF Call, clientVars, sendVars, netVars
<1>14. CASE UNCHANGED vars
  BY <1>2, <1>14 DEF vars, clientVars, sendVars, netVars
<1>15. QED
  BY <1>3, <1>4, <1>5, <1>6, <1>7, <1>8, <1>9, <1>10, <1>11, <1>12, <1>13, <1>14
  DEF Next, SendStep, ReceiveStep, ConnectionStep

\* Nothing is on the wire at first.
LEMMA WireInit == Init => WireInv
BY DEF Init, WireInv, Sent, OpsIn, Distinct

\* With one client, the server never owes two acknowledgements for one request.
THEOREM NoRetryInSession ==
    ASSUME OneClient
    PROVE  Spec => []NoInSessionRetry
<1>1. Init => RetryInv
  BY OwnInit, WireInit DEF RetryInv
<1>2. RetryInv /\ [Next]_vars => RetryInv'
  BY OwnStep, WireStep DEF RetryInv
<1>3. RetryInv => NoInSessionRetry
  BY DEF RetryInv, WireInv, Distinct, NoInSessionRetry
<1>4. QED
  BY <1>1, <1>2, <1>3, PTL DEF Spec

----------------------------------------------------------------------------
(* Success *)

\* A QoS 0 publish sets pending_write, which survives a reconnect and may then
\* point to a request that was never written: without QoS 0, it is never set.
NoQoS0 == "PUB0" \notin Kinds

\* an acknowledgement of a is on its way, or will be when its packet is out
Underway(a, c) == a \in Items(owed[c]) \/ (a = sockPending[c] /\ a # NoCommand)

\* the list entry that the acknowledgement of a will find
Backed(a, c) ==
    \/ a.kind = "PUB1" /\ a \in Items(outbound[c])
    \/ /\ a.kind = "SUB"
       /\ \/ a \in Items(responses[c])
          \/ sendPc = "finish" /\ sendCmd = a /\ sendRc # "SOCKET_ERROR"

AnswerInv ==
    /\ sendPc # "flag"
    /\ success \subseteq written
    /\ \A c \in Clients :
         /\ pendingWrite[c] = NoOp
         /\ \A x \in Items(outbound[c]) : x.kind = "PUB1"
         /\ OpsIn(owed[c]) \subseteq written
         /\ \A a \in Command : Underway(a, c) => Backed(a, c)

SuccessInv == ResponseInv /\ WireInv /\ AnswerInv

\* The response that an acknowledgement finds is its own, whose packet was
\* written.
LEMMA AckFindsOwn ==
    ASSUME SuccessInv, NEW c \in Clients, NEW n \in DOMAIN owed[c], sendPc = "idle",
           NEW x \in Items(responses[c]) \cup Items(outbound[c]), x.token = owed[c][n].token
    PROVE  x.op = owed[c][n].op
<1>1. owed[c][n] \in Command /\ TokenInv
  BY SMTT(60) DEF SuccessInv, ResponseInv, TokenInv, OwnInv, TypeInv, TypeOK
<1>2. Backed(owed[c][n], c)
  BY <1>1 DEF SuccessInv, AnswerInv, Underway, Items
<1>3. owed[c][n] \in Owners(c) /\ x \in Owners(c) /\ owed[c][n].kind # "PUB0"
  BY <1>2, OwnersAre DEF Backed
<1>4. QED
  BY <1>1, <1>3 DEF TokenInv

\* What is acknowledged was written, and success comes of an acknowledgement only.
LEMMA AnswerStep ==
    OneClient /\ NoQoS0 /\ SuccessInv /\ [Next]_vars => AnswerInv'
<1> SUFFICES ASSUME OneClient, NoQoS0, SuccessInv, [Next]_vars PROVE AnswerInv'
  OBVIOUS
<1>0. /\ TokenInv /\ OwnInv /\ TypeInv /\ WireInv /\ AnswerInv
      /\ commands \in Seq(Command)
      /\ outbound \in [Clients -> Seq(Command)] /\ owed \in [Clients -> Seq(Command)]
      /\ responses \in [Clients -> Seq(Command)]
      /\ sockPending \in [Clients -> Command \cup {NoCommand}]
      /\ pendingWrite \in [Clients -> Ops \cup {NoOp}]
      /\ sendPc # "idle" => sendCmd \in Command
  BY DEF SuccessInv, ResponseInv, TokenInv, OwnInv, TypeInv, TypeOK
<1>T. /\ outbound' \in [Clients -> Seq(Command)] /\ owed' \in [Clients -> Seq(Command)]
      /\ sockPending' \in [Clients -> Command \cup {NoCommand}]
  BY <1>0, TypeStep DEF TypeInv, TypeOK
<1>K. \A x \in Command : x.kind = "PUB1" \/ x.kind = "SUB"
  BY CommandFields, KindsAssumption DEF NoQoS0
<1> USE CommandFields, NullAssumption
<1>1. CASE UNCHANGED <<outbound, owed, responses, sockPending, pendingWrite, success, written,
                       sendPc, sendCmd, sendRc>>
  BY <1>0, <1>1 DEF AnswerInv, Underway, Backed
<1>2. CASE Dequeue
  <2>1. /\ UNCHANGED <<outbound, owed, responses, sockPending, pendingWrite, success, written>>
        /\ sendPc = "idle" /\ sendPc' = "write"
    BY <1>2 DEF Dequeue, clientVars, netVars
  <2>2. QED
    BY <1>0, <2>1 DEF AnswerInv, Underway, Backed
<1>3. ASSUME NEW rc \in {"COMPLETE", "INTERRUPTED", "SOCKET_ERROR"}, WritePacket(rc)
      PROVE  AnswerInv'
  <2>c. PICK c \in Clients : c = sendCmd.client
    BY <1>0, <1>3 DEF WritePacket
  <2>1. /\ sendCmd \in Command /\ sendCmd.op \in Ops
        /\ UNCHANGED <<sendCmd, responses, pendingWrite, success>>
        /\ sendPc = "write" /\ sendRc' = rc
        /\ \A d \in Clients : d = c
        /\ outbound[c] \in Seq(Command) /\ owed[c] \in Seq(Command)
    BY <1>0, <1>3, <2>c DEF WritePacket, OneClient
  <2>2. sendPc' = "finish"
    BY <1>3, <1>K, <2>1 DEF WritePacket
  <2>3. \/ sendCmd.kind = "PUB1" /\ outbound'[c] = Append(outbound[c], sendCmd)
        \/ sendCmd.kind = "SUB" /\ outbound'[c] = outbound[c]
    BY <1>0, <1>3, <1>K, <2>c, <2>1 DEF WritePacket
  <2>4. /\ written \subseteq written'
        /\ \/ owed'[c] = owed[c] /\ sockPending'[c] = sockPending[c]
           \/ /\ owed'[c] = owed[c] /\ sockPending'[c] = sendCmd /\ rc = "INTERRUPTED"
           \/ /\ owed'[c] = Append(owed[c], sendCmd) /\ sockPending'[c] = sockPending[c]
              /\ sendCmd.op \in written' /\ rc = "COMPLETE"
    BY <1>0, <1>3, <2>c, <2>1 DEF WritePacket
  <2>5. /\ Items(Append(outbound[c], sendCmd)) = Items(outbound[c]) \cup {sendCmd}
        /\ Items(Append(owed[c], sendCmd)) = Items(owed[c]) \cup {sendCmd}
        /\ OpsIn(Append(owed[c], sendCmd)) = OpsIn(owed[c]) \cup {sendCmd.op}
    BY <2>1, ItemsInLists, OpsMade
  <2>6. ASSUME NEW a \in Command, Underway(a, c)' PROVE Backed(a, c)'
    <3>1. Underway(a, c) \/ (a = sendCmd /\ rc # "SOCKET_ERROR")
      BY <2>4, <2>5, <2>6 DEF Underway
    <3>2. CASE Underway(a, c)
      <4>1. Backed(a, c)
        BY <1>0, <2>1, <3>2 DEF AnswerInv
      <4>2. QED
        BY <2>1, <2>3, <2>5, <4>1 DEF Backed
    <3>3. CASE a = sendCmd /\ rc # "SOCKET_ERROR"
      BY <2>1, <2>2, <2>3, <2>5, <3>3 DEF Backed
    <3>4. QED
      BY <3>1, <3>2, <3>3
  <2>7. /\ \A x \in Items(outbound'[c]) : x.kind = "PUB1"
        /\ OpsIn(owed'[c]) \subseteq written'
        /\ pendingWrite'[c] = NoOp /\ success' \subseteq written'
    <3>1. /\ \A x \in Items(outbound[c]) : x.kind = "PUB1"
          /\ OpsIn(owed[c]) \subseteq written
          /\ pendingWrite[c] = NoOp /\ success \subseteq written
      BY <1>0 DEF AnswerInv
    <3>2. \A x \in Items(outbound'[c]) : x.kind = "PUB1"
      BY <2>3, <2>5, <3>1
    <3>3. OpsIn(owed'[c]) \subseteq written'
      BY <2>4, <2>5, <3>1
    <3>4. QED
      BY <2>1, <2>4, <3>1, <3>2, <3>3
  <2>8. QED
    BY <2>1, <2>2, <2>6, <2>7 DEF AnswerInv
<1>4. CASE FlagPendingWrite
  BY <1>0, <1>4 DEF FlagPendingWrite, AnswerInv
<1>5. CASE FinishCommand
  <2>c. PICK c \in Clients : c = sendCmd.client
    BY <1>0, <1>5 DEF FinishCommand
  <2>1. /\ sendCmd \in Command
        /\ UNCHANGED <<outbound, owed, sockPending, pendingWrite, written>>
        /\ sendPc = "finish" /\ sendPc' = "idle"
        /\ \A d \in Clients : d = c
    BY <1>0, <1>5, <2>c DEF FinishCommand, OneClient
  <2>2. /\ UNCHANGED success
        /\ \/ sendRc = "SOCKET_ERROR" /\ UNCHANGED responses
           \/ responses'[c] = Append(responses[c], sendCmd)
    BY <1>0, <1>5, <1>K, <2>c, <2>1 DEF FinishCommand, CallBack
  <2>3. Items(Append(responses[c], sendCmd)) = Items(responses[c]) \cup {sendCmd}
    BY <1>0, <2>1, ItemsInLists
  <2>4. ASSUME NEW a \in Command, Underway(a, c)' PROVE Backed(a, c)'
    <3>1. Underway(a, c)
      BY <2>1, <2>4 DEF Underway
    <3>2. Backed(a, c)
      BY <1>0, <2>1, <3>1 DEF AnswerInv
    <3>3. QED
      BY <2>1, <2>2, <2>3, <3>2 DEF Backed
  <2>5. QED
    BY <1>0, <2>1, <2>2, <2>4 DEF AnswerInv
<1>6. ASSUME NEW c \in Clients, NEW ok \in BOOLEAN, WriteComplete(c, ok) PROVE AnswerInv'
  <2> DEFINE w == sockPending[c]
  <2>1. /\ UNCHANGED <<outbound, sendPc, sendCmd, sendRc>> /\ w # NoCommand /\ w \in Command
        /\ sockPending'[c] = NoCommand /\ pendingWrite'[c] = NoOp /\ pendingWrite[c] = NoOp
        /\ written \subseteq written'
        /\ \/ owed'[c] = owed[c]
           \/ owed'[c] = Append(owed[c], w) /\ w.op \in written'
        /\ owed[c] \in Seq(Command)
        /\ \A d \in Clients : d = c
    BY <1>0, <1>6 DEF WriteComplete, sendVars, OneClient, AnswerInv
  <2>2. UNCHANGED <<responses, success>>
    BY <1>6, <2>1 DEF WriteComplete
  <2> HIDE DEF w
  <2>3. /\ Items(Append(owed[c], w)) = Items(owed[c]) \cup {w}
        /\ OpsIn(Append(owed[c], w)) = OpsIn(owed[c]) \cup {w.op}
    BY <2>1, ItemsInLists, OpsMade
  <2>4. ASSUME NEW a \in Command, Underway(a, c)' PROVE Backed(a, c)'
    <3>1. Underway(a, c)
      BY <2>1, <2>3, <2>4 DEF Underway, w
    <3>2. Backed(a, c)
      BY <1>0, <3>1 DEF AnswerInv
    <3>3. QED
      BY <2>1, <2>2, <3>2 DEF Backed
  <2>5. OpsIn(owed'[c]) \subseteq written' /\ success' \subseteq written'
    BY <1>0, <2>1, <2>2, <2>3 DEF AnswerInv
  <2>6. QED
    BY <1>0, <2>1, <2>4, <2>5 DEF AnswerInv
<1>7. ASSUME NEW c \in Clients, NEW n \in DOMAIN owed[c], NEW ok \in BOOLEAN,
             Acknowledge(c, n, ok)
      PROVE  AnswerInv'
  <2> DEFINE ack == owed[c][n]
             O == outbound[c]
             R == responses[c]
             W == owed[c]
  <2>1. /\ UNCHANGED <<sendPc, sendCmd, sendRc, sockPending, pendingWrite, written>> /\ sendPc = "idle"
        /\ O \in Seq(Command) /\ R \in Seq(Command) /\ W \in Seq(Command)
        /\ ack \in Command /\ ack.op \in OpsIn(W)
        /\ owed'[c] = Detach(W, n) /\ Distinct(W)
        /\ \A d \in Clients : d = c
    BY <1>0, <1>7 DEF Acknowledge, Unlocked, sendVars, OneClient, WireInv, OpsIn
  <2>2. \/ outbound'[c] = O
        \/ \E m \in DOMAIN O : O[m].token = ack.token /\ outbound'[c] = Detach(O, m)
    <3>1. \/ UNCHANGED outbound
          \/ \E m \in DOMAIN O : /\ O[m].token = ack.token
                                 /\ outbound' = [outbound EXCEPT ![c] = Detach(@, m)]
      BY <1>7 DEF Acknowledge, IsFirst, WithToken
    <3>2. QED
      BY <1>0, <3>1
  <2>3. \/ UNCHANGED <<responses, success>>
        \/ \E r \in DOMAIN R : /\ R[r].token = ack.token
                               /\ responses'[c] = Detach(R, r)
                               /\ success' \subseteq success \cup {R[r].op}
    <3>1. \/ UNCHANGED <<responses, success>>
          \/ \E r \in DOMAIN R : /\ R[r].token = ack.token
                                 /\ responses' = [responses EXCEPT ![c] = Detach(@, r)]
                                 /\ success' \subseteq success \cup {R[r].op}
      BY <1>7 DEF Acknowledge, IsFirst, WithToken, CallBack
    <3>2. QED
      BY SMTT(60), <1>0, <3>1
  <2> HIDE DEF ack, O, R, W
  <2>4. \A x \in Items(R) \cup Items(O) : x.token = ack.token => x.op = ack.op
    BY <2>1, AckFindsOwn DEF ack, R, O
  <2>5. \A x \in Items(O) : x.op # ack.op => x \in Items(outbound'[c])
    <3>1. ASSUME NEW m \in DOMAIN O, O[m].token = ack.token PROVE O[m].op = ack.op
      BY <2>4, <3>1 DEF Items
    <3>2. \A m \in DOMAIN O : Items(O) \subseteq Items(Detach(O, m)) \cup {O[m]}
      BY <2>1, ItemsInLists
    <3>3. QED
      BY <2>2, <3>1, <3>2
  <2>6. \A x \in Items(R) : x.op # ack.op => x \in Items(responses'[c])
    <3>1. ASSUME NEW m \in DOMAIN R, R[m].token = ack.token PROVE R[m].op = ack.op
      BY <2>4, <3>1 DEF Items
    <3>2. \A m \in DOMAIN R : Items(R) \subseteq Items(Detach(R, m)) \cup {R[m]}
      BY <2>1, ItemsInLists
    <3>3. QED
      BY <2>3, <3>1, <3>2 DEF R
  <2>7. Items(outbound'[c]) \subseteq Items(O)
    BY <2>1, <2>2, ItemsInLists
  <2>8. /\ Items(owed'[c]) \subseteq Items(W) /\ OpsIn(owed'[c]) \subseteq OpsIn(W)
        /\ \A x \in Items(owed'[c]) : x.op # ack.op
    <3>1. n \in DOMAIN W
      BY DEF W
    <3>2. Items(Detach(W, n)) \subseteq Items(W) /\ OpsIn(Detach(W, n)) \subseteq OpsIn(W)
      BY <2>1, <3>1, ItemsInLists, OpsMade
    <3>3. W[n].op \notin OpsIn(Detach(W, n))
      BY <2>1, <3>1, DistinctMade
    <3>4. \A x \in Items(Detach(W, n)) : x.op \in OpsIn(Detach(W, n))
      BY OpsOfItems
    <3>5. QED
      BY <2>1, <3>2, <3>3, <3>4 DEF ack, W
  <2>9. success' \subseteq written'
    <3>1. ack.op \in written /\ success \subseteq written
      BY <1>0, <2>1 DEF AnswerInv, W
    <3>2. ASSUME NEW r \in DOMAIN R, R[r].token = ack.token PROVE R[r].op \in written
      BY <2>4, <3>1, <3>2 DEF Items
    <3>3. QED
      BY <2>1, <2>3, <3>1, <3>2
  <2>10. ASSUME NEW a \in Command, Underway(a, c)' PROVE Backed(a, c)'
    <3>1. Underway(a, c)
      BY <2>1, <2>8, <2>10 DEF Underway, W
    <3>2. a.op # ack.op
      <4>1. CASE a \in Items(owed'[c])
        BY <2>8, <4>1
      <4>2. CASE a = sockPending[c] /\ a # NoCommand
        BY <1>0, <2>1, <4>2 DEF WireInv, W
      <4>3. QED
        BY <2>1, <2>10, <4>1, <4>2 DEF Underway
    <3>3. Backed(a, c)
      BY <1>0, <3>1 DEF AnswerInv
    <3>4. QED
      BY <2>1, <2>5, <2>6, <3>2, <3>3 DEF Backed, O, R
  <2>11. QED
    BY <1>0, <2>1, <2>7, <2>8, <2>9, <2>10 DEF AnswerInv, O, W
<1>8. ASSUME NEW c \in Clients, NEW present \in BOOLEAN, NEW n \in [Clients -> 0 .. MaxInflight],
             NEW broken \in SUBSET Clients, ConnectionUp(c, present, n, broken)
      PROVE  AnswerInv'
  <2> DEFINE resend == {d \in Clients : (d = c \/ state[d] # "down") /\ sockPending[d] = NoCommand}
  <2>1. /\ UNCHANGED <<sendPc, sendCmd, sendRc, pendingWrite, success>> /\ state[c] = "down"
        /\ \A d \in Clients : d = c
        /\ owed[c] = <<>> /\ sockPending[c] = NoCommand /\ Distinct(outbound[c])
    BY <1>0, <1>8 DEF ConnectionUp, Unlocked, sendVars, OneClient, WireInv
  <2>2. outbound'[c] = outbound[c] \/ outbound'[c] = <<>>
    BY <1>0, <1>8 DEF ConnectionUp, CleanUp, KeepSession
  <2>3. Distinct(<<>>) /\ OpsIn(<<>>) = {} /\ Items(<<>>) = {}
    BY DEF Distinct, OpsIn, Items
  <2>4. Distinct(outbound'[c]) /\ \A x \in Items(outbound'[c]) : x.kind = "PUB1"
    BY <1>0, <2>1, <2>2, <2>3 DEF AnswerInv
  <2>5. CASE UNCHANGED <<owed, sockPending, written>>
    <3>1. \A a : ~Underway(a, c)'
      BY <2>1, <2>3, <2>5 DEF Underway
    <3>2. QED
      BY <1>0, <2>1, <2>3, <2>4, <2>5, <3>1 DEF AnswerInv
  <2>6. CASE Resend(resend, n, broken)
    <3>1. c \in resend /\ resend \in SUBSET Clients
      BY <2>1
    <3> HIDE DEF resend
    <3>2. /\ Items(owed'[c]) \subseteq Items(outbound'[c])
          /\ sockPending'[c] # NoCommand => sockPending'[c] \in Items(outbound'[c])
          /\ OpsIn(owed'[c]) \subseteq written'
          /\ written \subseteq written'
      BY <1>T, <2>1, <2>4, <2>6, <3>1, ResendOne
    <3>3. ASSUME NEW a \in Command, Underway(a, c)' PROVE Backed(a, c)'
      BY <2>4, <3>2, <3>3 DEF Underway, Backed
    <3>4. QED
      BY <1>0, <2>1, <2>4, <3>2, <3>3 DEF AnswerInv
  <2>7. QED
    BY <1>8, <2>5, <2>6 DEF ConnectionUp
<1>9. ASSUME NEW c \in Clients, NEW only \in BOOLEAN, ConnectionDown(c, only) PROVE AnswerInv'
  <2>1. /\ UNCHANGED <<sendPc, sendCmd, sendRc, pendingWrite, success, written>>
        /\ \A d \in Clients : d = c
        /\ owed'[c] = <<>> /\ sockPending'[c] = NoCommand
        /\ outbound'[c] = outbound[c] \/ outbound'[c] = <<>>
    BY <1>0, <1>9 DEF ConnectionDown, sendVars, OneClient, CleanUp, KeepSession
  <2>2. OpsIn(<<>>) = {} /\ Items(<<>>) = {}
    BY DEF OpsIn, Items
  <2>3. \A a : ~Underway(a, c)'
    BY <2>1, <2>2 DEF Underway
  <2>4. QED
    BY <1>0, <2>1, <2>2, <2>3 DEF AnswerInv
<1>10. ASSUME NEW c \in Clients, StartDisconnect(c) PROVE AnswerInv'
  BY <1>1, <1>10 DEF StartDisconnect, clientVars, sendVars, histVars
<1>11. ASSUME NEW t \in Threads, AppStep(t) PROVE AnswerInv'
  BY <1>1, <1>11 DEF AppStep, AssignMsgId, CheckBuffer, AddCommand, clientVars, sendVars, netVars,
                     histVars
<1>12. ASSUME NEW t \in Threads, NEW c \in Clients, NEW k \in Kinds, NEW o \in Ops,
              Call(t, c, k, o)
       PROVE  AnswerInv'
  BY <1>1, <1>12 DEF Call, clientVars, sendVars, netVars
<1>13. CASE UNCHANGED vars
  BY <1>1, <1>13 DEF vars, clientVars, sendVars, netVars, histVars
<1>14. QED
  BY <1>2, <1>3, <1>4, <1>5, <1>6, <1>7, <1>8, <1>9, <1>10, <1>11, <1>12, <1>13
  DEF Next, SendStep, ReceiveStep, ConnectionStep

\* With one thread, one client and no QoS 0 publish, onSuccess of a request means
\* that its own packet was wholly written.
THEOREM SuccessWritten ==
    ASSUME OneThread, OneClient, NoQoS0
    PROVE  Spec => []SuccessMeansWritten
<1>1. Init => SuccessInv
  <2>1. Init => MessageInv /\ AnswerInv
    BY DEF Init, MessageInv, AnswerInv, Underway, Backed, Items, OpsIn
  <2>2. QED
    BY <2>1, TokenInit, WireInit DEF SuccessInv, ResponseInv
<1>2. SuccessInv /\ [Next]_vars => SuccessInv'
  <2> SUFFICES ASSUME SuccessInv, [Next]_vars PROVE SuccessInv'
    OBVIOUS
  <2>1. TokenInv' /\ MessageInv'
    BY TokenStep, MessageStep DEF SuccessInv, ResponseInv
  <2>2. WireInv'
    BY WireStep DEF SuccessInv, ResponseInv, TokenInv, RetryInv
  <2>3. AnswerInv'
    BY AnswerStep
  <2>4. QED
    BY <2>1, <2>2, <2>3 DEF SuccessInv, ResponseInv
<1>3. SuccessInv => SuccessMeansWritten
  BY DEF SuccessInv, AnswerInv, SuccessMeansWritten
<1>4. QED
  BY <1>1, <1>2, <1>3, PTL DEF Spec

====
