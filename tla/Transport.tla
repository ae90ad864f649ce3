------------------------------ MODULE Transport ------------------------------
(***************************************************************************)
(* Packets over sockets and WebSockets: the loop of the receive thread     *)
(* over the sockets (Socket_getReadySocket), MQTTPacket_Factory, which     *)
(* reads a packet in as many attempts as it takes to arrive, the frames of *)
(* WebSocket.c, and sending (WireWrite).  Connections are opened with      *)
(* their WebSocket handshake done.  in_frames and frame_buffer are one for *)
(* all connections.  Bytes are 0..255.                                     *)
(***************************************************************************)
EXTENDS WireWrite

CONSTANT Scenarios        \* what a server sends: stream (bytes) and packets; message, and how often it is published

VARIABLES scenario,        \* the scenario of this behaviour
          todo,            \* what the server has still to send, and how many packets are to be published
          clientsds,       \* the open sockets, in order
          connect_pending, \* those whose TCP connect is under way
          cur_clientsds,   \* the socket the receive thread looks at next, or None
          rset, wset,      \* what the last select said
          rt,              \* the receive thread: pc, sock and the writable sockets of its select
          rd,              \* the readers
          delivered        \* ghost: the packets MQTTPacket_Factory has returned

wireVars == <<scenario, todo, clientsds, connect_pending, cur_clientsds, rset, wset, rt, rd, writeVars, delivered>>

(***************************************************************************)
(* Reading WebSocket frames.  s.fb is frame_buffer, s.idx its index,       *)
(* s.frames is in_frames, which never has more than one frame.             *)
(***************************************************************************)
\* Bytes of the frame in hand come from frame_buffer, missing ones from the socket; 0 is "done with it".
WebSocket_getRawSocketData(s, c, n) ==
  LET buffered == Len(s.fb) - s.idx
      take(u) == LET k == Min({n, Len(u.fb) - u.idx})
                 IN [s |-> [u EXCEPT !.idx = @ + k], rc |-> "complete", data |-> SubSeq(u.fb, u.idx + 1, u.idx + k)]
      added(r) == IF r.rc = "error" \/ r.data = <<>> THEN r
                  ELSE take([SocketBuffer_complete(r.s, c) EXCEPT !.fb = @ \o r.data])
  IN IF n = 0 THEN [s |-> [SocketBuffer_complete(s, c) EXCEPT !.fb = <<>>, !.idx = 0], rc |-> "complete", data |-> <<>>]
     ELSE IF buffered >= n THEN take(s)
     ELSE added(Socket_getdata(s, c, n - buffered))

WebSocket_rewindData(s) == [s EXCEPT !.idx = 0]

BigEndian(b) == FoldLeft(LAMBDA n, x : 256 * n + x, 0, b)

\* One frame of WebSocket_receiveFrame.  The return code of a read served from frame_buffer is not
\* set: with uninit it happens to be SOCKET_ERROR.  The mask of a masked frame is read but not used.
ReadFrame(s, c, uninit) ==
  LET stop(r) == [s |-> r.s, rc |-> IF r.rc = "error" THEN "error" ELSE "interrupted"]
      len7(h) == h.data[2] % 128
      ext(h)  == CASE len7(h) = 126 -> 2 [] len7(h) = 127 -> 8 [] OTHER -> 0
      key(h)  == IF h.data[2] >= 128 THEN 4 ELSE 0
      \* the parts of the frame in turn: h the two header bytes, e the length, k the mask, b the payload
      payload(h, len, b) ==
        IF Len(b.data) < len THEN stop(b)
        ELSE [s |-> WebSocket_getRawSocketData(b.s, c, 0).s, rc |-> "complete", fin |-> h.data[1] >= 128,
              op |-> h.data[1] % 16, data |-> b.data]
      mask(h, len, k) ==
        IF Len(k.data) < key(h) THEN stop(k) ELSE payload(h, len, WebSocket_getRawSocketData(k.s, c, len))
      length(h, e) ==
        IF Len(e.data) < ext(h) THEN stop(e)
        ELSE mask(h, IF ext(h) = 0 THEN len7(h) ELSE BigEndian(e.data),
                  IF key(h) = 0 THEN e ELSE WebSocket_getRawSocketData(e.s, c, key(h)))
      header(h) ==
        IF Len(h.data) < 2 THEN stop(h)
        ELSE length(h, IF ext(h) = 0 THEN h ELSE WebSocket_getRawSocketData(h.s, c, ext(h)))
  IN IF uninit /\ Len(s.fb) - s.idx >= 2 THEN [s |-> s, rc |-> "error"]
     ELSE header(WebSocket_getRawSocketData(s, c, 2))

\* WebSocket_receiveFrame: frames up to the next one with data; a is its progress, a.res its res.  A
\* control frame that is received while in_frames has a frame is added to that frame, and frees it.
RECURSIVE ReceiveFrames(_, _, _)
ReceiveFrames(a, c, uninit) ==
  LET held == a.s.frames # <<>>
      opcode(f) == IF f.op = 0 THEN a.op ELSE f.op
      with(f) == [s |-> IF held THEN [f.s EXCEPT !.frames[1].data = a.res \o f.data] ELSE f.s,
                  op |-> opcode(f), res |-> a.res \o f.data]
      dropped(b) == [b.s EXCEPT !.dangling = @ \/ held]
      \* b is the progress with a frame added
      whole(b) ==
        CASE b.op \in {PING, PONG} ->
               ReceiveFrames([s |-> [dropped(b) EXCEPT !.pongs = IF b.op = PING THEN Append(@, b.res) ELSE @],
                              op |-> b.op, res |-> <<>>], c, uninit)
          [] b.op = CLOSE -> [s |-> dropped(b), rc |-> "error"]
          [] OTHER -> [s |-> IF held THEN b.s ELSE [b.s EXCEPT !.frames = <<[data |-> b.res, pos |-> 0]>>],
                       rc |-> "complete"]
      received(f) ==
        CASE f.rc = "interrupted" -> [s |-> WebSocket_rewindData(f.s), rc |-> "interrupted"]
          [] f.rc = "error" \/ opcode(f) > PONG \/ (opcode(f) > BINARY /\ opcode(f) < CLOSE) ->
               [s |-> f.s, rc |-> "error"]
          [] OTHER -> IF f.fin THEN whole(with(f)) ELSE ReceiveFrames(with(f), c, uninit)
  IN received(ReadFrame(a.s, c, uninit))

WebSocket_receiveFrame(s, c, uninit) ==
  ReceiveFrames([s |-> s, op |-> BINARY, res |-> IF s.frames = <<>> THEN <<>> ELSE s.frames[1].data], c, uninit)

Left(s) == IF s.frames = <<>> THEN 0 ELSE Len(s.frames[1].data) - s.frames[1].pos

WebSocket_getch(s, c, uninit) ==
  LET first(f, r) == [s |-> [r.s EXCEPT !.frames[1].pos = @ + 1], rc |-> "complete", data |-> <<f.data[f.pos + 1]>>]
      byte(r) == IF r.rc = "complete" THEN first(r.s.frames[1], r) ELSE [s |-> r.s, rc |-> r.rc, data |-> <<>>]
  IN IF c \notin WebSockets THEN Socket_getch(s, c)
     ELSE byte(IF Left(s) = 0 THEN WebSocket_receiveFrame(s, c, uninit) ELSE [s |-> s, rc |-> "complete"])

\* frames are added to the first one until it has n bytes
RECURSIVE Fill(_, _, _, _)
Fill(s, c, n, uninit) ==
  LET more(r) == IF r.rc = "complete" THEN Fill(r.s, c, n, uninit)
                 ELSE [s |-> r.s, rc |-> IF s.frames = <<>> THEN "error" ELSE "interrupted"]
  IN IF s.frames # <<>> /\ Left(s) >= n THEN [s |-> s, rc |-> "complete"]
     ELSE more(WebSocket_receiveFrame(s, c, uninit))

WebSocket_getdata(s, c, n, uninit) ==
  LET taken(r) == IF Left(r.s) > n THEN [r.s EXCEPT !.frames[1].pos = @ + n] ELSE [r.s EXCEPT !.frames = <<>>]
      bytes(f) == SubSeq(f.data, f.pos + 1, f.pos + n)
      filled(r) == IF r.rc # "complete" THEN [s |-> r.s, rc |-> r.rc, data |-> <<>>]
                   ELSE [s |-> taken(r), rc |-> "complete", data |-> bytes(r.s.frames[1])]
  IN IF c \notin WebSockets THEN Socket_getdata(s, c, n)
     ELSE IF n = 0 THEN [s |-> IF Left(s) = 0 THEN [s EXCEPT !.frames = <<>>] ELSE s, rc |-> "complete", data |-> <<>>]
     ELSE filled(Fill(s, c, n, uninit))

\* A factory that does not go back to the start of the packet in the frame.
SeekToNot(s, pos) == s

\* WebSocket_framePosSeekTo
SeekTo(s, pos) == IF s.frames = <<>> THEN s ELSE [s EXCEPT !.frames[1].pos = pos]

\* MQTTPacket_decode: at most four bytes
RECURSIVE Decode(_, _, _, _, _)
Decode(s, c, i, value, uninit) ==
  LET digit(r, v) ==
        IF r.data[1] >= 128 THEN Decode(r.s, c, i + 1, v, uninit) ELSE [s |-> r.s, rc |-> "complete", value |-> v]
      byte(r) == IF r.rc # "complete" THEN [s |-> r.s, rc |-> r.rc]
                 ELSE digit(r, value + (r.data[1] % 128) * 128 ^ (i - 1))
  IN IF i > 4 THEN [s |-> s, rc |-> "error"] ELSE byte(WebSocket_getch(s, c, uninit))

\* MQTTPacket_Factory: the packet, or why there is none
PacketFrom(s, c, uninit) ==
  LET pos == IF s.frames = <<>> THEN 0 ELSE s.frames[1].pos       \* WebSocket_framePos
      stop(r) == [s |-> IF r.rc = "interrupted" THEN SeekTo(r.s, pos) ELSE r.s, rc |-> r.rc]
      body(h, b) == IF b.rc # "complete" THEN stop(b) ELSE [s |-> b.s, rc |-> "complete", pack |-> h.data \o b.data]
      length(h, l) == IF l.rc # "complete" THEN stop(l) ELSE body(h, WebSocket_getdata(l.s, c, l.value, uninit))
      header(h) == IF h.rc # "complete" THEN stop(h) ELSE length(h, Decode(h.s, c, 1, 0, uninit))
  IN header(WebSocket_getch(s, c, uninit))

(***************************************************************************)
(* Opening and closing.                                                    *)
(***************************************************************************)
WireInit ==
  /\ scenario \in Scenarios
  /\ todo = [stream |-> scenario.stream, publish |-> scenario.publish]
  /\ clientsds = <<>> /\ connect_pending = {} /\ cur_clientsds = None
  /\ rset = {} /\ wset = {}
  /\ rt = [pc |-> "idle", sock |-> None, pwset |-> {}]
  /\ rd = [in |-> [c \in Conns |-> <<>>], eof |-> {}, queues |-> [c \in {} |-> SocketBuffer_newDefQ],
           def |-> SocketBuffer_newDefQ, fb |-> <<>>, idx |-> 0, frames |-> <<>>, pongs |-> <<>>, dangling |-> FALSE]
  /\ WriteInit /\ message = scenario.message
  /\ delivered = [c \in Conns |-> <<>>]

IsOpen(c) == c \in Range(clientsds)
IsUp(c) == IsOpen(c) /\ c \notin connect_pending
After(c) ==    \* the next element of clientsds
  LET i == CHOOSE j \in DOMAIN clientsds : clientsds[j] = c
  IN IF i = Len(clientsds) THEN None ELSE clientsds[i + 1]

\* Socket_new with Socket_addSocket: the connect is under way, or done at once
Socket_new(c, pending) ==
  /\ ~IsOpen(c) /\ c \in scenario.opens /\ delivered[c] = <<>> /\ wr.out[c] = <<>> /\ c \notin rd.eof
  /\ clientsds' = Append(clientsds, c)
  /\ connect_pending' = IF pending THEN connect_pending \cup {c} ELSE connect_pending
  /\ UNCHANGED <<scenario, todo, cur_clientsds, rset, wset, rt, rd, writeVars, delivered>>

\* Socket_close apart from its writes; the server's end is closed as well
SocketClosed(c, s) ==
  /\ clientsds' = SelectSeq(clientsds, LAMBDA d : d # c)
  /\ connect_pending' = connect_pending \ {c}
  /\ cur_clientsds' = IF cur_clientsds = c THEN After(c) ELSE cur_clientsds
  /\ rd' = [SocketBuffer_cleanup(s, c) EXCEPT !.in[c] = <<>>, !.eof = @ \cup {c}]

\* WebSocket_close, then Socket_close
Close(c, room) ==
  /\ IsOpen(c) /\ scenario.ends
  /\ CloseBytes(c, room)
  /\ SocketClosed(c, rd)
  /\ UNCHANGED <<scenario, todo, rset, wset, rt, delivered>>

(***************************************************************************)
(* The receive thread.                                                     *)
(***************************************************************************)
\* isReady
Ready(c, readable, writable, w) ==
  \/ c \in connect_pending /\ c \in writable
  \/ c \in readable /\ c \in writable /\ Socket_noPendingWrites(w, c)

From(c) ==     \* the sockets from c on
  IF c = None THEN <<>> ELSE SubSeq(clientsds, CHOOSE j \in DOMAIN clientsds : clientsds[j] = c, Len(clientsds))

\* the first one that is ready is returned; a connect that is over leaves connect_pending
Pick(sockets, readable, writable, w) ==
  LET ready == SelectSeq(sockets, LAMBDA c : Ready(c, readable, writable, w))
  IN IF ready = <<>>
     THEN /\ rt' = [pc |-> "idle", sock |-> None, pwset |-> {}] /\ cur_clientsds' = None
          /\ UNCHANGED connect_pending
     ELSE LET c == Head(ready)
          IN /\ cur_clientsds' = After(c)
             /\ connect_pending' = connect_pending \ {c}
             /\ rt' = [pc |-> IF c \in connect_pending THEN "idle" ELSE "ready", sock |-> c, pwset |-> {}]

\* Socket_getReadySocket goes on with the sockets of the last select
NextReady ==
  /\ rt.pc = "idle" /\ cur_clientsds # None
  /\ Pick(From(cur_clientsds), rset, wset, wr)
  /\ UNCHANGED <<scenario, todo, clientsds, rset, wset, rd, writeVars, delivered>>

\* the first select, with the mutex unlocked
SelectReturns(writable) ==
  /\ rt.pc = "idle" /\ cur_clientsds = None /\ clientsds # <<>>
  /\ rset' = {c \in Range(clientsds) : rd.in[c] # <<>> \/ c \in rd.eof}
  /\ rt' = [pc |-> "selected", sock |-> None, pwset |-> writable]
  /\ UNCHANGED <<scenario, todo, clientsds, connect_pending, cur_clientsds, wset, rd, writeVars, delivered>>

\* pending writes go on, the second select, and the first ready socket; a connect may be over by then
ContinueWrites(room, connected) ==
  /\ rt.pc = "selected"
  /\ ContinueBytes(rt.pwset, room)
  /\ LET writable == (Range(clientsds) \ connect_pending) \cup connected
         failed == Socket_continueWrites(wr, rt.pwset, room).failed
     IN /\ wset' = writable
        /\ \/ \E sock \in failed : /\ rt' = [pc |-> "failed", sock |-> sock, pwset |-> {}]
                                   /\ UNCHANGED <<connect_pending, cur_clientsds>>
           \/ failed = {} /\ Pick(clientsds, rset, writable, wr')
  /\ UNCHANGED <<scenario, todo, clientsds, rset, rd, delivered>>

RtIdle == rt' = [pc |-> "idle", sock |-> None, pwset |-> {}]

\* the socket was closed meanwhile, or its write has failed
Failed ==
  /\ rt.pc = "failed" \/ (rt.pc = "ready" /\ ~IsOpen(rt.sock))
  /\ RtIdle
  /\ IF IsOpen(rt.sock) THEN SocketClosed(rt.sock, rd) /\ AnswerBytes(rt.sock, <<>>, <<>>, FALSE, TRUE)
     ELSE UNCHANGED <<clientsds, connect_pending, cur_clientsds, rd, writeVars>>
  /\ UNCHANGED <<scenario, todo, rset, wset, delivered>>

\* a packet is read, or as much of it as has arrived; pings on the way are answered
ReadPacketFrom(uninit, used) ==
  LET c == rt.sock
  IN /\ rt.pc = "ready" /\ IsOpen(c)
     /\ RtIdle
     /\ \E r \in {PacketFrom(rd, c, uninit)} :
          LET s == [r.s EXCEPT !.pongs = <<>>]
          IN /\ \E rooms \in [DOMAIN r.s.pongs -> Rooms] : AnswerBytes(c, r.s.pongs, rooms, used, r.rc = "error")
             /\ delivered' = IF r.rc = "complete" THEN [delivered EXCEPT ![c] = Append(@, r.pack)] ELSE delivered
             /\ IF r.rc = "error" THEN SocketClosed(c, s)
                ELSE rd' = s /\ UNCHANGED <<clientsds, connect_pending, cur_clientsds>>
     /\ UNCHANGED <<scenario, todo, rset, wset>>

(***************************************************************************)
(* Sending.                                                                *)
(***************************************************************************)
\* after an error of a write the session is closed
SessionAfter(c) ==
  IF c \in wr'.closed THEN SocketClosed(c, rd) ELSE UNCHANGED <<clientsds, connect_pending, cur_clientsds, rd>>

SendPublish(c, room) ==
  /\ IsUp(c) /\ todo.publish[c] > 0
  /\ PublishBytes(c, room)
  /\ SessionAfter(c)
  /\ todo' = [todo EXCEPT !.publish[c] = @ - 1]
  /\ UNCHANGED <<scenario, rset, wset, rt, delivered>>

\* an acknowledgement
SendAck(c, p, room) ==
  /\ IsUp(c) /\ delivered[c] # <<>> /\ Len(wr.accepted[c]) < scenario.limit
  /\ PacketBytes(c, p, room)
  /\ SessionAfter(c)
  /\ UNCHANGED <<scenario, todo, rset, wset, rt, delivered>>

(***************************************************************************)
(* The server.                                                             *)
(***************************************************************************)
Arrive(c) ==
  /\ IsUp(c) /\ todo.stream[c] # <<>>
  /\ rd' = [rd EXCEPT !.in[c] = Append(@, Head(todo.stream[c]))]
  /\ todo' = [todo EXCEPT !.stream[c] = Tail(@)]
  /\ UNCHANGED <<scenario, clientsds, connect_pending, cur_clientsds, rset, wset, rt, writeVars, delivered>>

ServerCloses(c) ==
  /\ IsUp(c) /\ c \notin rd.eof /\ scenario.ends
  /\ rd' = [rd EXCEPT !.eof = @ \cup {c}]
  /\ todo' = [todo EXCEPT !.stream[c] = <<>>]
  /\ UNCHANGED <<scenario, clientsds, connect_pending, cur_clientsds, rset, wset, rt, writeVars, delivered>>

WireNext ==
  \/ \E c \in Conns, pending \in BOOLEAN : Socket_new(c, pending)
  \/ \E c \in Conns, room \in Rooms \ {-1} : Close(c, room)
  \/ NextReady
  \/ \E writable \in SUBSET wr.pending_wset : SelectReturns(writable)
  \/ \E room \in [rt.pwset -> Rooms], connected \in SUBSET connect_pending : ContinueWrites(room, connected)
  \/ Failed
  \/ \E uninit, used \in BOOLEAN : ReadPacketFrom(uninit, used)
  \/ \E c \in Conns, room \in Rooms : SendPublish(c, room) \/ \E p \in ShortPackets : SendAck(c, p, room)
  \/ \E c \in Conns : Arrive(c) \/ ServerCloses(c)

(***************************************************************************)
(* What must hold.                                                         *)
(***************************************************************************)
\* a packet that follows a returned one in the same frame: it is read when more bytes arrive
Behind(s) == Left(s) > 0 /\ s.frames[1].pos > 0

\* The packets read from a connection are those the server sent, in order
\* and unchanged, however they are cut up on the way and whatever the other
\* connection receives between two attempts to read one; and when everything
\* that was sent has been taken from the socket, all packets have been
\* returned, save those that share a WebSocket frame with the last one: the
\* receive thread asks the sockets only, not in_frames (MQTTPacket.c:103-178,
\* Socket.c:355-440, SocketBuffer.c:176-334, WebSocket.c:592-883, 993-1226,
\* MQTTAsyncUtils.c:2967-2994).
ReadAsWritten ==
  /\ ~rd.dangling
  /\ \A c \in Conns :
       /\ IsPrefix(delivered[c], scenario.packets[c])
       /\ IsUp(c) /\ c \notin rd.eof /\ todo.stream[c] = <<>> /\ rd.in[c] = <<>>
            => delivered[c] = scenario.packets[c] \/ (c \in WebSockets /\ Behind(rd))
=============================================================================
