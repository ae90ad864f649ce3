------------------------------ MODULE WireWrite ------------------------------
(***************************************************************************)
(* Sending packets over sockets and WebSockets: WebSocket.c masks a packet *)
(* and puts a frame header in front of it, Socket.c writes as much as the  *)
(* system takes and continues later.  Bytes are 0..255.                    *)
(***************************************************************************)
EXTENDS SocketIO

CONSTANTS WebSockets,     \* the connections that are WebSockets
          Messages,       \* what may be published: topic and payload
          ShortPackets,        \* what MQTTPacket_send sends: header with remaining length, and one buffer
          Rooms,          \* how many bytes the system takes of a write; 0 is EWOULDBLOCK, -1 an error
          NewMask         \* the mask that is generated; its bytes are 0 or 128, so that xor is an addition

Bytes == Seq(0..255)

ASSUME WireAssumption ==
  /\ WebSockets \subseteq Conns /\ Rooms \subseteq Nat \cup {-1}
  /\ \A m \in Messages : m.topic \in Bytes /\ m.payload \in Bytes
  /\ \A p \in ShortPackets : p.head \in Bytes /\ p.body \in Bytes
  /\ NewMask \in [1..4 -> {0, 128}]

VARIABLES message,         \* the message that is published
          pub,             \* as it is in memory, for each connection: topic, payload and mask
          wr,              \* the writers; ghosts: what was taken for sending, and the sockets closed
          freed            \* ghost: a control frame was written in part, and its buffers freed at once

writeVars == <<message, pub, wr, freed>>

\* opcodes
BINARY == 2
CLOSE == 8
PING == 9
PONG == 10

(***************************************************************************)
(* Frames.                                                                 *)
(***************************************************************************)
NoMask == <<0, 0, 0, 0>>
Xor(b, m) == (b + m) % 256
\* the bytes of a buffer that starts at position start of the packet
Masked(b, mask, start) == [j \in DOMAIN b |-> Xor(b[j], mask[((start + j - 1) % 4) + 1])]
Start(buf0, bufs, i) == Len(buf0) + Len(Flatten(SubSeq(bufs, 1, i - 1)))
MaskedAll(buf0, bufs, mask) == [i \in DOMAIN bufs |-> Masked(bufs[i], mask, Start(buf0, bufs, i))]

PayloadLength(n) ==
  IF n < 126 THEN <<128 + n>>
  ELSE IF n < 65536 THEN <<128 + 126, n \div 256, n % 256>>
  ELSE <<128 + 127, 0, 0, 0, 0, n \div 16777216, (n \div 65536) % 256, (n \div 256) % 256, n % 256>>

\* A frame, and its buffers masked in place with a new mask, or, if they have one, as far as the
\* buffer with number 2 or the last one.
WebSocket_buildFrame(op, buf0, bufs, mask) ==
  LET new == mask[1] = 0
      m == IF new THEN NewMask ELSE mask
      todoMask(i) == new \/ (i < 3 /\ i < Len(bufs))
  IN [wsbuf0 |-> <<128 + op>> \o PayloadLength(Start(buf0, bufs, Len(bufs) + 1)) \o m \o Masked(buf0, m, 0),
      bufs |-> [i \in DOMAIN bufs |-> IF todoMask(i) THEN Masked(bufs[i], m, Start(buf0, bufs, i)) ELSE bufs[i]],
      mask |-> m]

(***************************************************************************)
(* What was taken for sending, and where its bytes start: right after what *)
(* was taken before it.                                                    *)
(***************************************************************************)
WireLen(c, a) == Len(a.bytes) + (IF c \in WebSockets THEN 5 + Len(PayloadLength(Len(a.bytes))) ELSE 0)
EndOf(c, a) == a.at + WireLen(c, a)
Total(c, taken) == IF taken = <<>> THEN 0 ELSE EndOf(c, taken[Len(taken)])
Accept(w, c, op, bytes) ==
  [w EXCEPT !.accepted[c] = Append(@, [op |-> op, bytes |-> bytes, at |-> Total(c, @)])]

(***************************************************************************)
(* Writing.                                                                *)
(***************************************************************************)
\* WebSocket_unmaskData when the write is over
WebSocket_putdatas(w, c, buf0, bufs, mask, room) ==
  LET f == WebSocket_buildFrame(BINARY, buf0, bufs, mask)
      r == IF c \in WebSockets THEN Socket_putdatas(w, c, <<f.wsbuf0>> \o f.bufs, room)
           ELSE Socket_putdatas(w, c, <<buf0>> \o bufs, room)
      stays == r.rc = "interrupted"
  IN [w |-> r.w, rc |-> r.rc,
      bufs |-> IF c \notin WebSockets THEN bufs ELSE IF stays THEN f.bufs ELSE MaskedAll(buf0, f.bufs, f.mask),
      mask |-> IF c \notin WebSockets THEN mask ELSE IF stays THEN f.mask ELSE NoMask]

\* WebSocket_pong, whose result nobody looks at; refused while a write is pending
WebSocket_pong(w, c, payload, room) ==
  LET f == WebSocket_buildFrame(PONG, <<>>, <<payload>>, NoMask)
      r == Socket_putdatas(w, c, <<f.wsbuf0>> \o f.bufs, room)
  IN IF r.rc = "error" THEN r.w ELSE Accept(r.w, c, PONG, payload)

\* a pong for every ping that was received
Ponged(w, c, payloads, rooms) ==
  LET p[n \in 0..Len(payloads)] == IF n = 0 THEN w ELSE WebSocket_pong(p[n - 1], c, payloads[n], rooms[n])
  IN p[Len(payloads)]

\* freed memory that was given to somebody else
Reused(iovecs) == [i \in DOMAIN iovecs |-> [j \in DOMAIN iovecs[i] |-> 0]]

\* Socket_close, with Socket_abortWrite
WritesClosed(w, c) == [WriteOver(w, c) EXCEPT !.closed = @ \cup {c}]

\* the result of a write; after an error the session is closed
Sent(w, c, r, packet) ==
  IF r.rc = "error" THEN WritesClosed(r.w, c) ELSE Accept(r.w, c, BINARY, packet)

\* WebSocket_close, then Socket_close: a CLOSE frame if nothing is pending
StatusCode == <<3, 232>>
CloseFrame(w, c, room) ==
  Socket_putdatas(w, c, <<WebSocket_buildFrame(CLOSE, StatusCode, <<>>, NoMask).wsbuf0>>, room)
CloseWritten(w, c, room) ==
  LET r == CloseFrame(w, c, room)
  IN WritesClosed(IF c \in WebSockets /\ r.rc # "error" THEN Accept(r.w, c, CLOSE, StatusCode) ELSE w, c)

(***************************************************************************)
(* The steps.                                                              *)
(***************************************************************************)
Weights == <<1, 128, 16384, 2097152>>
\* the header of a QoS 1 PUBLISH, with the remaining length
PublishHeader(n) ==
  LET k == IF n < 128 THEN 1 ELSE IF n < 16384 THEN 2 ELSE IF n < 2097152 THEN 3 ELSE 4
  IN <<50>> \o [i \in 1..k |-> ((n \div Weights[i]) % 128) + (IF i < k THEN 128 ELSE 0)]
TwoBytes(n) == <<(n \div 256) % 256, n % 256>>

\* MQTTPacket_send_publish: four buffers, of which topic and payload are those of the message
PublishBytes(c, room) ==
  LET buf0 == PublishHeader(4 + Len(message.topic) + Len(message.payload))
      len  == TwoBytes(Len(message.topic))
      r    == WebSocket_putdatas(wr, c, buf0, <<len, pub[c].topic, <<0, 7>>, pub[c].payload>>, pub[c].mask, room)
  IN /\ c \notin wr.closed /\ Socket_noPendingWrites(wr, c)
     /\ wr' = Sent(wr, c, r, buf0 \o len \o message.topic \o <<0, 7>> \o message.payload)
     /\ pub' = [pub EXCEPT ![c] = [topic |-> r.bufs[2], payload |-> r.bufs[4], mask |-> r.mask]]
     /\ UNCHANGED <<message, freed>>

\* MQTTPacket_send: a packet with one buffer of its own; it may meet a pending write
PacketBytes(c, p, room) ==
  /\ c \notin wr.closed
  /\ wr' = Sent(wr, c, WebSocket_putdatas(wr, c, p.head, <<p.body>>, NoMask, room), p.head \o p.body)
  /\ UNCHANGED <<message, pub, freed>>

\* The socket is closed by the application.  The frame header is freed by WebSocket_close, and by
\* Socket_abortWrite again if the frame was written in part.
CloseBytes(c, room) ==
  /\ c \notin wr.closed
  /\ wr' = CloseWritten(wr, c, room)
  /\ freed' = (freed \/ (c \in WebSockets /\ CloseFrame(wr, c, room).rc = "interrupted"))
  /\ UNCHANGED <<message, pub>>

\* Pings are answered while a packet is read; the socket is closed if that fails.  A pong that is
\* written in part goes on from memory that was freed, and may be used by then.
AnswerBytes(c, payloads, rooms, used, fails) ==
  LET w == Ponged(wr, c, payloads, rooms)
      cut == Socket_noPendingWrites(wr, c) /\ ~Socket_noPendingWrites(w, c)
      left == IF cut /\ used THEN [w EXCEPT !.writes[c].iovecs = Reused(@)] ELSE w
  IN /\ c \notin wr.closed /\ (c \notin WebSockets => payloads = <<>>)
     /\ wr' = IF fails THEN WritesClosed(left, c) ELSE left
     /\ freed' = (freed \/ cut)
     /\ UNCHANGED <<message, pub>>

\* pending writes go on
ContinueBytes(pwset, room) ==
  /\ wr' = Socket_continueWrites(wr, pwset, room).w
  /\ UNCHANGED <<message, pub, freed>>

WriteInit ==
  /\ message \in Messages
  /\ pub = [c \in Conns |-> [topic |-> message.topic, payload |-> message.payload, mask |-> NoMask]]
  /\ wr = [write_pending |-> {}, pending_wset |-> {}, writes |-> [c \in Conns |-> NoWrite],
           out |-> [c \in Conns |-> <<>>], broken |-> {}, closed |-> {}, accepted |-> [c \in Conns |-> <<>>]]
  /\ freed = FALSE

\* A message that is still masked, because its write did not end at once, is not published again.
WriteOnceNext ==
  \/ \E c \in Conns, room \in Rooms : pub[c].mask = NoMask /\ PublishBytes(c, room)
  \/ \E c \in Conns, p \in ShortPackets, room \in Rooms : PacketBytes(c, p, room)
  \/ \E c \in Conns, room \in Rooms : CloseBytes(c, room)
  \/ \E c \in Conns, payloads \in Seq(Bytes), used \in BOOLEAN, fails \in BOOLEAN :
       \E rooms \in [DOMAIN payloads -> Rooms] : AnswerBytes(c, payloads, rooms, used, fails)
  \/ \E pwset \in SUBSET Conns : \E room \in [pwset -> Rooms] : ContinueBytes(pwset, room)

WriteOnceSpec == WriteInit /\ [][WriteOnceNext]_writeVars

(***************************************************************************)
(* What must hold.                                                         *)
(***************************************************************************)
\* what the server makes of the bytes of one packet
ServerSees(c, bytes) ==
  IF c \notin WebSockets THEN [op |-> BINARY, bytes |-> bytes]
  ELSE LET len7 == bytes[2] % 128
           h == IF len7 < 126 THEN 6 ELSE IF len7 = 126 THEN 8 ELSE 14
       IN [op |-> bytes[1] % 16, bytes |-> Masked(SubSeq(bytes, h + 1, Len(bytes)), SubSeq(bytes, h - 3, h), 0)]

\* Every packet that is on the wire from its first to its last byte is read
\* by the server as the library was asked to send it, packets in the order
\* in which they were taken and none inside another, and nothing is left
\* unwritten without a pending write: whatever part of each write the system
\* takes, in which buffer it stops, and whichever thread writes or closes
\* meanwhile (Socket.c:512-575, 871-947, WebSocket.c:238-371, 941-979).  This
\* holds until a PONG or a CLOSE frame is written in part: its buffers are
\* freed with the write still pending, and nothing is claimed any more
\* (WebSocket.c:556-565, 913-916, 1200).
WrittenAsSent ==
  ~freed => \A c \in Conns :
    LET bytes == wr.out[c]
        taken == wr.accepted[c]
    IN /\ \A i \in DOMAIN taken :
            Len(bytes) >= EndOf(c, taken[i]) =>
              ServerSees(c, SubSeq(bytes, taken[i].at + 1, EndOf(c, taken[i])))
                = [op |-> taken[i].op, bytes |-> taken[i].bytes]
       /\ Len(bytes) <= Total(c, taken)
       /\ c \notin wr.broken \cup wr.closed /\ Socket_noPendingWrites(wr, c) => Len(bytes) = Total(c, taken)
=============================================================================
