------------------------------ MODULE SocketIO -------------------------------
(***************************************************************************)
(* The socket layer: Socket.c and SocketBuffer.c.  A non-blocking read     *)
(* that stops in the middle of a packet keeps what it has in the queue of  *)
(* its socket, header bytes apart from the rest, and is started again from *)
(* the header; a write that stops is kept and continued when the socket    *)
(* can be written.  The operators take and return the state of the readers *)
(* (s) or of the writers (w).                                              *)
(***************************************************************************)
EXTENDS Integers, Sequences, SequencesExt, FiniteSetsExt, Functions

CONSTANTS Conns,          \* connections, identified with their sockets
          None            \* no socket

Flatten(seqs) == FlattenSeq(seqs)

(***************************************************************************)
(* Reading.  s.in[c] is what has arrived and has not been read, s.eof the  *)
(* connections the server has closed; s.queues has the sockets with a      *)
(* packet read in part, s.def is def_queue, which serves whole packets of  *)
(* all of them.                                                            *)
(***************************************************************************)
SocketBuffer_newDefQ == [socket |-> None, index |-> 0, header |-> <<>>, data |-> <<>>]

Queued(s, c) == c \in DOMAIN s.queues
CurQueue(s, c) == IF Queued(s, c) THEN s.queues[c] ELSE s.def

\* the queue becomes that of the socket, to be read from its first header byte
SocketBuffer_interrupted(s, c, data) ==
  [s EXCEPT !.queues = [d \in DOMAIN @ \cup {c} |->
                          IF d = c THEN [CurQueue(s, c) EXCEPT !.socket = c, !.index = 0, !.data = data] ELSE @[d]],
            !.def = IF Queued(s, c) THEN @ ELSE SocketBuffer_newDefQ]

SocketBuffer_complete(s, c) ==
  [s EXCEPT !.queues = Restrict(@, DOMAIN @ \ {c}), !.def = SocketBuffer_newDefQ]

SocketBuffer_cleanup(s, c) ==
  [s EXCEPT !.queues = Restrict(@, DOMAIN @ \ {c}),
            !.def = IF @.socket = c THEN SocketBuffer_newDefQ ELSE @]

\* def_queue cannot be shared, and a header has at most 5 bytes: the byte is not kept otherwise
SocketBuffer_queueChar(s, c, b) ==
  LET q == IF ~Queued(s, c) /\ s.def.socket = None
           THEN [s.def EXCEPT !.socket = c, !.index = 0, !.data = <<>>] ELSE CurQueue(s, c)
      kept == q.socket = c /\ q.index <= 4
      r == IF kept THEN [q EXCEPT !.header = Append(SubSeq(@, 1, q.index), b), !.index = @ + 1] ELSE q
  IN IF Queued(s, c) THEN [s EXCEPT !.queues[c] = r] ELSE [s EXCEPT !.def = r]

\* a header byte that was read before, an error, or nothing
SocketBuffer_getQueuedChar(s, c) ==
  LET q == s.queues[c]
  IN IF Queued(s, c) /\ q.index < Len(q.header)
     THEN {[s |-> [s EXCEPT !.queues[c].index = @ + 1], rc |-> "complete", data |-> <<q.header[q.index + 1]>>]}
     ELSE IF Queued(s, c) /\ q.index > 4 THEN {[s |-> s, rc |-> "error", data |-> <<>>]} ELSE {}

Socket_getch(s, c) ==
  LET queued == SocketBuffer_getQueuedChar(s, c)
      b == Head(s.in[c])
  IN IF queued # {} THEN CHOOSE r \in queued : TRUE
     ELSE IF s.in[c] # <<>>
          THEN [s |-> SocketBuffer_queueChar([s EXCEPT !.in[c] = Tail(@)], c, b), rc |-> "complete", data |-> <<b>>]
     ELSE IF c \in s.eof THEN [s |-> s, rc |-> "error", data |-> <<>>]
     ELSE [s |-> SocketBuffer_interrupted(s, c, <<>>), rc |-> "interrupted", data |-> <<>>]

\* SocketBuffer_getQueuedData
Socket_getdata(s, c, n) ==
  LET have == IF Queued(s, c) THEN s.queues[c].data ELSE <<>>
      m    == Min({n - Len(have), Len(s.in[c])})
      all  == have \o SubSeq(s.in[c], 1, m)
      t    == [s EXCEPT !.in[c] = SubSeq(@, m + 1, Len(@))]
  IN IF n = 0 THEN [s |-> SocketBuffer_complete(s, c), rc |-> "complete", data |-> <<>>]
     ELSE IF m = 0 /\ c \in s.eof THEN [s |-> s, rc |-> "error", data |-> <<>>]
     ELSE IF Len(all) = n THEN [s |-> SocketBuffer_complete(t, c), rc |-> "complete", data |-> all]
     ELSE [s |-> SocketBuffer_interrupted(t, c, all), rc |-> "interrupted", data |-> all]

(***************************************************************************)
(* Writing.  w.write_pending has the sockets with an unfinished write      *)
(* (their order in the list is left out), w.writes its buffers and the     *)
(* number of bytes written, w.out what went to the network.  room is what  *)
(* the system takes: 0 for EWOULDBLOCK, -1 for an error, after which the   *)
(* socket stays broken (w.broken).                                         *)
(***************************************************************************)
Socket_noPendingWrites(w, c) == c \notin w.write_pending

\* Socket_writev
Written(bytes, room) == SubSeq(bytes, 1, Min({room, Len(bytes)}))

Breaks(w, c, room) == room = -1 \/ c \in w.broken
Broken(w, c) == [w EXCEPT !.broken = @ \cup {c}]

Socket_putdatas(w, c, iovecs, room) ==
  LET sent == Written(Flatten(iovecs), room)
      v == [w EXCEPT !.out[c] = @ \o sent]
  IN IF ~Socket_noPendingWrites(w, c) THEN [w |-> w, rc |-> "error"]
     ELSE IF Breaks(w, c, room) THEN [w |-> Broken(w, c), rc |-> "error"]
     ELSE IF Len(sent) = Len(Flatten(iovecs)) THEN [w |-> v, rc |-> "complete"]
     ELSE [w |-> [v EXCEPT !.write_pending = @ \cup {c}, !.pending_wset = @ \cup {c},
                           !.writes[c] = [iovecs |-> iovecs, bytes |-> Len(sent)]],     \* SocketBuffer_pendingWrite
           rc |-> "interrupted"]

\* Buffers that have been written in part are written again from their start.
UnwrittenWhole(pw) ==
  FoldLeft(LAMBDA a, v : [len |-> a.len + Len(v),
                          iovecs |-> IF pw.bytes < a.len + Len(v) THEN Append(a.iovecs, v) ELSE a.iovecs],
           [len |-> 0, iovecs |-> <<>>], pw.iovecs).iovecs

\* a: the length of the buffers before v (curbuflen) and what is left of them
LeftOf(a, v, bytes) ==
  [len |-> a.len + Len(v),
   iovecs |-> IF bytes <= a.len THEN Append(a.iovecs, v)
              ELSE IF bytes < a.len + Len(v) THEN Append(a.iovecs, SubSeq(v, bytes - a.len + 1, Len(v)))
              ELSE a.iovecs]

\* what is left of the buffers
Unwritten(pw) ==
  LET left[n \in 0..Len(pw.iovecs)] ==
        IF n = 0 THEN [len |-> 0, iovecs |-> <<>>] ELSE LeftOf(left[n - 1], pw.iovecs[n], pw.bytes)
  IN left[Len(pw.iovecs)].iovecs

NoWrite == [iovecs |-> <<>>, bytes |-> 0]

Socket_continueWrite(w, c, room) ==
  LET pw == w.writes[c]
      sent == Written(Flatten(Unwritten(pw)), room)
      bytes == pw.bytes + Len(sent)
  IN IF Breaks(w, c, room) THEN [w |-> Broken(w, c), rc |-> "error"]
     ELSE [w |-> [w EXCEPT !.writes[c].bytes = bytes, !.out[c] = @ \o sent],
           rc |-> IF bytes = Len(Flatten(pw.iovecs)) THEN "complete" ELSE "interrupted"]

\* SocketBuffer_writeComplete, and the lists
WriteOver(w, c) ==
  [w EXCEPT !.writes[c] = NoWrite, !.pending_wset = @ \ {c}, !.write_pending = @ \ {c}]

\* Every pending write of a socket that can be written goes on, each on its own; the last of those
\* that fail is returned.
Socket_continueWrites(w, pwset, room) ==
  LET going  == w.write_pending \cap pwset
      r(c)   == Socket_continueWrite(w, c, room[c])
      over   == {c \in going : r(c).rc # "interrupted"}
      failed == {c \in going : r(c).rc = "error"}
  IN [w |-> [w EXCEPT !.write_pending = @ \ over, !.pending_wset = @ \ over,
                      !.writes = [c \in Conns |-> IF c \in over THEN NoWrite
                                                  ELSE IF c \in going THEN r(c).w.writes[c] ELSE @[c]],
                      !.out = [c \in Conns |-> IF c \in going THEN r(c).w.out[c] ELSE @[c]],
                      !.broken = @ \cup failed],
      failed |-> failed]
=============================================================================
