# Verification of the Paho MQTT C client (SOCKS5 fork)

TLA+ models of the MQTT client library under `src/src`, the asynchronous and the
synchronous client and the layers below them, checked with TLC and, where stated, proved
with TLAPS. All line numbers are those of the commit in `src/`;
`PROJECT.json` maps every definition to the lines it stands for.

## 1. The system

An application creates client handles and calls the library from any of its
threads. Two library threads serve all handles of the process: the *send thread*
takes commands off one global list and writes packets, the *receive thread* reads
packets, matches acknowledgements and calls the application back.

| component | state | operations | hard behaviour |
|---|---|---|---|
| command queue (`MQTTAsync.c`, `MQTTAsyncUtils.c`) | `MQTTAsync_commands`, per client `responses`, `outboundMsgs`, `noBufferedMessages`, `msgID`, `pending_write` | `send`, `subscribeMany`, `unsubscribeMany`, `assignMsgId`, `addCommand`, `processCommand`, `writeComplete`, acknowledgements, `cleanSession` | three kinds of threads, two mutexes held over different regions, one path under neither |
| connection management (same files, `MQTTProtocolOut.c`) | `connect_state`, `connected`, `connect`, `disconnect`, `shouldBeConnected`, `retrying`, `reconnectNow`, retry intervals | `connect`, `disconnect`, `reconnect`, `nextOrClose`, `checkTimeouts`, `checkDisconnect`, `connecting`, CONNACK | fallback over URIs and MQTT versions, timers, copies of a command with its callbacks |
| QoS flows (`MQTTProtocolClient.c`) | `outboundMsgs`, `inboundMsgs`, `messageQueue` | `startPublish`, `handlePublishes`, `handlePubacks`, `handlePubrecs`, `handlePubrels`, `handlePubcomps`, `retries` | lost connections, duplicates, exactly-once |
| persistence (`MQTTPersistence.c`, `MQTTPacket.c`) | keys for commands, sent and received PUBLISH, PUBREL, queue entries | put, remove, restore at start | stops between two writes, order after a restart |
| socket layer (`Socket.c`, `SocketBuffer.c`) | ready set, pending writes, partly read packets | `putdatas`, `continueWrite`, `getReadySocket`, `close` | partial reads and writes |
| WebSocket (`WebSocket.c`) | frame buffers, fragments | upgrade, put, get, ping/pong, close | fragmentation, control frames in between |
| SOCKS5 and HTTP proxies (`MQTTSocks5*.c`, `WebSocket.c`, `MQTTProtocolOut.c`) | handshake state, packet under construction | handshake with a read thread of its own, waited for under `mqttasync_mutex` | timeout against late reply |
| keepalive (`MQTTProtocolClient.c`) | `ping_outstanding`, `lastSent`, `lastReceived` | `keepalive`, `handlePingresps` | timeout against late answer |
| thread lifecycle (`Thread.c`, `MQTTAsync_stop`) | thread states, `tostop`, condition | start, stop, destroy | stop during start, waits without a signal |
| synchronous client (`MQTTClient.c`) | its own handles, semaphores, run flag | `connect`, `publish`, `waitForCompletion`, `yield`, `receive` | callbacks against blocking calls |
| packet codec, properties, lists, trees, UTF-8, log | data structures | pure | boundaries |

They interact as follows. API calls append to the command list
(`mqttcommand_mutex`) and signal the send thread. `processCommand` holds
`mqttasync_mutex` from the scan of the list to the end of the command;
`mqttcommand_mutex` only for the scan. The receive thread holds `mqttasync_mutex`
in its handlers, but not in `Socket_getReadySocket`, which continues a partial
write and calls `writeComplete`. Timers run in the send thread. A failed command,
a failed resend or a missed ping queues an *internal* DISCONNECT at the head of
the list. What the components must guarantee is in section 4; what is hard to
test, at its line, is in `PROJECT.json` under `hazards`.

## 2. Modules

| module | models |
|---|---|
| `AsyncCommands` | the command queue: application threads, send thread, receive thread, any number of clients |
| `AsyncConnect` | one client's connection: commands CONNECT and DISCONNECT, stages, fallbacks, timeouts, automatic reconnect |
| `Delivery` | abstract: accept, deliver (once for QoS 2), complete |
| `QoSFlow` | both directions of QoS 1 and 2 with the store, a standard-conforming server, lost connections and restarts; implements `Delivery` twice |
| `QoSCrash` | `QoSFlow` with a process that may stop inside two handlers |
| `SyncClient` | the synchronous client: one application call at a time, the background thread, semaphores, polling, the WebSocket upgrade, keepalive |
| `SocketIO` | operators on the state of `Socket.c` and `SocketBuffer.c`: queues of half-read packets, pending writes |
| `WireWrite` | over `SocketIO`: packets and WebSocket frames out, masking, partial and pending writes, several connections |
| `Transport` | over `WireWrite`: the select loop, `MQTTPacket_Factory`, WebSocket frames in |
| `PacketBuild` | the bytes of every packet as written, with properties, and the lengths announced for them |
| `PacketCodec` | over `PacketBuild`: the packets read back |
| `TextCodec` | UTF-8 validation and Base64 |
| `FileStore` | persistence in files, with stops and short writes |
| `HeapTree`, `LinkedList`, `TraceLog` | the heap tracker on its red-black tree, lists, the trace |
| `MCAsyncCommands`, `MCAsyncConnect`, `MCQoSFlow`, `MCSyncClient`, `MCTransport`, `MCSupport` | instances for TLC; the first adds symmetry; `MCSupport` composes the modules of the lower layers side by side |
| `AsyncCommandsProofs` | all safety properties of `AsyncCommands`, proved |
| `AsyncConnectProofs` | all safety properties of `AsyncConnect`, proved |
| `QoSFlowProofs`, `QoSDeliveryProofs` | the store matches memory, no message is lost, `QoSFlow` implements `Delivery`, proved |
| `SyncClientProofs` | all safety properties of `SyncClient`, proved |
| `WireProofs` | packets are written whole, in order and unchanged (`WireWrite`), proved |
| `PacketProofs` | announced lengths are exact and fields are read back as sent (`PacketBuild`, `PacketCodec`), proved |
| `SupportProofs` | the properties of `FileStore`, `LinkedList`, `TraceLog` and `TextCodec`, proved |

### AsyncCommands
A request is a record of client, kind, token (message id) and the identity of the
API call (`op`). The kinds are `PUB0`, `PUB1` (QoS 1 or 2: the model's
acknowledgement is the last one) and `SUB` (SUBSCRIBE or UNSUBSCRIBE). An API call
is a sequence of steps: `Call` (entry checks), `AssignMsgId`, `CheckBuffer`,
`AddCommand`, since each of these takes and releases its locks on its own. The send
thread is `Dequeue`, `WritePacket`, `FlagPendingWrite`, `FinishCommand`; while it is
in there, `mqttasync_mutex` is held (`Unlocked` is false) and only application
threads and `WriteComplete` interleave. The receive thread is `WriteComplete` and
`Acknowledge`. The connection is `ConnectionUp` (with the session cleaned or kept
and the in-flight messages of *all* connected clients resent), `ConnectionDown` and
`StartDisconnect`. `pending_write` may dangle; `WriteComplete` chooses what it then
finds. `stage`, `calls`, `success` and `written` are history variables.

### AsyncConnect
One client; commands of others may be at the head of the list, hence the choice in
`AddHead`. `net` says whether the server can be reached and answers in time.
A connect call is `ConnectBegin`, `ConnectOptions` and `ConnectAdd`: the unlocked write of
the callbacks into `m->connect`, that of the options with the list of server URIs (its
length is `uriCount`), and the queueing of the command, with whatever happens in between.
TLS and WebSocket handshakes are the stage `HANDSHAKE`; `PROXY` is the state a failed
proxy handshake leaves behind.

### QoSFlow
The store has one field per kind of key. Each handler is one action with its change
of the store. A restart rebuilds memory from the store (`Restart`), including the
reordering of in-flight messages by `wrapMsgID` (`InOrder`). Connections are FIFO in
both directions, and what is on them is lost with them. `Connect` resends as many of the
messages in flight as the socket takes at once; the others are in `stalled` until the next
connection, since nothing resumes the resending. A queued message is offered to the
application again after a socket event of the client (`SocketEvent`, or a packet that was
handled), by `DeliverQueued`, and may be refused again. In-session retries are off
(`retryInterval` 0). The server is external and
follows the MQTT standard; `PubrelDup` says whether it sets DUP in a repeated PUBREL.

### SyncClient
The records follow the code: `m` is the client (`MQTTClients` with its `Clients`), `bg`
the thread with the globals `running` and `tostop`, `call` the call the application is
in, `net` the connection with the server behind it. A step is what happens between
taking and releasing `mqttclient_mutex`; helpers map one world `[m, bg, net, hist]` to
the next, so that `MQTTClient_disconnect1`, which is called from everywhere, is one
definition. The thread is `RunSelect` (without the mutex), `RunCycle`, `RunHandle`,
`RunCallback`, `RunDrained`. A call that waits is in `wait` and samples `running` once
(`EnterWait`), as `MQTTClient_waitfor` does: then `WaitSem` or `WaitPoll`. `Expire` is
the passing of its timeout. The time left of a connect is an unsigned difference, so a connect
that is late (`Overdue`) finds 0, or a huge number: its wait is over at once or, without the
thread, `endless`. Message flows are a PUBLISH and the packet that ends its
flow, since `QoSFlow` has the rest. `hist` is history.

### SocketIO, WireWrite and Transport
`wr` is the writing side of all connections (`write_pending`, `pending_wset`, the queue of
pending writes, the bytes each socket has taken), `pub` the message as it is in memory,
where `WebSocket_putdatas` masks it. The ghost `accepted` records what the library took for
sending and where on the wire its frame must start. The steps `PublishBytes`, `PacketBytes`,
`CloseBytes`, `AnswerBytes` and `ContinueBytes` are the writing half of the steps of
`Transport`, which adds reading and the select loop; `WriteOnceSpec` is the writing half on
its own, for a message that is not published again while its buffers are still masked.
A reader's state is a record (what has arrived, the queues, `frame_buffer`,
`in_frames`) and reading is a function of it, so that one attempt of
`MQTTPacket_Factory` is one action. The server's bytes arrive one at a time. Each
write meets a *room*: an error, none (EWOULDBLOCK), some bytes or plenty. That holds for
pongs and CLOSE frames too, whose memory is freed whatever was written: the ghost `freed` says
that one was cut, and its rest may be overwritten before it goes out. A return
code that `WebSocket_getRawSocketData` leaves unset is a choice (`uninit`). Masks have
bytes 0 and 128 only, for which xor is an addition; a mask that starts with 0 is not
generated.

### The other layers
`PacketBuild` builds a packet, what the client sends as the code writes it, what a server
sends after the MQTT standard, and `PacketCodec` reads it back. `FileStore` keeps directories
of files with their content, complete or cut off; after `fopen` a put may write everything,
fail and remove the file, fail and leave it, or fail in `fclose` without noticing (`Outcomes`;
`unflushed` remembers the last case). `HeapTree` has the nodes of the tree
with parent, children and colour, `LinkedList` the elements with their links, and both
are compared with what they stand for. `TraceLog` has the ring and the two trace files.

## 3. Runs, bounds, fairness

| run | instance | checks |
|---|---|---|
| `commands_threads` | 1 client, 2 threads, 3 calls, window 1, buffer 1, delete oldest | `CallbackAtMostOnce`, `NothingForgotten`, `ReportedIsReleased`, `BufferCount`, `InflightBounded` |
| `commands_serial` | 1 client, 1 thread, 4 calls, ids 1..3, window 2, buffer 1 | `TypeOK`, `UniqueTokens`, `ResponseHasMessage`, `SuccessMeansWritten`, `NoAcceptedMessageDeleted`, `NoInSessionRetry` |
| `commands_drain` | 1 client, 2 calls, clean session, fair | `StaysUpDrains` |
| `commands_retry` | 2 clients | `NoInSessionRetry`: violated |
| `commands_stall` | 1 client, 2 in flight, session kept, fair | `StaysUpDrains`: violated |
| `connect` | 2 connect calls and a disconnect call, two of them made, lists of 1 and 2 URIs, versions default and 3.1.1, intervals 1..2, fair | `TypeOK`, `URIInBounds`, `OneConnectQueued`, `DisconnectReportedOnce`, `StillTrying`, `NoSilentLoss`, `Reconnects`, `ConnectAnswered` |
| `connect_version` | default version | `ConnectVersionChosen`: violated |
| `qos` | QoS 1 and QoS 2 message each way, 2 ids, queue of 1, keep alive, fair | `TypeOK`, `StoreMatchesMemory`, `NoMessageLost`, `OutboundDelivery`, `InboundDelivery`, `OutboundCompletes`, `InboundCompletes` |
| `qos_crash` | one message each way, stops inside handlers | `NoMessageLost`: violated |
| `support` | the units of `MCSupport` one at a time: 6 blocks, 4 list items, a ring of 3, 4 store calls, the packets of `MCSupport`, texts of up to 4 bytes, 7 scenarios on one TCP and one WebSocket connection | `HeapAccounted`, `ListIsSequence`, `TraceKept`, `StoredIsFound`, `LengthIsExact`, `ReadAsSent`, `TextExact`, `WrittenAsSent`, `ReadAsWritten` |
| `ws_resend` | a QoS 1 message published twice on a WebSocket | `WrittenAsSent`: violated |
| `sync` | seven clients (thread or not, TCP or WebSocket, default version or 5, session kept or clean) with up to two connects, fair | `Served`, `LossReported`, `CompletionMeansAcked`, `CallsReturn` |

Bounds. Four calls on three ids make ids wrap and be reused while older ones are
queued, in flight or waiting; three calls with buffer and window 1 fill both and
overflow them; two URIs and two versions make every fallback branch run, and a second
connect call may shorten the list during an attempt (`Calls` of `MCAsyncConnect` bounds the
calls: at most two, the second list the shorter one); one message
of each QoS in each direction covers each handler, and two ids let an id be reused by
another message. `MaxQueue` bounds the message queue, `Many` the history counts
(2 already distinguishes once from more than once).
`commands_serial` does not check for deadlock, because `assignMsgId` may loop for ever
(`hung`). `support` and `sync` do not either: their units and the application stop when
their calls are used up. All other passing runs do.
Six blocks are enough for every case of the balancing after a removal; a ring of 3 and
files of 4 lines wrap and rotate within 6 entries; the text bytes are the edges of the
table of ranges; the property lists have one property of each type, eleven of them (the
array grows by ten), and encodings of 127 and 128 bytes. In the scenarios of `Transport`
a write may stop in the WebSocket header, in any buffer or between two, and a read at
any byte. In `sync` two ids and a window of 1 make ids wrap and a publish block; two
connects let a connection follow one that was lost or whose thread is being stopped.

Fairness. In `AsyncCommands` and `QoSFlow`: the library's threads run whenever they
can (they loop and wait with timeouts), the server answers what it has received, and a
socket that has failed is closed. A message that the application is offered again and again
it takes in the end (strong fairness of `DeliverQueued(TRUE)`); that it is offered again
follows from the socket events which a keep alive goes on causing (weak fairness of
`SocketEvent`, only with `KeepAlive`), as a PINGREQ is answered. Nothing
is assumed of the connection itself: the liveness properties are conditional on it
staying up. In `AsyncConnect` the timers get strong fairness, since `checkTimeouts`
looks at the clock again and again and the clock advances; the network gets none,
and the liveness properties are conditional on it staying reachable. In `SyncClient`
the background thread and a call that is under way go on and time passes (weak fairness
of `RunNext`, `CallNext`, `Expire`); the application, the network and the server owe
nothing, so `CallsReturn` holds without any answer.

## 4. What the runs show

* Command queue: every accepted request is answered at most once, and until it is
  answered exactly one list or thread holds it; `noBufferedMessages` is exact; the
  window holds although it is checked in one critical section and used in another;
  message ids are unique with one calling thread.
* Connection: no fallback, retry or reconnect takes the URI index out of the array (a comment
  at `MQTTAsyncUtils.c:1527` fears it does); only a connect call that brings a shorter list
  during an attempt does. At most one CONNECT is queued; no connection is lost silently; with
  automatic reconnect the client keeps trying, and with a given MQTT version and an index in
  the array it ends up connected and its connect call, if it is the only one, is answered.
* Flows: `QoSFlow` implements `Delivery` in both directions for MQTT 3 over any mix of
  lost connections and restarts between handlers, and the store always matches memory. If the
  connection stays up, the flow of an outbound message ends unless the resending stopped
  before it, and that of an inbound one if the client has a keep alive.
* Synchronous client: a connection with callbacks is served by a running thread, with
  the exception below; a lost connection is reported exactly once, whoever finds it;
  `waitForCompletion` does not report success for a message that is still owed; calls
  with a timeout return, but for a connect that is late and has no thread.
* Transport: on a TCP and a WebSocket connection that interleave, packets leave whole, in
  order and unchanged for any cutting up of writes, until a pong or CLOSE frame is cut; they
  arrive so for any cutting up of reads, except that the second packet in a WebSocket frame
  may wait for more bytes.
* Codec and data: announced lengths are exact, fields are read back as sent (four byte
  properties up to 2^31 - 1), UTF-8
  validation is exact, the tree stays balanced and in order, lists never keep a freed
  current element, the trace has the latest entries and lines. What a put that returned 0
  stored is found again, whole unless its `fclose` failed.

Five runs end in a counterexample to what the documentation says; `findings` quotes it:

1. `commands_retry`: a reconnect resends the messages of *all* clients, so another
   client sends a PUBLISH twice on one connection.
2. `commands_stall`: a partial write ends the resending at reconnect for good.
3. `connect_version`: with the default version, a reconnect queued during an attempt
   resets the version of that attempt, and its CONNECT is not sent.
4. `qos_crash`: a stop between `unpersistCommand` and `putPacket` loses a message.
5. `ws_resend`: a message resent over a WebSocket after an unfinished write has its
   topic masked twice and its id not at all.

Limits of the passing results. These instances were tried and fail, and the hazards
record them; the properties are checked where they hold:

* `UniqueTokens` with two threads: an id is reserved only when its command is queued.
* `NoAcceptedMessageDeleted` with two threads: the limit is read twice.
* `SuccessMeansWritten` with QoS 0 publishes, and `NothingForgotten` with QoS 0
  publishes and subscriptions: `pending_write` is not cleared when a connection is
  closed, and may point to a freed command.
* `InboundCompletes` with a server that does not set DUP in a repeated PUBREL (as MQTT
  3.1.1 servers do not): the PUBREL is not answered.
* `InboundDelivery` with MQTT 5: the record restored after a restart makes the resent
  PUBLISH look like a duplicate.
* `URIInBounds` without its condition: `MQTTAsync_connect` replaces the list of URIs while an
  attempt has an index into the old one (`MQTTAsync.c:859-872`), which is then used without a
  check (`MQTTAsyncUtils.c:2063`, `2672`). `Reconnects` and `ConnectAnswered` are conditional
  on an index in the array for the same reason.
* `ConnectAnswered` with two connect calls: the second overwrites the callbacks of the first
  (`MQTTAsync.c:622`), or is dropped while a CONNECT is at the head of the list
  (`MQTTAsyncUtils.c:805`).
* `OutboundCompletes` for a message in `stalled`: the resending at reconnect ends at the first
  write that is not finished at once (finding 2).
* `InboundCompletes` without a keep alive: a message that was refused is not offered again
  while the socket is silent (`MQTTAsyncUtils.c:1980-2022`).
* `CallsReturn` for a connect whose time is up when it begins to wait without the thread: the
  time left has wrapped round and the poll does not end (`MQTTClient.c:1219, 1357, 1371, 2686`).
* `StoredIsFound` without `unflushed`: `pstput` does not look at the result of `fclose`
  (`MQTTPersistenceDefault.c:235`), where a small packet is written in fact, and returns 0 with a
  cut-off file. Nor does it look at that of `pstremove` (242), so that a put that failed may
  leave one too.
* `WrittenAsSent` once a pong or CLOSE frame was cut (`freed`): `WebSocket_pong` and
  `WebSocket_close` free what is still to be written (`WebSocket.c:913-916, 1200`; `566`).
* `ReadAsWritten` for the second packet in a WebSocket frame: it is in `in_frames`, but
  `isReady` and `MQTTAsync_cycle` look at the socket (`MQTTAsyncUtils.c:2967-2994`).
* `Served` for a connect that begins while `MQTTClient_stop` waits for the thread or the
  thread is on its way out: `running` is still set, no new thread is started, and the
  connection has nobody to serve it. The property makes an exception for a connection whose
  attempt began then (a call makes a second attempt when it falls back to another version).
* `StoredIsFound` after a clear on Unix: `clearUnix` looks names up in the working
  directory (`MQTTPersistenceDefault.c:640`).
* `ReadAsSent` for a DISCONNECT of one byte: its reason code is read as success.
* `ReadAsSent` for a four byte property of 2^31 or more. `writeInt4` splits a signed int by
  divisions that round towards zero (`MQTTPacket.c:925`), so that an expiry of 0xFFFFFFFF
  goes out as 255. In the model `num` of such a property is the int that `writeInt4` gets.
* `ReadAsWritten` with two WebSockets, which share `in_frames` and `frame_buffer`, and
  with a ping in the middle of a packet, which frees the frame that is being read.

## 5. Proofs

Each theorem holds for all values of the constants that satisfy the named assumptions of
its module, and for the hypotheses it names. None of the properties is inductive as it
stands; below is what had to be added. Every safety property of the runs `commands_*`,
`connect`, `qos` and `sync` that passes is also a theorem, and of the run `support` those
that are listed here.

**Command queue** (`KindsAssumption`, `LimitsAssumption`, `NullAssumption`: any number of
clients, threads and calls unless said otherwise).

* `TypeCorrect`: that a working thread holds a command rather than NULL must be known, and
  `TypeInv` adds it. `WindowKept` (`InflightBounded`): `WindowInv` adds that the room seen
  by the scan is still there while the send thread is about to store its message; this
  holds because nothing else appends to `outboundMsgs` and `mqttasync_mutex` is held.
* `CallbackOnce` and `ReportedReleased`. The argument is ownership: `OwnInv` says that the
  items of the command list are `queued` and different (`QueueOwn`), a calling thread's
  request is `calling` and its own (`CallOwn`), the send thread's is `sending` (`SendOwn`),
  those in response lists are `waiting` and different across all clients (`WaitOwn`), and a
  request has been reported exactly once when `done` and not at all otherwise (`CountOwn`).
  Each callback takes a request from `sending` or `waiting` to `done`, so it cannot happen
  twice.
* `BufferCounted`: the counter is the cardinality of the set of positions of the client's
  publishes, which grows or shrinks by one with every change of the list.
* `NoPublishForgotten` (`NothingForgotten`) for applications that do not subscribe. With
  QoS 0 publishes and subscriptions together a dangling `pending_write` may take a
  SUBSCRIBE away, as section 4 says. `KeepInv` is the converse of ownership: for each
  stage, the list or thread that must hold the request.
* `AcceptedNotDeleted`, `TokensUnique`, `MessagesKept` (`ResponseHasMessage`) for one
  calling thread (`OneThread`); with two they are false. `TokenInv` extends uniqueness to
  the request that is being built between `assignMsgId` and `addCommand`; `MessageInv`
  adds the message the send thread has stored and not yet finished.
* `NoRetryInSession` for one client; `commands_retry` is the counterexample with two.
  `WireInv` says that what was written in a session has left the send thread, and that
  lists, server and socket hold it once.
* `SuccessWritten` for one client, one thread and no QoS 0 publish. `AnswerInv`: an
  acknowledgement that is owed belongs to a written packet, and every owed or pending
  packet is backed by the record that the acknowledgement will find.

**Connection** (`ConnectAssumption`: any number of calls, URIs, versions, intervals).
`ConnectTypes`, `URIsInBounds`, `OneConnect`, `DisconnectOnce`, `AlwaysTrying`
(`StillTrying`) from `ConnectInv(Ix)`: every command in the list and in `m->connect` has its URI
index in the set `Ix` (`QueueOK`, `CmdOK`), a disconnect call is either queued, waited for or
reported, once (`PartInv`), and whatever is in progress was started by a CONNECT that
`nextOrClose` can repeat (`TryInv`). With all numbers for `Ix` it is an invariant of the
specification; with the array, it is kept by every step that does not shorten the array
(`Indexes`), which is `URIsInBounds`. `LossIsReported` is the action property
`NoSilentLoss`.

**Flows** (`FlowAssumption`: any messages, ids, windows and queue lengths).
`MemoryAlways` is the invariant `MemoryInv`: `FlowInv` (what is in memory is in the store
and the other way round, by id), `LinkInv` (at most one packet travels per message in
flight, in one of the two directions, and it agrees with what the sender waits for) and
`ReceivedInv` (a QoS 2 message in the store is one the server has in flight). Without
`LinkInv` a late PUBREC or PUBREL could meet a message that has since taken its id. From
it follow `FlowTypes`, `StoreMatches`, `NothingLost` and the two refinements:

* `OutboundRefines`: `Spec => OutboundDelivery`, the application's messages, with `SentInv`
  (what the server has of each message at each stage of its flow);
* `InboundRefines`: `Spec => InboundDelivery`, the server's messages, with `HandedInv`, for
  MQTT 3 (`~Version5`); with MQTT 5 it is false (section 4).

Both are refinements of the safety part of `Delivery`: initial states map to initial
states and every step to a step or a stutter. That `InOrder` sorts the restored messages
is shown by the rank of an element (the number of smaller ones) instead of by induction.

**Synchronous client** (`BoundsAssumption`, `SetupsAssumption`: any client, any number of
each call). `ThreadServes` (`Served`), `LossAlwaysReported` (`LossReported`) and
`CompletionTrue` (`CompletionMeansAcked`) from `SyncInv`. The helpers map worlds to worlds,
so `WorldInv` is about worlds, and `Keeps(w, v)` says what any piece of work between two
connections does: it keeps `WorldInv`, connects nobody and does not stop a thread that has
nothing to serve yet. Every helper has a lemma that it keeps, and every action is then a
composition of them. The strengthenings:

* `LossOK`: a connection that is no longer the current one is over, and the current one has
  not been reported (so whoever reports it is the first);
* `DoneOK`: a message is acknowledged, discarded, or in flight *under its own id*, which is
  why an id that was used again does not deceive `waitForCompletion`;
* `ThreadOK`: `running` is set exactly while the thread is there, and a DISCONNECT packet
  is only read from a live connection and acted upon while it lasts or by a thread that is
  being stopped (else a late one would close the next connection);
* `CallOK`: a connect call that waits has a live thread or is one of the excepted ones.

**Files and lists** (`ValuesAssumption`, `ContentsAssumption`: any ids, values, contents
and numbers of calls; the specifications are `StoreSpec` and `ListSpec`).

* `StoreFinds` (`StoredIsFound`): `StoreInv` says the same of the files while the store is
  closed, so that a stop of the process loses nothing that was answered for, and that a
  put under way has no answer yet.
* `ListsAreSequences` (`ListIsSequence`): `ListInv` adds that the elements are different and
  that the remembered element is one of them. `Chain` is what the links are; the lemmas
  `UnlinkedChain` and `JoinedChain` are the removal and the insertion at any place, of which
  the operations at the ends are instances. That a search returns an element of the list
  is an induction along the walk, done with a least counterexample (`LeastOf`).

**Trace** (`TraceConstants`: any size of the ring, of the trace files and of the banner).
`TraceIsKept` (`TraceKept`). `RingInv` says that the ring is empty, filling from its first slot,
or full, and that the slots from `start` on, modulo its size, are the last entries in order;
`OutputInv` that the trace file, behind its backup once it was rotated, has the last lines
printed.

**Packets** (`OutgoingAssumption`, `IncomingAssumption`: any packets whose fields have the
types the code gives them and whose remaining length MQTT allows; the specification is `BuildSpec`).
`LengthsAreExact` (`LengthIsExact`). The sums of lengths (of properties, of topics) are
recursive functions, compared term by term with the concatenations that are written, by a
least counterexample; `EncodeLen` is the same for the bytes of a variable byte integer.
`FieldsAreReadBack` is `CodecSpec => []ReadAsSent`. It assumes `ReadableAssumption` too (a
packet has the fields of its type and version, numbers and texts fit their fields, and a
DISCONNECT is not the one byte packet above) and `Int4sFit` (four byte properties below
2^31). `CodecInv` adds to the property that the bytes are those framed for the packet. Each
encoding has a lemma that the reader, given those bytes and anything after them, returns the
value and the rest: `IntBack`, `TextBack`, `Int4Back`, `LengthBack` for a variable byte
integer of one to four bytes, and `PropertyBack` for the types of properties. For a list
`PropertiesBack` says what the reader's loop holds after n rounds: the first n properties,
and the text of the others still to be read. `FrameBack` does the fixed header, one lemma
for each type of packet its body, and `BuiltIsReadBack` puts them together.

**Text** (`TextAssumption`: any bytes, texts of any length). `TextIsExact` (`TextExact`).
For a character of one to four bytes `ScalarsAre` compares the table of ranges with the
definition by code points; after that the walk of the code and the walk of the definition
are the same recursive function (`ValidIsUTF8`), without an induction. Base64 is defined for
each group, so that decoding is arithmetic on three bytes (`FirstByte`, `SecondByte`,
`ThirdByte`) and on the number of groups (`GroupsOf`, `PaddingIs`).

**Writing** (`WireAssumption`: any connections, messages, packets, and any part of a write
that the system takes; a mask has bytes 0 and 128). `WritesAreWhole` is
`WriteOnceSpec => []WrittenAsSent`; `ws_resend` shows what happens when a message is
published again that is still masked, which `WriteOnceSpec` excludes. As the property, the
invariant `WireInv` says nothing once a pong or CLOSE frame was cut (`freed`); until then it is

* `MessageKept`: a message whose mask is empty is in memory as it was published;
* `WritersOK`, for each connection: `OnWire` (each packet taken starts where the one before
  it ends, and as far as its bytes are on the wire they are those of its frame), `Pending`
  (a pending write holds exactly the rest of the last packet, whichever buffers that is in),
  and nothing is left over when no write is pending. A second packet can therefore not get
  between the two halves of the first, although any thread may try.

Only model-checked, and why:

* liveness: `StaysUpDrains`, `Reconnects`, `ConnectAnswered`, `OutboundCompletes`,
  `InboundCompletes`, `CallsReturn`. Fairness and `ENABLED` are out of the prover's reach;
* `HeapAccounted`, `ReadAsWritten`: `HeapTree` and `Transport` use recursive operators and
  need induction over data. No module with a proof reaches them.

## 6. Not modelled

TLS (OpenSSL), SHA-1, clocks and the texts of messages. Connect options other than the MQTT
version and the list of server URIs, which are the same in every call; the moment in which
`MQTTAsync_connect` has freed that list and not yet made the new one, where its use is undefined.
The CLOSE frame with which a server's CLOSE is answered (`WebSocket.c:1207`), and frames that
`in_frames` and `frame_buffer` still hold when the next WebSocket connection opens. In the trace,
a `rename` that fails (`Log.c:363`) and the calls `Log_terminate` and `Log_setTraceLevel`, which
do not take `log_mutex`, at the same time as others. The SOCKS5 and HTTP proxy
handshakes, except that they may fail. MQTT 5 reason codes in the flows, the receive
maximum and session expiry. Errors of memory allocation; errors of the store as seen by
the flows. Sequence numbers of persisted commands. `MQTTAsync_destroy`, `isComplete`,
`waitForCompletion` and `getPendingTokens` of the asynchronous client; several clients
on the thread of the synchronous one. Socket numbers and their reuse. Samples, tests and
the two programs `paho_c_pub` and `paho_c_sub`, which are applications of the library.

## 7. Plan

Done: the asynchronous client (`AsyncCommands`, `AsyncConnect`), the flows (`Delivery`,
`QoSFlow`, `QoSCrash`), the synchronous client, the transport, the codec and the data
structures, and the proofs above. Next, in this order:

1. `Socks5`: the handshake with its read thread, the wait under `mqttasync_mutex`, the
   timeout against a late reply.
2. The lifecycle of the threads of the asynchronous client; sequence numbers and store
   errors in `QoSFlow`; MQTT 5 in the flows.
3. Proofs: `HeapAccounted`, with the walks of the tree as recursive functions over its
   levels, and the reading half of `Transport`.
