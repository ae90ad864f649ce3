---------------------------- MODULE MCSyncClient -----------------------------
EXTENDS SyncClient

\* v is 5, or 4 for the default, which tries 4 and then 3
Client(ma, websocket, v, clean) == [ma |-> ma, websocket |-> websocket, v |-> v, clean |-> clean]

HowOften(connect, subscribe, unsubscribe, publish, complete, disconnect, own, arrive) ==
  [connect |-> connect, subscribe |-> subscribe, unsubscribe |-> unsubscribe, publish |-> publish,
   complete |-> complete, disconnect |-> disconnect, yield |-> own, receive |-> own, arrive |-> arrive]

\* with the thread: reconnecting with a message in flight; a full window; MQTT 5; a clean session
\* over a WebSocket; then without the thread
MCSetups == {
  [client |-> Client(TRUE, FALSE, 4, FALSE), calls |-> HowOften(2, 0, 0, 1, 0, 0, 0, 0)],
  [client |-> Client(TRUE, FALSE, 4, FALSE), calls |-> HowOften(1, 0, 0, 2, 1, 1, 0, 0)],
  [client |-> Client(TRUE, FALSE, 5, FALSE), calls |-> HowOften(2, 0, 0, 1, 1, 0, 0, 1)],
  [client |-> Client(TRUE, FALSE, 5, FALSE), calls |-> HowOften(1, 1, 1, 0, 0, 1, 0, 1)],
  [client |-> Client(TRUE, TRUE, 4, TRUE), calls |-> HowOften(1, 0, 0, 1, 1, 1, 0, 0)],
  [client |-> Client(FALSE, FALSE, 4, FALSE), calls |-> HowOften(2, 0, 0, 2, 1, 1, 0, 1)],
  [client |-> Client(FALSE, TRUE, 4, TRUE), calls |-> HowOften(1, 1, 0, 1, 1, 0, 1, 1)] }
=============================================================================
