----------------------------- MODULE MCTransport -----------------------------
(***************************************************************************)
(* Scenarios for Transport: what the servers send, byte by byte, and what  *)
(* is published.                                                           *)
(***************************************************************************)
EXTENDS Transport

Scen(opens, stream, packets, publish, payload, limit, ends) ==
  [opens |-> opens, stream |-> stream, packets |-> packets, publish |-> publish, message |-> [topic |-> <<1>>, payload |-> payload],
   limit |-> limit, ends |-> ends]
On(c, x, none) == [d \in Conns |-> IF d = c THEN x ELSE none]
Quiet == [c \in Conns |-> <<>>]

\* a PUBACK, its length in two bytes or in a frame; a PINGRESP
TcpPuback == <<64, 130, 0, 0, 9>>
WsPuback == <<130, 4, 64, 2, 0, 9>>
Puback == <<64, 0, 9>>
Pingresp == <<208>>

PassScenarios ==
  { \* both connections receive a packet: their attempts to read interleave
    Scen(Conns, [c \in Conns |-> IF c \in WebSockets THEN WsPuback ELSE TcpPuback], [c \in Conns |-> <<Puback>>],
         [c \in Conns |-> 0], <<5>>, 0, FALSE),
    \* two publications, acknowledgements, two packets in one stream
    Scen({"tcp"}, On("tcp", TcpPuback \o <<208, 0>>, <<>>), On("tcp", <<Puback, Pingresp>>, <<>>),
         On("tcp", 2, 0), <<5, 6>>, 3, TRUE),
    \* pings before and between packets
    Scen({"ws"}, On("ws", <<137, 1, 5>> \o WsPuback \o <<137, 0, 130, 2, 208, 0>>, <<>>),
         On("ws", <<Puback, Pingresp>>, <<>>), On("ws", 1, 0), <<5, 6>>, 3, TRUE),
    \* a packet in two frames
    Scen({"ws"}, On("ws", <<130, 2, 64, 2, 130, 2, 0, 9>>, <<>>), On("ws", <<Puback>>, <<>>), On("ws", 0, 0), <<5>>,
         0, FALSE),
    \* two frames that have three packets together: the first one has one and a half
    Scen({"ws"}, On("ws", <<130, 5, 208, 0, 64, 2, 0, 130, 3, 9, 208, 0>>, <<>>),
         On("ws", <<Pingresp, Puback, Pingresp>>, <<>>), On("ws", 0, 0), <<5>>, 0, FALSE),
    Scen(Conns, Quiet, Quiet, [c \in Conns |-> 1], <<5>>, 0, TRUE),
    \* a frame with a two-byte length
    Scen({"ws"}, Quiet, Quiet, On("ws", 1, 0), [i \in 1..130 |-> 5], 1, TRUE) }

\* a QoS 1 message is sent twice, the second time because it was not acknowledged
ResendScenarios == { Scen({"ws"}, Quiet, Quiet, On("ws", 2, 0), <<5, 6>>, 0, FALSE) }

MCMessages == {[topic |-> <<1>>, payload |-> p] : p \in {<<5>>, <<5, 6>>, [i \in 1..130 |-> 5]}}
MCPackets == {[head |-> <<64, 2>>, body |-> <<0, 9>>]}
MCRooms == {-1, 0, 5, 1000}
MCMask == <<128, 0, 0, 128>>

WireSpec == WireInit /\ [][WireNext]_wireVars
=============================================================================
