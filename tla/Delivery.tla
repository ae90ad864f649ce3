------------------------------ MODULE Delivery ------------------------------
(***************************************************************************)
(* What one direction of message flow promises (the "qos" page of the      *)
(* library's documentation): a message the sender has accepted is handed   *)
(* to the receiver at least once, with QoS 2 exactly once, before its      *)
(* sender considers it complete; completing is the only way to forget it.  *)
(* QoSFlow implements it twice, once per direction.                        *)
(***************************************************************************)
EXTENDS Naturals

CONSTANTS
    Msgs,    \* messages
    Qos2,    \* those with QoS 2; the others have QoS 1
    Many     \* copies are counted up to here (at least 2)

VARIABLES
    status,  \* of each message: "new", "pending" or "complete"
    copies   \* how often it was handed to the receiver

dvars == <<status, copies>>

Init ==
    /\ status = [m \in Msgs |-> "new"]
    /\ copies = [m \in Msgs |-> 0]

Accept(m) ==
    /\ status[m] = "new"
    /\ status' = [status EXCEPT ![m] = "pending"]
    /\ UNCHANGED copies

Deliver(m) ==
    /\ status[m] = "pending"
    /\ m \in Qos2 => copies[m] = 0
    /\ copies' = [copies EXCEPT ![m] = IF @ < Many THEN @ + 1 ELSE Many]
    /\ UNCHANGED status

Complete(m) ==
    /\ status[m] = "pending"
    /\ copies[m] > 0
    /\ status' = [status EXCEPT ![m] = "complete"]
    /\ UNCHANGED copies

Next == \E m \in Msgs : Accept(m) \/ Deliver(m) \/ Complete(m)

Spec == Init /\ [][Next]_dvars
=============================================================================
