----------------------------- MODULE MCQoSFlow -----------------------------
(* QoSFlow for TLC: the cfg files give every constant its value. *)
EXTENDS QoSFlow
=============================================================================
