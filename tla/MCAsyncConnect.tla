--------------------------- MODULE MCAsyncConnect ---------------------------
(* AsyncConnect for TLC: the cfg files give every constant its value. *)
EXTENDS AsyncConnect, FiniteSets

\* which of the connect calls is made first is the same by symmetry
First == CHOOSE k \in ConnIds : TRUE

\* bounds of the run connect: at most two calls; a second connect call comes with
\* a shorter list of URIs and the MQTT version chosen
Calls ==
    /\ Cardinality(used) <= 2
    /\ used \cap ConnIds # {} => First \in used
    /\ uriCount = 1 => ConnIds \subseteq used
    /\ ConnIds \subseteq used => version # 0
=============================================================================
