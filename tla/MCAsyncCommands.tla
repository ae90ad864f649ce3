-------------------------- MODULE MCAsyncCommands --------------------------
(* Instances of AsyncCommands for TLC: symmetry of what the code never tells *)
(* apart.                                                                    *)
EXTENDS AsyncCommands, TLC

OpSymmetry == Permutations(Ops)
ThreadOpSymmetry == Permutations(Ops) \cup Permutations(Threads)
=============================================================================
