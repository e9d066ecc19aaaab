--------------------------- MODULE MCPthreadKeys ---------------------------
(***************************************************************************)
(* PthreadKeys for TLC: its model values are alike.                        *)
(***************************************************************************)
EXTENDS PthreadKeys, TLC

Symmetry == Permutations(Threads) \cup Permutations(HostKeys)
            \cup Permutations(Values) \cup Permutations(Dtors)
=============================================================================
