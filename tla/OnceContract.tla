---------------------------- MODULE OnceContract ----------------------------
(***************************************************************************)
(* What pthread_once promises its callers, whatever the algorithm: the     *)
(* initialiser is run by one caller, from start to end, and no caller      *)
(* returns before that run has ended.                                      *)
(***************************************************************************)
CONSTANT Threads

VARIABLES phase,     \* "fresh", "running" or "finished": the initialiser
          inside     \* the threads that are inside a call

vars == <<phase, inside>>

Init == phase = "fresh" /\ inside = {}

Enter(t)  == t \notin inside /\ inside' = inside \cup {t} /\ UNCHANGED phase
Begin     == inside # {} /\ phase = "fresh" /\ phase' = "running" /\ UNCHANGED inside
Finish    == phase = "running" /\ phase' = "finished" /\ UNCHANGED inside
Leave(t)  == /\ t \in inside /\ phase = "finished"
             /\ inside' = inside \ {t} /\ UNCHANGED phase

Next == Begin \/ Finish \/ \E t \in Threads : Enter(t) \/ Leave(t)

Spec == Init /\ [][Next]_vars
=============================================================================
