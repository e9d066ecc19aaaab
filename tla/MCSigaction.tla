---------------------------- MODULE MCSigaction ----------------------------
(***************************************************************************)
(* The actions that the program asks for: its handlers with every          *)
(* combination of flags, and the default and ignoring without.             *)
(***************************************************************************)
EXTENDS Sigaction, TLC

MCAsks == {a \in Action : /\ a.mask \in Masks
                          /\ a.handler \in {DFL, IGN} => ~a.siginfo /\ ~a.resethand}

\* The threads are alike.
Symmetry == Permutations(Threads)
=============================================================================
