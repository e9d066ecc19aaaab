------------------------ MODULE TranslatorContract ------------------------
(***************************************************************************)
(* What each phase promises of a translation: an ELF it accepts is         *)
(* translated once, with every relocation accounted for, and any other is  *)
(* refused as a whole.                                                     *)
(***************************************************************************)
EXTENDS ElfFile

CONSTANT Accepts(_)      \* the objects the phase can translate

VARIABLES elf, result

Pending == [status |-> "pending"]
Refused == [status |-> "refused"]
Done(t) == [status |-> "done", tally |-> t]

Init == result = Pending

\* The decision; a phase may stay pending for as long as it works.
Translate == /\ result = Pending /\ result' # Pending
             /\ result' = IF Accepts(elf) THEN Done(Tally(elf)) ELSE Refused
             /\ UNCHANGED elf

Spec == Init /\ [][Translate]_<<elf, result>>
=============================================================================
