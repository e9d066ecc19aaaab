------------------------- MODULE SemaphoreContract -------------------------
(***************************************************************************)
(* A counting semaphore as its callers see it: created once, it never      *)
(* loses or invents a permit, and a wait ends by taking one.               *)
(***************************************************************************)
EXTENDS Naturals

CONSTANTS Threads, Values

VARIABLES created, permits, waiting

vars == <<created, permits, waiting>>

Init == created = FALSE /\ permits = 0 /\ waiting = {}

Create(v) == ~created /\ created' = TRUE /\ permits' = v /\ UNCHANGED waiting
Enter(t)  == /\ created /\ t \notin waiting /\ waiting' = waiting \cup {t}
             /\ UNCHANGED <<created, permits>>
Take(t)   == /\ t \in waiting /\ permits > 0
             /\ permits' = permits - 1 /\ waiting' = waiting \ {t}
             /\ UNCHANGED created
Post      == created /\ permits' = permits + 1 /\ UNCHANGED <<created, waiting>>

Next == Post \/ (\E v \in Values : Create(v)) \/ \E t \in Threads : Enter(t) \/ Take(t)

Spec == Init /\ [][Next]_vars
=============================================================================
