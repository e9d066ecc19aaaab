---------------------------- MODULE TlsContract ----------------------------
(***************************************************************************)
(* Thread-specific data as its callers see it: every key that exists has   *)
(* a value of its own in every thread, NULL when the key is made; a key    *)
(* that does not exist reads as NULL.  The values of a thread that exits   *)
(* go to the destructors of their keys, and those of a deleted key to      *)
(* nobody, once the call that deletes it has returned.                     *)
(***************************************************************************)
CONSTANTS Threads, Keys, Values, Dtors, NULL

VARIABLES keys,       \* the keys that exist
          val,        \* the value of every key in every thread
          cleanup,    \* the destructor of every key
          deleting,   \* what is left of the key that each thread is deleting
          got         \* what each thread was last given, and by what

vars == <<keys, val, cleanup, deleting, got>>

Blank   == [t \in Threads |-> NULL]
Nothing == [val |-> Blank, cleanup |-> NULL]

Init == /\ keys = {} /\ val = [k \in Keys |-> Blank]
        /\ cleanup = [k \in Keys |-> NULL] /\ deleting = [t \in Threads |-> Nothing]
        /\ got = [t \in Threads |-> [by |-> NULL, value |-> NULL]]

Create(k, d) == /\ k \notin keys /\ keys' = keys \cup {k}
                /\ cleanup' = [cleanup EXCEPT ![k] = d]
                /\ UNCHANGED <<val, deleting, got>>

Delete(t, k) ==
  /\ k \in keys /\ keys' = keys \ {k}
  /\ val' = [val EXCEPT ![k] = Blank] /\ cleanup' = [cleanup EXCEPT ![k] = NULL]
  /\ deleting' = [deleting EXCEPT ![t] = [val |-> val[k], cleanup |-> cleanup[k]]]
  /\ UNCHANGED got
Deleted(t) == /\ deleting' = [deleting EXCEPT ![t] = Nothing]
              /\ UNCHANGED <<keys, val, cleanup, got>>

Set(t, k, v) == /\ k \in keys /\ val' = [val EXCEPT ![k][t] = v]
                /\ UNCHANGED <<keys, cleanup, deleting, got>>
Get(t, k) == /\ got' = [got EXCEPT ![t] = [by |-> NULL, value |-> val[k][t]]]
             /\ UNCHANGED <<keys, val, cleanup, deleting>>

Destruct(t) ==
  \/ \E k \in keys :
       /\ val[k][t] # NULL /\ val' = [val EXCEPT ![k][t] = NULL]
       /\ got' = [got EXCEPT ![t] = [by |-> cleanup[k], value |-> val[k][t]]]
       /\ UNCHANGED <<keys, cleanup, deleting>>
  \/ \E u \in Threads :
       /\ deleting[u].val[t] # NULL /\ deleting' = [deleting EXCEPT ![u].val[t] = NULL]
       /\ got' = [got EXCEPT ![t] = [by |-> deleting[u].cleanup, value |-> deleting[u].val[t]]]
       /\ UNCHANGED <<keys, val, cleanup>>

Next == \E t \in Threads :
          \/ Deleted(t) \/ Destruct(t)
          \/ \E k \in Keys : \/ Delete(t, k) \/ Get(t, k)
                             \/ \E d \in Dtors : Create(k, d)
                             \/ \E v \in Values : Set(t, k, v)

Spec == Init /\ [][Next]_vars
=============================================================================
