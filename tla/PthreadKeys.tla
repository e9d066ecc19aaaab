---------------------------- MODULE PthreadKeys ----------------------------
(***************************************************************************)
(* The thread-specific data keys of templates/pthread_compat.c: a fixed    *)
(* table g_keys of host keys under g_keys_lock.  Only the table is under   *)
(* the lock: a looked-up or removed host key is used after the unlock, as  *)
(* a step of its own, when the table may have changed.                     *)
(***************************************************************************)
EXTENDS Naturals

CONSTANTS Threads, MaxKeys, HostKeys, Values, NULL,
          Dtors    \* the destructors that keys are made with

ASSUME KeysAssumption == MaxKeys \in Nat /\ NULL \notin HostKeys

Keys == 0 .. MaxKeys - 1

VARIABLES used, hostKey,   \* the fields of g_keys[i]
          live,            \* the host's keys (external)
          tsd,             \* every thread's value of every host key (external)
          dtor,            \* the destructor of every host key (external)
          pc, arg,         \* where each thread is, and the key and value it passed
          local,           \* the host key on each thread's stack
          got              \* what each thread was last given, by getspecific or by a
                           \* call of a destructor (history)

table == <<used, hostKey>>
host  == <<live, tsd, dtor>>
vars  == <<used, hostKey, live, tsd, dtor, pc, arg, local, got>>

PC == {"out", "delete", "get", "set"}

NoArg == [key |-> 0, value |-> NULL]

Given(by, value) == [by |-> by, value |-> value]

Init == /\ used = [k \in Keys |-> FALSE] /\ hostKey = [k \in Keys |-> NULL]
        /\ live = {} /\ tsd = [t \in Threads |-> [h \in HostKeys |-> NULL]]
        /\ dtor = [h \in HostKeys |-> NULL]
        /\ pc = [t \in Threads |-> "out"] /\ arg = [t \in Threads |-> NoArg]
        /\ local = [t \in Threads |-> NULL]
        /\ got = [t \in Threads |-> Given(NULL, NULL)]

Go(t, to, k, v, h) == /\ pc[t] = "out" /\ pc' = [pc EXCEPT ![t] = to]
                      /\ arg' = [arg EXCEPT ![t] = [key |-> k, value |-> v]]
                      /\ local' = [local EXCEPT ![t] = h]
Return(t, from) == /\ pc[t] = from /\ pc' = [pc EXCEPT ![t] = "out"]
                   /\ arg' = [arg EXCEPT ![t] = NoArg]
                   /\ local' = [local EXCEPT ![t] = NULL]

\* The host makes a key that reads as NULL in every thread, or deletes one
\* with all its values (external).
HostCreate(h, d) == /\ h \in HostKeys \ live /\ live' = live \cup {h}
                    /\ dtor' = [dtor EXCEPT ![h] = d] /\ UNCHANGED tsd
HostDelete(h) == /\ live' = live \ {h} /\ dtor' = [dtor EXCEPT ![h] = NULL]
                 /\ tsd' = [t \in Threads |-> [tsd[t] EXCEPT ![h] = NULL]]

\* Mutant of KeyCreate: the first slot is taken, used or not.
KeyCreateTaken(t, d) ==
  \E h \in HostKeys :
    /\ pc[t] = "out" /\ HostCreate(h, d)
    /\ used' = [used EXCEPT ![0] = TRUE] /\ hostKey' = [hostKey EXCEPT ![0] = h]
    /\ UNCHANGED <<pc, arg, local, got>>

\* pthread_key_create, under the lock throughout: the first free slot gets a new
\* host key.  With no free slot, or no host key, it fails and changes nothing.
KeyCreate(t, d) ==
  \E k \in Keys, h \in HostKeys :
    /\ pc[t] = "out" /\ ~used[k] /\ \A j \in Keys : j < k => used[j]
    /\ HostCreate(h, d)
    /\ used' = [used EXCEPT ![k] = TRUE] /\ hostKey' = [hostKey EXCEPT ![k] = h]
    /\ UNCHANGED <<pc, arg, local, got>>

\* The caller's side: a key is not deleted under a call that uses it.
Quiet(k) == \A u \in Threads : pc[u] \in {"get", "set"} => arg[u].key # k

\* pthread_key_delete frees the slot under the lock, and deletes the host key
\* after the unlock.  An unused key is EINVAL.
KeyDelete(t, k) ==
  /\ used[k] /\ Quiet(k)
  /\ Go(t, "delete", k, NULL, hostKey[k])
  /\ used' = [used EXCEPT ![k] = FALSE]
  /\ UNCHANGED <<hostKey, host, got>>
KeyDeleteHost(t) == /\ Return(t, "delete") /\ HostDelete(local[t])
                    /\ UNCHANGED <<used, hostKey, got>>

\* Mutant of HostKey: the slot's used flag is not looked at.
HostKeyUnchecked(k) == hostKey[k] # NULL

\* a2i_host_key finds a host key for k.
HostKey(k) == used[k]

\* pthread_getspecific: NULL at once for an unused key, else the host's value,
\* read after the unlock.
GetSpecific(t, k) ==
  \/ /\ HostKey(k) /\ Go(t, "get", k, NULL, hostKey[k])
     /\ UNCHANGED <<table, host, got>>
  \/ /\ ~HostKey(k) /\ pc[t] = "out"
     /\ got' = [got EXCEPT ![t] = Given(NULL, NULL)]
     /\ UNCHANGED <<table, host, pc, arg, local>>
GetHost(t) == /\ Return(t, "get")
              /\ got' = [got EXCEPT ![t] =
                           Given(NULL, IF local[t] \in live THEN tsd[t][local[t]] ELSE NULL)]
              /\ UNCHANGED <<table, host>>

\* pthread_setspecific: EINVAL for an unused key, else the host's value is set
\* after the unlock.
SetSpecific(t, k, v) == /\ HostKey(k) /\ Go(t, "set", k, v, hostKey[k])
                        /\ UNCHANGED <<table, host, got>>
SetHost(t) == /\ Return(t, "set")
              /\ tsd' = IF local[t] \in live THEN [tsd EXCEPT ![t][local[t]] = arg[t].value]
                        ELSE tsd
              /\ UNCHANGED <<table, live, dtor, got>>

\* A thread that exits has the destructors of the values it still has called, in
\* any order, each value being taken away first (external).  A destructor may
\* call all of the above.
Destruct(t) == \E h \in live :
  /\ pc[t] = "out" /\ tsd[t][h] # NULL
  /\ tsd' = [tsd EXCEPT ![t][h] = NULL]
  /\ got' = [got EXCEPT ![t] = Given(dtor[h], tsd[t][h])]
  /\ UNCHANGED <<table, live, dtor, pc, arg, local>>

Next == \E t \in Threads :
          \/ KeyDeleteHost(t) \/ GetHost(t) \/ SetHost(t) \/ Destruct(t)
          \/ \E d \in Dtors : KeyCreate(t, d)
          \/ \E k \in Keys : \/ KeyDelete(t, k) \/ GetSpecific(t, k)
                             \/ \E v \in Values : SetSpecific(t, k, v)

Spec == Init /\ [][Next]_vars
-----------------------------------------------------------------------------
\* The types of the table, the host's keys and the callers' locals.
TypeOK == /\ used \in [Keys -> BOOLEAN] /\ hostKey \in [Keys -> HostKeys \cup {NULL}]
          /\ live \subseteq HostKeys
          /\ tsd \in [Threads -> [HostKeys -> Values \cup {NULL}]]
          /\ pc \in [Threads -> PC] /\ local \in [Threads -> HostKeys \cup {NULL}]
          /\ arg \in [Threads -> [key : Keys \cup {0}, value : Values \cup {NULL}]]
          /\ dtor \in [HostKeys -> Dtors \cup {NULL}]
          /\ got \in [Threads -> [by : Dtors \cup {NULL}, value : Values \cup {NULL}]]

\* Every used slot has a live host key that no other used slot has.
SlotsApart == \A k \in Keys : used[k] =>
                /\ hostKey[k] \in live
                /\ \A j \in Keys : used[j] /\ hostKey[j] = hostKey[k] => j = k

\* The host key a deleter is about to delete is live, its alone, and no longer
\* reachable through the table, though its slot may be in use again.
DeletersApart == \A t \in Threads : pc[t] = "delete" =>
                   /\ local[t] \in live
                   /\ \A k \in Keys : used[k] => hostKey[k] # local[t]
                   /\ \A u \in Threads : pc[u] = "delete" /\ local[u] = local[t] => u = t

\* A host key that is not live has no values.
DeadKeysBlank == \A t \in Threads, h \in HostKeys \ live : tsd[t][h] = NULL

\* No host key leaks: a live one is in a slot or about to be deleted.
NoHostKeyLeaks == \A h \in live : \/ \E k \in Keys : used[k] /\ hostKey[k] = h
                                  \/ \E t \in Threads : pc[t] = "delete" /\ local[t] = h

\* The host key a caller looked up is still the one of the slot it passed, and a
\* value to be set is one of the program's.
LookupsFresh == \A t \in Threads : pc[t] \in {"get", "set"} =>
                  /\ arg[t].key \in Keys /\ used[arg[t].key]
                  /\ local[t] = hostKey[arg[t].key]
                  /\ pc[t] = "set" => arg[t].value \in Values

\* The table and the host's keys agree, however creations, deletions and their
\* second halves interleave.
KeysInv == TypeOK /\ SlotsApart /\ DeletersApart /\ DeadKeysBlank
           /\ NoHostKeyLeaks /\ LookupsFresh

\* The values under a host key, and of no host key.
ValuesOf(h) == [t \in Threads |-> tsd[t][h]]
NoValues    == [t \in Threads |-> NULL]

\* What the table and the deleters hold, as the callers see it.
InUse      == {k \in Keys : used[k]}
SlotValues == [k \in Keys |-> IF used[k] THEN ValuesOf(hostKey[k]) ELSE NoValues]
SlotDtors  == [k \in Keys |-> IF used[k] THEN dtor[hostKey[k]] ELSE NULL]
Deleting   == [t \in Threads |-> IF pc[t] = "delete"
                                 THEN [val |-> ValuesOf(local[t]), cleanup |-> dtor[local[t]]]
                                 ELSE [val |-> NoValues, cleanup |-> NULL]]

Tls == INSTANCE TlsContract WITH keys <- InUse, val <- SlotValues,
                                 cleanup <- SlotDtors, deleting <- Deleting

\* The table implements thread-specific data: a new key reads as NULL although
\* slots and host keys are recycled, a value set through one key is never seen
\* through another, and a value that a thread leaves behind is given, once, to
\* the destructor of the key it was set through, also when that key's slot has
\* been taken for another key in the middle of its deletion.
ImplementsTls == Tls!Spec
=============================================================================
