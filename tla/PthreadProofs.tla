--------------------------- MODULE PthreadProofs ---------------------------
(***************************************************************************)
(* pthread_compat.c: the table of thread-specific data keys stays in       *)
(* agreement with the host's keys, and implements thread-specific data,    *)
(* for any number of threads, slots, host keys, values and destructors;    *)
(* for any set of callers the initialiser of a2i_pthread_once runs at most *)
(* once, and the algorithm implements OnceContract.                        *)
(***************************************************************************)
EXTENDS PthreadKeys, PthreadOnce, TLAPS

\* The values of the variables stay in their types.
LEMMA KeysTypeStep == KeysInv /\ [Next]_vars => TypeOK'
<1> SUFFICES ASSUME KeysInv, [Next]_vars PROVE TypeOK'
  OBVIOUS
<1> USE KeysAssumption DEF TypeOK, PC, NoArg, Given, Go, Return, table, host
<1>0. TypeOK /\ DeletersApart /\ LookupsFresh
  BY DEF KeysInv
<1>1. ASSUME NEW t \in Threads, NEW d \in Dtors, KeyCreate(t, d) PROVE TypeOK'
  BY <1>0, <1>1 DEF KeyCreate, HostCreate
<1>2. ASSUME NEW t \in Threads, NEW k \in Keys, KeyDelete(t, k) PROVE TypeOK'
  BY <1>0, <1>2 DEF KeyDelete
<1>3. ASSUME NEW t \in Threads, KeyDeleteHost(t) PROVE TypeOK'
  BY <1>0, <1>3 DEF KeyDeleteHost, HostDelete
<1>4. ASSUME NEW t \in Threads, NEW k \in Keys, GetSpecific(t, k) PROVE TypeOK'
  <2>1. CASE HostKey(k)
    <3>1. Go(t, "get", k, NULL, hostKey[k]) /\ UNCHANGED <<used, hostKey, live, tsd, dtor, got>>
      BY <1>4, <2>1 DEF GetSpecific
    <3> QED BY <1>0, <3>1
  <2>2. CASE ~HostKey(k)
    BY <1>0, <1>4, <2>2 DEF GetSpecific
  <2> QED BY <2>1, <2>2
<1>5. ASSUME NEW t \in Threads, GetHost(t) PROVE TypeOK'
  BY <1>0, <1>5 DEF GetHost
<1>6. ASSUME NEW t \in Threads, NEW k \in Keys, NEW v \in Values, SetSpecific(t, k, v)
      PROVE  TypeOK'
  BY <1>0, <1>6 DEF SetSpecific
<1>7. ASSUME NEW t \in Threads, SetHost(t) PROVE TypeOK'
  BY <1>0, <1>7 DEF SetHost
<1>8. ASSUME NEW t \in Threads, Destruct(t) PROVE TypeOK'
  BY <1>0, <1>8 DEF Destruct
<1>9. CASE UNCHANGED vars
  BY <1>0, <1>9 DEF vars
<1> QED BY <1>1, <1>2, <1>3, <1>4, <1>5, <1>6, <1>7, <1>8, <1>9 DEF Next

\* Every used slot keeps a live host key of its own: a new host key is not live
\* before, and a deleted one is in no slot.
LEMMA SlotsApartStep == KeysInv /\ [Next]_vars => SlotsApart'
<1> SUFFICES ASSUME KeysInv, [Next]_vars PROVE SlotsApart'
  OBVIOUS
<1> USE DEF TypeOK, SlotsApart, DeletersApart, table, host
<1>0. TypeOK /\ SlotsApart /\ DeletersApart
  BY DEF KeysInv
<1>1. ASSUME NEW t \in Threads, NEW d \in Dtors, KeyCreate(t, d) PROVE SlotsApart'
  BY <1>0, <1>1 DEF KeyCreate, HostCreate
<1>2. ASSUME NEW t \in Threads, NEW k \in Keys, KeyDelete(t, k) PROVE SlotsApart'
  BY <1>0, <1>2 DEF KeyDelete
<1>3. ASSUME NEW t \in Threads, KeyDeleteHost(t) PROVE SlotsApart'
  BY <1>0, <1>3 DEF KeyDeleteHost, HostDelete, Return
<1>4. ASSUME NEW t \in Threads, NEW k \in Keys, GetSpecific(t, k) PROVE SlotsApart'
  BY <1>0, <1>4 DEF GetSpecific
<1>5. ASSUME NEW t \in Threads, GetHost(t) PROVE SlotsApart'
  BY <1>0, <1>5 DEF GetHost
<1>6. ASSUME NEW t \in Threads, NEW k \in Keys, NEW v \in Values, SetSpecific(t, k, v)
      PROVE  SlotsApart'
  BY <1>0, <1>6 DEF SetSpecific
<1>7. ASSUME NEW t \in Threads, SetHost(t) \/ Destruct(t) PROVE SlotsApart'
  BY <1>0, <1>7 DEF SetHost, Destruct
<1>9. CASE UNCHANGED vars
  BY <1>0, <1>9 DEF vars
<1> QED BY <1>1, <1>2, <1>3, <1>4, <1>5, <1>6, <1>7, <1>9 DEF Next

\* A deleter's host key stays live and its own.
LEMMA DeletersApartStep == KeysInv /\ [Next]_vars => DeletersApart'
<1> SUFFICES ASSUME KeysInv, [Next]_vars PROVE DeletersApart'
  OBVIOUS
<1> USE DEF TypeOK, SlotsApart, DeletersApart, table, host
<1>0. TypeOK /\ SlotsApart /\ DeletersApart
  BY DEF KeysInv
<1>1. ASSUME NEW t \in Threads, NEW d \in Dtors, KeyCreate(t, d) PROVE DeletersApart'
  BY <1>0, <1>1 DEF KeyCreate, HostCreate
<1>2. ASSUME NEW t \in Threads, NEW k \in Keys, KeyDelete(t, k) PROVE DeletersApart'
  BY <1>0, <1>2 DEF KeyDelete, Go
<1>3. ASSUME NEW t \in Threads, KeyDeleteHost(t) PROVE DeletersApart'
  BY <1>0, <1>3 DEF KeyDeleteHost, HostDelete, Return
<1>4. ASSUME NEW t \in Threads, NEW k \in Keys, GetSpecific(t, k) PROVE DeletersApart'
  BY <1>0, <1>4 DEF GetSpecific, Go
<1>5. ASSUME NEW t \in Threads, GetHost(t) \/ SetHost(t) PROVE DeletersApart'
  <2>1. /\ Return(t, "get") \/ Return(t, "set")
        /\ UNCHANGED <<used, hostKey, live>>
    BY <1>5 DEF GetHost, SetHost
  <2> QED BY <1>0, <2>1, SMTT(30) DEF Return
<1>6. ASSUME NEW t \in Threads, NEW k \in Keys, NEW v \in Values, SetSpecific(t, k, v)
      PROVE  DeletersApart'
  BY <1>0, <1>6 DEF SetSpecific, Go
<1>7. ASSUME NEW t \in Threads, Destruct(t) PROVE DeletersApart'
  BY <1>0, <1>7 DEF Destruct
<1>9. CASE UNCHANGED vars
  BY <1>0, <1>9 DEF vars
<1> QED BY <1>1, <1>2, <1>3, <1>4, <1>5, <1>6, <1>7, <1>9 DEF Next

\* The host keys that are not live stay blank, and none becomes live unowned.
LEMMA HostKeysStep == KeysInv /\ [Next]_vars => DeadKeysBlank' /\ NoHostKeyLeaks'
<1> SUFFICES ASSUME KeysInv, [Next]_vars PROVE DeadKeysBlank' /\ NoHostKeyLeaks'
  OBVIOUS
<1> USE DEF TypeOK, DeadKeysBlank, NoHostKeyLeaks, table, host
<1>0. TypeOK /\ SlotsApart /\ DeletersApart /\ DeadKeysBlank /\ NoHostKeyLeaks
  BY DEF KeysInv
<1>1. ASSUME NEW t \in Threads, NEW d \in Dtors, KeyCreate(t, d)
      PROVE  DeadKeysBlank' /\ NoHostKeyLeaks'
  BY <1>0, <1>1 DEF KeyCreate, HostCreate
<1>2. ASSUME NEW t \in Threads, NEW k \in Keys, KeyDelete(t, k)
      PROVE  DeadKeysBlank' /\ NoHostKeyLeaks'
  <2>1. DeadKeysBlank'
    BY <1>0, <1>2 DEF KeyDelete
  <2>2. ASSUME NEW h \in live
        PROVE  \/ \E j \in Keys : used'[j] /\ hostKey'[j] = h
               \/ \E u \in Threads : pc'[u] = "delete" /\ local'[u] = h
    <3>1. CASE \E u \in Threads : pc[u] = "delete" /\ local[u] = h
      BY <1>0, <1>2, <3>1 DEF KeyDelete, Go
    <3>2. CASE \E j \in Keys : used[j] /\ hostKey[j] = h
      <4>1. PICK j \in Keys : used[j] /\ hostKey[j] = h
        BY <3>2
      <4>2. CASE j = k
        BY <1>0, <1>2, <4>1, <4>2 DEF KeyDelete, Go
      <4>3. CASE j # k
        BY <1>0, <1>2, <4>1, <4>3 DEF KeyDelete
      <4> QED BY <4>2, <4>3
    <3> QED BY <1>0, <3>1, <3>2
  <2>3. live' = live
    BY <1>2 DEF KeyDelete
  <2> QED BY <2>1, <2>2, <2>3
<1>3. ASSUME NEW t \in Threads, KeyDeleteHost(t) PROVE DeadKeysBlank' /\ NoHostKeyLeaks'
  BY <1>0, <1>3, ZenonT(40) DEF KeyDeleteHost, HostDelete, Return, DeletersApart
<1>4. ASSUME NEW t \in Threads, NEW k \in Keys, GetSpecific(t, k)
      PROVE  DeadKeysBlank' /\ NoHostKeyLeaks'
  <2>1. CASE HostKey(k)
    <3>1. Go(t, "get", k, NULL, hostKey[k]) /\ UNCHANGED <<used, hostKey, live, tsd, dtor>>
      BY <1>4, <2>1 DEF GetSpecific
    <3>2. \A u \in Threads : pc[u] = "delete" => pc'[u] = "delete" /\ local'[u] = local[u]
      BY <1>0, <3>1 DEF Go
    <3>3. NoHostKeyLeaks'
      BY <1>0, <3>1, <3>2
    <3>4. DeadKeysBlank'
      BY <1>0, <3>1
    <3> QED BY <3>3, <3>4
  <2>2. CASE ~HostKey(k)
    BY <1>0, <1>4, <2>2 DEF GetSpecific
  <2> QED BY <2>1, <2>2
<1>5. ASSUME NEW t \in Threads, GetHost(t) \/ SetHost(t)
      PROVE  DeadKeysBlank' /\ NoHostKeyLeaks'
  <2>1. /\ Return(t, "get") \/ Return(t, "set")
        /\ UNCHANGED <<used, hostKey, live>>
    BY <1>5 DEF GetHost, SetHost
  <2>2. NoHostKeyLeaks'
    BY <1>0, <2>1 DEF Return
  <2>3. DeadKeysBlank'
    <3>1. CASE UNCHANGED tsd
      BY <1>0, <2>1, <3>1
    <3>2. CASE local[t] \in live /\ tsd' = [tsd EXCEPT ![t][local[t]] = arg[t].value]
      BY <1>0, <2>1, <3>2
    <3> QED BY <1>5, <3>1, <3>2 DEF GetHost, SetHost
  <2> QED BY <2>2, <2>3
<1>6. ASSUME NEW t \in Threads, NEW k \in Keys, NEW v \in Values, SetSpecific(t, k, v)
      PROVE  DeadKeysBlank' /\ NoHostKeyLeaks'
  BY <1>0, <1>6 DEF SetSpecific, Go
<1>7. ASSUME NEW t \in Threads, Destruct(t) PROVE DeadKeysBlank' /\ NoHostKeyLeaks'
  BY <1>0, <1>7 DEF Destruct
<1>9. CASE UNCHANGED vars
  BY <1>0, <1>9 DEF vars
<1> QED BY <1>1, <1>2, <1>3, <1>4, <1>5, <1>6, <1>7, <1>9 DEF Next

\* A lookup stays fresh: the slot of a call under way is neither freed, since the
\* callers keep Quiet, nor taken, since it is used.
LEMMA LookupsFreshStep == KeysInv /\ [Next]_vars => LookupsFresh'
<1> SUFFICES ASSUME KeysInv, [Next]_vars PROVE LookupsFresh'
  OBVIOUS
<1> USE DEF TypeOK, LookupsFresh, table, host
<1>0. TypeOK /\ LookupsFresh
  BY DEF KeysInv
<1>1. ASSUME NEW t \in Threads, NEW d \in Dtors, KeyCreate(t, d) PROVE LookupsFresh'
  BY <1>0, <1>1 DEF KeyCreate, HostCreate
<1>2. ASSUME NEW t \in Threads, NEW k \in Keys, KeyDelete(t, k) PROVE LookupsFresh'
  BY <1>0, <1>2 DEF KeyDelete, Go, Quiet
<1>3. ASSUME NEW t \in Threads, KeyDeleteHost(t) PROVE LookupsFresh'
  BY <1>0, <1>3 DEF KeyDeleteHost, HostDelete, Return
<1>4. ASSUME NEW t \in Threads, NEW k \in Keys, GetSpecific(t, k) PROVE LookupsFresh'
  BY <1>0, <1>4 DEF GetSpecific, Go, HostKey
<1>5. ASSUME NEW t \in Threads, GetHost(t) \/ SetHost(t) PROVE LookupsFresh'
  BY <1>0, <1>5 DEF GetHost, SetHost, Return
<1>6. ASSUME NEW t \in Threads, NEW k \in Keys, NEW v \in Values, SetSpecific(t, k, v)
      PROVE  LookupsFresh'
  BY <1>0, <1>6 DEF SetSpecific, Go, HostKey
<1>7. ASSUME NEW t \in Threads, Destruct(t) PROVE LookupsFresh'
  BY <1>0, <1>7 DEF Destruct
<1>9. CASE UNCHANGED vars
  BY <1>0, <1>9 DEF vars
<1> QED BY <1>1, <1>2, <1>3, <1>4, <1>5, <1>6, <1>7, <1>9 DEF Next

\* The table of pthread_compat.c and the host's keys agree however the halves of
\* creations, deletions and lookups interleave: no host key is shared, freed
\* twice, leaked or used after it is gone.
THEOREM KeysInvariant == Spec => []KeysInv
<1>1. Init => KeysInv
  BY KeysAssumption DEF Init, KeysInv, TypeOK, SlotsApart, DeletersApart, DeadKeysBlank,
     NoHostKeyLeaks, LookupsFresh, NoArg, Given, PC
<1>2. KeysInv /\ [Next]_vars => KeysInv'
  BY KeysTypeStep, SlotsApartStep, DeletersApartStep, HostKeysStep, LookupsFreshStep
     DEF KeysInv
<1> QED BY <1>1, <1>2, PTL DEF Spec

-----------------------------------------------------------------------------
\* What the callers see of a step that leaves the host keys they hold alone.
LEMMA SlotsSame ==
  ASSUME UNCHANGED <<used, hostKey>>, TypeOK, TypeOK',
         \A k \in Keys, u \in Threads : used[k] => tsd'[u][hostKey[k]] = tsd[u][hostKey[k]],
         \A k \in Keys : used[k] => dtor'[hostKey[k]] = dtor[hostKey[k]]
  PROVE  UNCHANGED <<InUse, SlotValues, SlotDtors>>
<1>1. InUse' = InUse
  BY DEF InUse
<1>2. ASSUME NEW k \in Keys, used[k] PROVE ValuesOf(hostKey[k])' = ValuesOf(hostKey[k])
  BY <1>2 DEF ValuesOf
<1>3. SlotValues' = SlotValues
  BY <1>2 DEF SlotValues, NoValues
<1>4. SlotDtors' = SlotDtors
  BY DEF SlotDtors
<1> QED BY <1>1, <1>3, <1>4

\* A deletion under way is the same for the callers when its host key is.
LEMMA DeletingSame ==
  ASSUME NEW u \in Threads, pc'[u] = "delete" <=> pc[u] = "delete",
         pc[u] = "delete" => /\ local'[u] = local[u]
                             /\ \A v \in Threads : tsd'[v][local[u]] = tsd[v][local[u]]
                             /\ dtor'[local[u]] = dtor[local[u]]
  PROVE  Deleting'[u] = Deleting[u]
<1>1. CASE pc[u] = "delete"
  <2>1. ValuesOf(local[u])' = ValuesOf(local[u])
    BY <1>1 DEF ValuesOf
  <2> QED BY <1>1, <2>1 DEF Deleting
<1>2. CASE pc[u] # "delete"
  BY <1>2 DEF Deleting, NoValues
<1> QED BY <1>1, <1>2

\* Functions on the threads and on the slots.
LEMMA ViewTypes == /\ Deleting  = [t \in Threads |-> Deleting[t]]
                   /\ SlotValues = [k \in Keys |-> SlotValues[k]]
                   /\ SlotDtors = [k \in Keys |-> SlotDtors[k]]
BY DEF Deleting, SlotValues, SlotDtors

\* The creation of a key is one of the contract: the new host key has no values,
\* and none of the host keys in use is the new one.
LEMMA CreateSimulates ==
  ASSUME KeysInv, KeysInv', NEW t \in Threads, NEW d \in Dtors, KeyCreate(t, d)
  PROVE  \E k \in Keys : Tls!Create(k, d)
<1> USE DEF TypeOK
<1>0. TypeOK /\ SlotsApart /\ DeletersApart /\ DeadKeysBlank /\ TypeOK'
  BY DEF KeysInv
<1>1. PICK k \in Keys, h \in HostKeys :
        /\ ~used[k] /\ HostCreate(h, d)
        /\ used' = [used EXCEPT ![k] = TRUE] /\ hostKey' = [hostKey EXCEPT ![k] = h]
        /\ UNCHANGED <<pc, arg, local, got>>
  BY DEF KeyCreate
<1>2. h \notin live /\ tsd' = tsd /\ dtor' = [dtor EXCEPT ![h] = d]
  BY <1>1 DEF HostCreate
<1>3. k \notin InUse /\ InUse' = InUse \cup {k}
  BY <1>0, <1>1 DEF InUse
<1>4. SlotDtors' = [SlotDtors EXCEPT ![k] = d]
  <2>1. ASSUME NEW j \in Keys PROVE SlotDtors'[j] = IF j = k THEN d ELSE SlotDtors[j]
    BY <1>0, <1>1, <1>2 DEF SlotDtors, SlotsApart
  <2> QED BY <2>1, ViewTypes DEF SlotDtors
<1>5. SlotValues' = SlotValues
  <2>1. ValuesOf(h)' = NoValues
    BY <1>0, <1>2 DEF ValuesOf, NoValues, DeadKeysBlank
  <2>2. ASSUME NEW j \in Keys PROVE SlotValues'[j] = SlotValues[j]
    <3>1. CASE j = k
      BY <1>0, <1>1, <2>1, <3>1 DEF SlotValues, ValuesOf, NoValues
    <3>2. CASE j # k
      BY <1>0, <1>1, <1>2, <3>2 DEF SlotValues, ValuesOf, NoValues
    <3> QED BY <3>1, <3>2
  <2> QED BY <2>2, ViewTypes DEF SlotValues
<1>6. Deleting' = Deleting
  <2>1. ASSUME NEW u \in Threads PROVE Deleting'[u] = Deleting[u]
    BY <1>0, <1>1, <1>2, DeletingSame DEF DeletersApart
  <2> QED BY <2>1, ViewTypes DEF Deleting
<1> QED BY <1>1, <1>3, <1>4, <1>5, <1>6 DEF Tls!Create

\* The first half of a deletion takes the key away from its callers, and its
\* values and destructor to the deleter.
LEMMA DeleteSimulates ==
  ASSUME KeysInv, KeysInv', NEW t \in Threads, NEW k \in Keys, KeyDelete(t, k)
  PROVE  Tls!Delete(t, k)
<1> USE DEF TypeOK
<1>0. TypeOK /\ SlotsApart /\ TypeOK'
  BY DEF KeysInv
<1>1. /\ used[k] /\ pc[t] = "out" /\ used' = [used EXCEPT ![k] = FALSE]
      /\ pc' = [pc EXCEPT ![t] = "delete"] /\ local' = [local EXCEPT ![t] = hostKey[k]]
      /\ UNCHANGED <<hostKey, live, tsd, dtor, got>>
  BY DEF KeyDelete, Go, host
<1>2. k \in InUse /\ InUse' = InUse \ {k}
  BY <1>0, <1>1 DEF InUse
<1>3. SlotDtors' = [SlotDtors EXCEPT ![k] = NULL]
  BY <1>0, <1>1 DEF SlotDtors
<1>4. SlotValues' = [SlotValues EXCEPT ![k] = NoValues]
  BY <1>0, <1>1 DEF SlotValues, ValuesOf, NoValues
<1>5. Deleting' = [Deleting EXCEPT ![t] = [val |-> SlotValues[k], cleanup |-> SlotDtors[k]]]
  <2>1. Deleting'[t] = [val |-> SlotValues[k], cleanup |-> SlotDtors[k]]
    BY <1>0, <1>1 DEF Deleting, SlotValues, SlotDtors, ValuesOf
  <2>2. ASSUME NEW u \in Threads, u # t PROVE Deleting'[u] = Deleting[u]
    BY <1>0, <1>1, <2>2, DeletingSame
  <2> QED BY <2>1, <2>2, ViewTypes DEF Deleting
<1> QED BY <1>1, <1>2, <1>3, <1>4, <1>5 DEF Tls!Delete, Tls!Blank, NoValues

\* The second half of a deletion ends it and no other: the host key it deletes is
\* in no slot and no other deleter's.
LEMMA DeletedSimulates ==
  ASSUME KeysInv, KeysInv', NEW t \in Threads, KeyDeleteHost(t)
  PROVE  Tls!Deleted(t)
<1> USE DEF TypeOK
<1>0. TypeOK /\ SlotsApart /\ DeletersApart /\ TypeOK'
  BY DEF KeysInv
<1>1. /\ pc[t] = "delete" /\ pc' = [pc EXCEPT ![t] = "out"]
      /\ local' = [local EXCEPT ![t] = NULL] /\ HostDelete(local[t])
      /\ UNCHANGED <<used, hostKey, got>>
  BY DEF KeyDeleteHost, Return
<1>2. /\ local[t] \in HostKeys
      /\ \A h \in HostKeys : h # local[t] => /\ dtor'[h] = dtor[h]
                                             /\ \A v \in Threads : tsd'[v][h] = tsd[v][h]
  BY <1>0, <1>1 DEF HostDelete, DeletersApart
<1>3. UNCHANGED <<InUse, SlotValues, SlotDtors>>
  <2>1. \A k \in Keys : used[k] => hostKey[k] # local[t] /\ hostKey[k] \in HostKeys
    BY <1>0, <1>1 DEF DeletersApart, SlotsApart
  <2> QED BY <1>0, <1>1, <1>2, <2>1, SlotsSame
<1>4. Deleting' = [Deleting EXCEPT ![t] = [val |-> NoValues, cleanup |-> NULL]]
  <2>1. Deleting'[t] = [val |-> NoValues, cleanup |-> NULL]
    BY <1>0, <1>1 DEF Deleting, NoValues
  <2>2. ASSUME NEW u \in Threads, u # t PROVE Deleting'[u] = Deleting[u]
    <3>1. pc[u] = "delete" => local[u] # local[t] /\ local[u] \in HostKeys
      BY <1>0, <1>1, <2>2 DEF DeletersApart
    <3>2. pc'[u] = pc[u] /\ local'[u] = local[u]
      BY <1>0, <1>1, <2>2
    <3> QED BY <1>2, <3>1, <3>2, DeletingSame
  <2> QED BY <2>1, <2>2, ViewTypes DEF Deleting
<1> QED BY <1>1, <1>3, <1>4 DEF Tls!Deleted, Tls!Nothing, Tls!Blank, NoValues

\* A call that starts, and one that answers from the table alone, changes at most
\* what its thread was given.
LEMMA HostSame ==
  ASSUME KeysInv, KeysInv', UNCHANGED <<used, hostKey, tsd, dtor>>,
         \A u \in Threads : /\ pc'[u] = "delete" <=> pc[u] = "delete"
                            /\ pc[u] = "delete" => local'[u] = local[u]
  PROVE  UNCHANGED <<InUse, SlotValues, SlotDtors, Deleting>>
<1>1. UNCHANGED <<InUse, SlotValues, SlotDtors>>
  BY SlotsSame DEF KeysInv
<1>2. \A u \in Threads : Deleting'[u] = Deleting[u]
  BY DeletingSame
<1>3. Deleting' = Deleting
  BY <1>2, ViewTypes DEF Deleting
<1> QED BY <1>1, <1>3

\* A lookup that fails answers NULL, as a key that does not exist does; one that
\* succeeds is no step of the contract.
LEMMA GetSimulates ==
  ASSUME KeysInv, KeysInv', NEW t \in Threads, NEW k \in Keys, GetSpecific(t, k)
  PROVE  [Tls!Next]_(Tls!vars)
<1> USE DEF TypeOK
<1>0. TypeOK /\ TypeOK'
  BY DEF KeysInv
<1>1. CASE HostKey(k)
  <2>1. Go(t, "get", k, NULL, hostKey[k]) /\ UNCHANGED <<used, hostKey, live, tsd, dtor, got>>
    BY <1>1 DEF GetSpecific, table, host
  <2>2. \A u \in Threads : /\ pc'[u] = "delete" <=> pc[u] = "delete"
                           /\ pc[u] = "delete" => local'[u] = local[u]
    BY <1>0, <2>1 DEF Go
  <2>3. UNCHANGED <<InUse, SlotValues, SlotDtors, Deleting>>
    BY <2>1, <2>2, HostSame
  <2> QED BY <2>1, <2>3 DEF Tls!vars
<1>2. CASE ~HostKey(k)
  <2>1. /\ got' = [got EXCEPT ![t] = Given(NULL, NULL)]
        /\ UNCHANGED <<used, hostKey, live, tsd, dtor, pc, arg, local>>
    BY <1>2 DEF GetSpecific, table, host
  <2>2. UNCHANGED <<InUse, SlotValues, SlotDtors, Deleting>>
    BY <2>1, HostSame
  <2>3. SlotValues[k][t] = NULL
    BY <1>2 DEF HostKey, SlotValues, NoValues
  <2>4. Tls!Get(t, k)
    BY <2>1, <2>2, <2>3 DEF Tls!Get, Given
  <2> QED BY <2>4 DEF Tls!Next
<1> QED BY <1>1, <1>2

\* The value that getspecific returns is the key's: the host key it looked up is
\* still the slot's, and live.
LEMMA GetHostSimulates ==
  ASSUME KeysInv, KeysInv', NEW t \in Threads, GetHost(t)
  PROVE  \E k \in Keys : Tls!Get(t, k)
<1> USE DEF TypeOK
<1>0. TypeOK /\ SlotsApart /\ LookupsFresh /\ TypeOK'
  BY DEF KeysInv
<1>1. /\ pc[t] = "get" /\ Return(t, "get")
      /\ UNCHANGED <<used, hostKey, live, tsd, dtor>>
      /\ got' = [got EXCEPT ![t] =
                   Given(NULL, IF local[t] \in live THEN tsd[t][local[t]] ELSE NULL)]
  BY DEF GetHost, Return, table, host
<1> DEFINE k == arg[t].key
<1>2. k \in Keys /\ used[k] /\ local[t] = hostKey[k] /\ local[t] \in live
  BY <1>0, <1>1 DEF LookupsFresh, SlotsApart
<1>3. \A u \in Threads : /\ pc'[u] = "delete" <=> pc[u] = "delete"
                         /\ pc[u] = "delete" => local'[u] = local[u]
  BY <1>0, <1>1 DEF Return
<1>4. UNCHANGED <<InUse, SlotValues, SlotDtors, Deleting>>
  BY <1>1, <1>3, HostSame
<1>5. SlotValues[k][t] = tsd[t][local[t]]
  BY <1>2 DEF SlotValues, ValuesOf
<1> QED BY <1>1, <1>2, <1>4, <1>5 DEF Tls!Get, Given

\* The value that setspecific sets is the key's in the calling thread, and no
\* other key's in any thread.
LEMMA SetHostSimulates ==
  ASSUME KeysInv, KeysInv', NEW t \in Threads, SetHost(t)
  PROVE  \E k \in Keys, v \in Values : Tls!Set(t, k, v)
<1> USE DEF TypeOK
<1>0. TypeOK /\ SlotsApart /\ DeletersApart /\ LookupsFresh /\ TypeOK'
  BY DEF KeysInv
<1> DEFINE k == arg[t].key
           v == arg[t].value
           h == hostKey[k]
<1>1. pc[t] = "set" /\ Return(t, "set") /\ UNCHANGED <<used, hostKey, live, dtor, got>>
  BY DEF SetHost, Return, table
<1>2. /\ k \in Keys /\ used[k] /\ local[t] = h /\ h \in live /\ h \in HostKeys /\ v \in Values
  BY <1>0, <1>1 DEF LookupsFresh, SlotsApart
<1>3. tsd' = [tsd EXCEPT ![t][h] = v]
  BY <1>2 DEF SetHost
<1>4. \A j \in Keys : used[j] /\ j # k => hostKey[j] # h /\ hostKey[j] \in HostKeys
  BY <1>0, <1>2 DEF SlotsApart
<1>5. InUse' = InUse /\ SlotDtors' = SlotDtors
  BY <1>1 DEF InUse, SlotDtors
<1>6. SlotValues' = [SlotValues EXCEPT ![k][t] = v]
  <2>1. SlotValues'[k] = [SlotValues[k] EXCEPT ![t] = v]
    BY <1>0, <1>1, <1>2, <1>3 DEF SlotValues, ValuesOf
  <2>2. ASSUME NEW j \in Keys, j # k PROVE SlotValues'[j] = SlotValues[j]
    <3>1. CASE used[j]
      <4>1. ValuesOf(hostKey[j])' = ValuesOf(hostKey[j])
        BY <1>0, <1>1, <1>2, <1>3, <1>4, <2>2, <3>1 DEF ValuesOf
      <4> QED BY <1>1, <3>1, <4>1 DEF SlotValues
    <3>2. CASE ~used[j]
      BY <1>1, <3>2 DEF SlotValues, NoValues
    <3> QED BY <3>1, <3>2
  <2> QED BY <1>2, <2>1, <2>2, ViewTypes DEF SlotValues
<1>7. Deleting' = Deleting
  <2>1. ASSUME NEW u \in Threads PROVE Deleting'[u] = Deleting[u]
    <3>1. pc[u] = "delete" => local[u] # h /\ local[u] \in HostKeys
      BY <1>0, <1>2 DEF DeletersApart
    <3>2. /\ pc'[u] = "delete" <=> pc[u] = "delete"
          /\ pc[u] = "delete" => local'[u] = local[u]
      BY <1>0, <1>1 DEF Return
    <3>3. pc[u] = "delete" => \A w \in Threads : tsd'[w][local[u]] = tsd[w][local[u]]
      BY <1>0, <1>2, <1>3, <3>1
    <3> QED BY <1>1, <3>2, <3>3, DeletingSame
  <2> QED BY <2>1, ViewTypes DEF Deleting
<1>8. k \in InUse
  BY <1>2 DEF InUse
<1>9. Tls!Set(t, k, v)
  BY <1>1, <1>5, <1>6, <1>7, <1>8 DEF Tls!Set
<1> QED BY <1>2, <1>9

\* A destructor gets a value left under the key that it was made with, whether
\* the key still has its slot or is in the middle of its deletion.
LEMMA DestructSimulates ==
  ASSUME KeysInv, KeysInv', NEW t \in Threads, Destruct(t)
  PROVE  Tls!Destruct(t)
<1> USE DEF TypeOK
<1>0. TypeOK /\ SlotsApart /\ DeletersApart /\ NoHostKeyLeaks /\ TypeOK'
  BY DEF KeysInv
<1>1. PICK h \in live :
        /\ tsd[t][h] # NULL /\ tsd' = [tsd EXCEPT ![t][h] = NULL]
        /\ got' = [got EXCEPT ![t] = Given(dtor[h], tsd[t][h])]
        /\ UNCHANGED <<used, hostKey, live, dtor, pc, arg, local>>
  BY DEF Destruct, table
<1>2. h \in HostKeys
  BY <1>0
<1>3. InUse' = InUse /\ SlotDtors' = SlotDtors
  BY <1>1 DEF InUse, SlotDtors
<1>4. ASSUME NEW j \in Keys, used[j] => hostKey[j] # h PROVE SlotValues'[j] = SlotValues[j]
  <2>1. CASE used[j]
    <3>1. ValuesOf(hostKey[j])' = ValuesOf(hostKey[j])
      BY <1>0, <1>1, <1>2, <1>4, <2>1 DEF ValuesOf, SlotsApart
    <3> QED BY <1>1, <2>1, <3>1 DEF SlotValues
  <2>2. CASE ~used[j]
    BY <1>1, <2>2 DEF SlotValues, NoValues
  <2> QED BY <2>1, <2>2
<1>5. ASSUME NEW u \in Threads, pc[u] = "delete" => local[u] # h
      PROVE  Deleting'[u] = Deleting[u]
  <2>1. pc[u] = "delete" => \A w \in Threads : tsd'[w][local[u]] = tsd[w][local[u]]
    BY <1>0, <1>1, <1>2, <1>5 DEF DeletersApart
  <2> QED BY <1>1, <2>1, DeletingSame
<1>6. CASE \E k \in Keys : used[k] /\ hostKey[k] = h
  <2>1. PICK k \in Keys : used[k] /\ hostKey[k] = h
    BY <1>6
  <2>2. SlotValues'[k] = [SlotValues[k] EXCEPT ![t] = NULL]
    BY <1>0, <1>1, <1>2, <2>1 DEF SlotValues, ValuesOf
  <2>3. \A j \in Keys : j # k => SlotValues'[j] = SlotValues[j]
    BY <1>0, <1>4, <2>1 DEF SlotsApart
  <2>4. SlotValues' = [SlotValues EXCEPT ![k][t] = NULL]
    BY <2>1, <2>2, <2>3, ViewTypes DEF SlotValues
  <2>5. \A u \in Threads : Deleting'[u] = Deleting[u]
    BY <1>0, <1>5, <2>1 DEF DeletersApart
  <2>6. Deleting' = Deleting
    BY <2>5, ViewTypes DEF Deleting
  <2>7. k \in InUse /\ SlotValues[k][t] = tsd[t][h] /\ SlotDtors[k] = dtor[h]
    BY <2>1 DEF InUse, SlotValues, SlotDtors, ValuesOf
  <2> QED BY <1>1, <1>3, <2>4, <2>6, <2>7 DEF Tls!Destruct, Given
<1>7. CASE \E u \in Threads : pc[u] = "delete" /\ local[u] = h
  <2>1. PICK u \in Threads : pc[u] = "delete" /\ local[u] = h
    BY <1>7
  <2>2. Deleting'[u] = [Deleting[u] EXCEPT !.val[t] = NULL]
    <3>1. [w \in Threads |-> tsd'[w][h]] = [ValuesOf(h) EXCEPT ![t] = NULL]
      BY <1>0, <1>1, <1>2, ZenonT(40) DEF ValuesOf
    <3>2. Deleting[u] = [val |-> ValuesOf(h), cleanup |-> dtor[h]]
      BY <2>1 DEF Deleting
    <3>3. Deleting'[u] = [val |-> [w \in Threads |-> tsd'[w][h]], cleanup |-> dtor[h]]
      BY <1>1, <2>1 DEF Deleting, ValuesOf
    <3> QED BY <3>1, <3>2, <3>3
  <2>3. \A w \in Threads : w # u => Deleting'[w] = Deleting[w]
    BY <1>0, <1>5, <2>1 DEF DeletersApart
  <2>4. Deleting' = [Deleting EXCEPT ![u].val[t] = NULL]
    BY <2>1, <2>2, <2>3, ViewTypes DEF Deleting
  <2>5. \A j \in Keys : SlotValues'[j] = SlotValues[j]
    BY <1>0, <1>4, <2>1 DEF DeletersApart
  <2>6. SlotValues' = SlotValues
    BY <2>5, ViewTypes DEF SlotValues
  <2>7. Deleting[u].val[t] = tsd[t][h] /\ Deleting[u].cleanup = dtor[h]
    BY <2>1 DEF Deleting, ValuesOf
  <2> QED BY <1>1, <1>3, <2>4, <2>6, <2>7 DEF Tls!Destruct, Given
<1> QED BY <1>0, <1>6, <1>7 DEF NoHostKeyLeaks

\* Every step of the table is a step of the contract or none.
LEMMA KeysStepSimulates ==
  KeysInv /\ KeysInv' /\ [Next]_vars => [Tls!Next]_(Tls!vars)
<1> SUFFICES ASSUME KeysInv, KeysInv', [Next]_vars PROVE [Tls!Next]_(Tls!vars)
  OBVIOUS
<1>1. ASSUME NEW t \in Threads, NEW d \in Dtors, KeyCreate(t, d) PROVE Tls!Next
  BY <1>1, CreateSimulates DEF Tls!Next
<1>2. ASSUME NEW t \in Threads, NEW k \in Keys, KeyDelete(t, k) PROVE Tls!Next
  BY <1>2, DeleteSimulates DEF Tls!Next
<1>3. ASSUME NEW t \in Threads, KeyDeleteHost(t) PROVE Tls!Next
  BY <1>3, DeletedSimulates DEF Tls!Next
<1>4. ASSUME NEW t \in Threads, GetHost(t) PROVE Tls!Next
  BY <1>4, GetHostSimulates DEF Tls!Next
<1>5. ASSUME NEW t \in Threads, SetHost(t) PROVE Tls!Next
  BY <1>5, SetHostSimulates DEF Tls!Next
<1>6. ASSUME NEW t \in Threads, Destruct(t) PROVE Tls!Next
  BY <1>6, DestructSimulates DEF Tls!Next
<1>7. ASSUME NEW t \in Threads, NEW k \in Keys, NEW v \in Values, SetSpecific(t, k, v)
      PROVE  UNCHANGED Tls!vars
  <2>1. Go(t, "set", k, v, hostKey[k]) /\ UNCHANGED <<used, hostKey, tsd, dtor, got>>
    BY <1>7 DEF SetSpecific, table, host
  <2>2. \A u \in Threads : /\ pc'[u] = "delete" <=> pc[u] = "delete"
                           /\ pc[u] = "delete" => local'[u] = local[u]
    BY <2>1 DEF Go, KeysInv, TypeOK
  <2> QED BY <2>1, <2>2, HostSame DEF Tls!vars
<1>8. CASE UNCHANGED vars
  <2>1. UNCHANGED <<used, hostKey, tsd, dtor, pc, local, got>>
    BY <1>8 DEF vars
  <2> QED BY <2>1, HostSame DEF Tls!vars
<1> QED
  BY <1>1, <1>2, <1>3, <1>4, <1>5, <1>6, <1>7, <1>8, GetSimulates DEF Next

\* The table of pthread_compat.c implements thread-specific data as its callers
\* know it, although slots and host keys are recycled and every host call is
\* made after the unlock.
THEOREM KeysRefinement == Spec => ImplementsTls
<1>1. Init => Tls!Init
  BY DEF Init, Tls!Init, Tls!Blank, Tls!Nothing, InUse, SlotValues, SlotDtors, Deleting,
         NoValues, Given
<1> QED
  BY <1>1, KeysInvariant, KeysStepSimulates, PTL DEF Spec, ImplementsTls, Tls!Spec
-----------------------------------------------------------------------------
(* a2i_pthread_once, whose control word is no part of the key table.       *)

\* Every step of a2i_pthread_once, the stutter included, preserves the
\* inductive invariant that ties the once word to the run of init_routine.
LEMMA OnceInvStep == OnceInv /\ [OnceNext]_onceVars => OnceInv'
<1> SUFFICES ASSUME OnceInv, [OnceNext]_onceVars PROVE OnceInv'
  OBVIOUS
<1> USE DEF OnceInv, OnceTypeOK, InitRunsOnce, OncePC
<1>1. ASSUME NEW t \in Callers, Call(t) PROVE OnceInv'
  BY <1>1 DEF Call, Goto
<1>2. ASSUME NEW t \in Callers, Load(t) PROVE OnceInv'
  BY <1>2 DEF Load, Goto
<1>3. ASSUME NEW t \in Callers, Exchange(t) PROVE OnceInv'
  <2>1. CASE once = 0
    BY <1>3, <2>1 DEF Exchange, Goto
  <2>2. CASE once # 0
    BY <1>3, <2>2 DEF Exchange, Goto
  <2> QED BY <2>1, <2>2
<1>4. ASSUME NEW t \in Callers, Yield(t) PROVE OnceInv'
  BY <1>4 DEF Yield, Goto
<1>5. ASSUME NEW t \in Callers, InitReturns(t) PROVE OnceInv'
  BY <1>5 DEF InitReturns, Goto
<1>6. ASSUME NEW t \in Callers, Publish(t) PROVE OnceInv'
  BY <1>6 DEF Publish, Goto
<1>7. CASE UNCHANGED onceVars
  BY <1>7 DEF onceVars
<1> QED
  BY <1>1, <1>2, <1>3, <1>4, <1>5, <1>6, <1>7 DEF OnceNext, Step

\* The once word always tells the phase of the single run of init_routine.
THEOREM OnceInvariant == OnceSpec => []OnceInv
<1>1. OnceInit => OnceInv
  BY DEF OnceInit, OnceInv, OnceTypeOK, InitRunsOnce, OncePC
<1> QED
  BY <1>1, OnceInvStep, PTL DEF OnceSpec

\* Every step of a2i_pthread_once is a step of the contract or leaves its
\* phase and its callers alone: only Load on a published word and Publish let
\* a caller out, and both happen with the initialiser finished.
LEMMA OnceStepSimulates ==
  OnceInv /\ OnceInv' /\ [OnceNext]_onceVars => [Contract!Next]_Contract!vars
<1> SUFFICES ASSUME OnceInv, OnceInv', [OnceNext]_onceVars
             PROVE  [Contract!Next]_Contract!vars
  OBVIOUS
<1> USE DEF OnceInv, OnceTypeOK, InitRunsOnce, OncePC, Contract!vars
<1>1. ASSUME NEW t \in Callers, Call(t) PROVE [Contract!Next]_Contract!vars
  <2>1. Inside' = Inside \cup {t} /\ t \notin Inside
    BY <1>1 DEF Call, Goto, Inside
  <2>2. Phase' = Phase
    BY <1>1 DEF Call, Goto, Phase
  <2> QED BY <2>1, <2>2 DEF Contract!Next, Contract!Enter
<1>2. ASSUME NEW t \in Callers, Load(t) PROVE [Contract!Next]_Contract!vars
  <2>1. Phase' = Phase
    BY <1>2 DEF Load, Goto, Phase
  <2>2. CASE once = 2
    <3>1. Inside' = Inside \ {t} /\ t \in Inside
      BY <1>2, <2>2 DEF Load, Goto, Inside
    <3>2. Phase = "finished"
      BY <2>2 DEF Phase
    <3> QED BY <2>1, <3>1, <3>2 DEF Contract!Next, Contract!Leave
  <2>3. CASE once # 2
    <3>1. Inside' = Inside
      BY <1>2, <2>3 DEF Load, Goto, Inside
    <3> QED BY <2>1, <3>1
  <2> QED BY <2>2, <2>3
<1>3. ASSUME NEW t \in Callers, Exchange(t) PROVE [Contract!Next]_Contract!vars
  <2>1. Inside' = Inside /\ t \in Inside
    BY <1>3 DEF Exchange, Goto, Inside
  <2>2. CASE once = 0
    <3>1. Phase = "fresh" /\ Phase' = "running"
      BY <1>3, <2>2 DEF Exchange, Goto, Phase
    <3> QED BY <2>1, <3>1 DEF Contract!Next, Contract!Begin
  <2>3. CASE once # 0
    <3>1. Phase' = Phase
      BY <1>3, <2>3 DEF Exchange, Goto, Phase
    <3> QED BY <2>1, <3>1
  <2> QED BY <2>2, <2>3
<1>4. ASSUME NEW t \in Callers, Yield(t) PROVE [Contract!Next]_Contract!vars
  BY <1>4 DEF Yield, Goto, Inside, Phase
<1>5. ASSUME NEW t \in Callers, InitReturns(t) PROVE [Contract!Next]_Contract!vars
  <2>1. Inside' = Inside
    BY <1>5 DEF InitReturns, Goto, Inside
  <2>2. Phase = "running" /\ Phase' = "finished"
    BY <1>5 DEF InitReturns, Goto, Phase
  <2> QED BY <2>1, <2>2 DEF Contract!Next, Contract!Finish
<1>6. ASSUME NEW t \in Callers, Publish(t) PROVE [Contract!Next]_Contract!vars
  <2>1. Inside' = Inside \ {t} /\ t \in Inside
    BY <1>6 DEF Publish, Goto, Inside
  <2>2. Phase = "finished" /\ Phase' = "finished"
    BY <1>6 DEF Publish, Goto, Phase
  <2> QED BY <2>1, <2>2 DEF Contract!Next, Contract!Leave
<1>7. CASE UNCHANGED onceVars
  BY <1>7 DEF onceVars, Inside, Phase
<1> QED
  BY <1>1, <1>2, <1>3, <1>4, <1>5, <1>6, <1>7 DEF OnceNext, Step

\* a2i_pthread_once implements what pthread_once promises, for any number of
\* callers and any interleaving of their atomic accesses.
THEOREM OnceRefinement == OnceSpec => ImplementsOnce
<1>1. OnceInit => Contract!Init
  BY DEF OnceInit, Contract!Init, Phase, Inside
<1> QED
  BY <1>1, OnceInvariant, OnceStepSimulates, PTL
  DEF OnceSpec, ImplementsOnce, Contract!Spec
=============================================================================
