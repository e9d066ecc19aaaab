-------------------------- MODULE SemaphoreProofs --------------------------
(***************************************************************************)
(* No wake-up of the semaphore bridge is lost, for any number of threads   *)
(* and with spurious wake-ups.                                             *)
(***************************************************************************)
EXTENDS Semaphore, FiniteSetTheorems, TLAPS

\* The threads at a label are finitely many.
LEMMA AtFinite ==
  ASSUME NEW l
  PROVE  IsFiniteSet(At(l)) /\ Cardinality(At(l)) \in Nat
<1>1. At(l) \subseteq Threads
  BY DEF At
<1> QED BY <1>1, SemAssumption, FS_Subset, FS_CardinalityType

\* The invariant needs only who waits and the value.
LEMMA SameWaiters ==
  ASSUME NoLostWakeup, At("sleeping")' = At("sleeping"),
         At("wait_lock")' = At("wait_lock"), value' = value
  PROVE  NoLostWakeup'
BY DEF NoLostWakeup

\* A new waiter, awake: from outside, or from a wake-up.
LEMMA MoreAwake ==
  ASSUME TypeOK, NoLostWakeup, NEW t \in Threads, t \notin At("wait_lock"),
         At("wait_lock")' = At("wait_lock") \cup {t},
         At("sleeping") # {}, value' \in Nat, value' <= value + 1
  PROVE  NoLostWakeup'
<1>1. /\ IsFiniteSet(At("wait_lock")) /\ Cardinality(At("wait_lock")) \in Nat
  BY AtFinite
<1>2. Cardinality(At("wait_lock") \cup {t}) = Cardinality(At("wait_lock")) + 1
  BY <1>1, FS_AddElement
<1>3. value <= Cardinality(At("wait_lock")) /\ value \in Nat
  BY SemAssumption DEF NoLostWakeup, TypeOK
<1>4. value' <= Cardinality(At("wait_lock"))  + 1
  BY <1>1, <1>3
<1>5. Cardinality(At("wait_lock")') = Cardinality(At("wait_lock")) + 1
  BY <1>2
<1> QED BY <1>4, <1>5 DEF NoLostWakeup

\* The value given to sem_init is one of an unsigned.
LEMMA ArgBound ==
  ASSUME TypeOK, NEW t \in Threads
  PROVE  arg[t] \in 0 .. ValueMod - 1
<1>1. arg[t] \in Values \cup {0}
  BY DEF TypeOK
<1>2. CASE arg[t] = 0
  <2>1. 0 \in 0 .. ValueMod - 1
    BY SemAssumption
  <2> QED BY <1>2, <2>1
<1>3. CASE arg[t] \in Values
  <2>1. arg[t] \in 0 .. MaxValue
    BY <1>3, SemAssumption
  <2> QED BY <2>1, SemAssumption
<1> QED BY <1>1, <1>2, <1>3

\* TypeOK and BeforeNode are inductive.
LEMMA SemTypeStep == SemInv /\ [Next]_vars => TypeOK' /\ BeforeNode'
<1> SUFFICES ASSUME SemInv, [Next]_vars PROVE TypeOK' /\ BeforeNode'
  OBVIOUS
<1> USE SemAssumption DEF SemInv, TypeOK, BeforeNode, PC, Goto, At
<1>1. ASSUME NEW t \in Threads, InitCall(t) PROVE TypeOK' /\ BeforeNode'
  BY <1>1 DEF InitCall
<1>2. ASSUME NEW t \in Threads, WaitCall(t) \/ PostCall(t) \/ GetCall(t)
      PROVE  TypeOK' /\ BeforeNode'
  BY <1>2 DEF WaitCall, PostCall, GetCall, Enter
<1>3. ASSUME NEW t \in Threads, InitInsert(t) PROVE TypeOK' /\ BeforeNode'
  <2>1. arg[t] \in 0 .. ValueMod - 1
    BY ArgBound
  <2>2. CASE registered
    BY <1>3, <2>2 DEF InitInsert
  <2>3. CASE ~registered
    BY <1>3, <2>1, <2>3 DEF InitInsert
  <2> QED BY <2>2, <2>3
<1>4. ASSUME NEW t \in Threads, InitPublish(t) PROVE TypeOK' /\ BeforeNode'
  BY <1>4 DEF InitPublish
<1>5. ASSUME NEW t \in Threads, WaitSleep(t) PROVE TypeOK' /\ BeforeNode'
  BY <1>5 DEF WaitSleep
<1>6. ASSUME NEW t \in Threads, WaitTake(t) PROVE TypeOK' /\ BeforeNode'
  BY <1>6 DEF WaitTake
<1>7. ASSUME NEW t \in Threads, PostSection(t) PROVE TypeOK' /\ BeforeNode'
  <2>1. Increment \in 0 .. ValueMod - 1
    BY DEF Increment
  <2>2. pc' \in [Threads -> PC]
    BY <1>7 DEF PostSection, At
  <2>3. registered
    BY <1>7 DEF PostSection
  <2> QED BY <1>7, <2>1, <2>2, <2>3 DEF PostSection
<1>8. ASSUME NEW t \in Threads, GetSection(t) PROVE TypeOK' /\ BeforeNode'
  BY <1>8 DEF GetSection
<1>9. ASSUME NEW t \in Threads, SpuriousWake(t) PROVE TypeOK' /\ BeforeNode'
  BY <1>9 DEF SpuriousWake
<1>10. CASE UNCHANGED vars
  BY <1>10 DEF vars
<1> QED
  BY <1>1, <1>2, <1>3, <1>4, <1>5, <1>6, <1>7, <1>8, <1>9, <1>10 DEF Next, Step

\* No step leaves more permits than awake waiters beside a sleeper.
LEMMA NoLostWakeupStep == SemInv /\ [Next]_vars => NoLostWakeup'
<1> SUFFICES ASSUME SemInv, [Next]_vars PROVE NoLostWakeup'
  OBVIOUS
<1>0. TypeOK /\ NoLostWakeup
  BY DEF SemInv
<1>1. ASSUME NEW t \in Threads,
             InitCall(t) \/ InitPublish(t) \/ GetSection(t) \/ PostCall(t) \/ GetCall(t)
      PROVE  NoLostWakeup'
  <2>1. At("sleeping")' = At("sleeping") /\ At("wait_lock")' = At("wait_lock")
    BY <1>0, <1>1 DEF TypeOK, At, Goto, InitCall, InitPublish, GetSection,
                      PostCall, GetCall, Enter
  <2>2. value' = value
    BY <1>1 DEF InitCall, InitPublish, GetSection, PostCall, GetCall, Enter
  <2> QED BY <1>0, <2>1, <2>2, SameWaiters
<1>2. ASSUME NEW t \in Threads, InitInsert(t) PROVE NoLostWakeup'
  <2>1. At("sleeping")' = At("sleeping") /\ At("wait_lock")' = At("wait_lock")
    BY <1>0, <1>2 DEF TypeOK, At, Goto, InitInsert
  <2>2. CASE registered
    BY <1>0, <1>2, <2>1, <2>2, SameWaiters DEF InitInsert
  <2>3. CASE ~registered
    <3>1. At("sleeping") = {}
      BY <2>3 DEF SemInv, BeforeNode, At
    <3> QED BY <2>1, <3>1 DEF NoLostWakeup
  <2> QED BY <2>2, <2>3
<1>3. ASSUME NEW t \in Threads, WaitCall(t) PROVE NoLostWakeup'
  <2>1. At("sleeping")' = At("sleeping") /\ value' = value
    BY <1>0, <1>3 DEF TypeOK, At, Goto, WaitCall, Enter
  <2>2. CASE registered
    <3>1. t \notin At("wait_lock") /\ At("wait_lock")' = At("wait_lock") \cup {t}
      BY <1>0, <1>3, <2>2 DEF TypeOK, At, Goto, WaitCall, Enter
    <3>2. CASE At("sleeping") = {}
      BY <2>1, <3>2 DEF NoLostWakeup
    <3>3. CASE At("sleeping") # {}
      <4>1. value' \in Nat /\ value' <= value + 1
        BY <1>0, <2>1, SemAssumption DEF TypeOK
      <4> QED BY <1>0, <3>1, <3>3, <4>1, MoreAwake
    <3> QED BY <3>2, <3>3
  <2>3. CASE ~registered
    <3>1. At("sleeping") = {}
      BY <2>3 DEF SemInv, BeforeNode, At
    <3> QED BY <2>1, <3>1 DEF NoLostWakeup
  <2> QED BY <2>2, <2>3
<1>4. ASSUME NEW t \in Threads, WaitSleep(t) PROVE NoLostWakeup'
  <2>1. value' = 0
    BY <1>4 DEF WaitSleep
  <2>2. At("wait_lock")' = At("wait_lock") \ {t}
    BY <1>0, <1>4 DEF TypeOK, At, Goto, WaitSleep
  <2>3. IsFiniteSet(At("wait_lock"))
    BY AtFinite
  <2>4. Cardinality(At("wait_lock") \ {t}) \in Nat
    BY <2>3, FS_RemoveElement, FS_CardinalityType
  <2> QED BY <2>1, <2>2, <2>4 DEF NoLostWakeup
<1>5. ASSUME NEW t \in Threads, WaitTake(t) PROVE NoLostWakeup'
  <2>1. value' = value - 1 /\ value \in Nat
    BY <1>0, <1>5, SemAssumption DEF WaitTake, TypeOK
  <2>2. /\ At("wait_lock")' = At("wait_lock") \ {t} /\ t \in At("wait_lock")
        /\ At("sleeping")' = At("sleeping")
    BY <1>0, <1>5 DEF TypeOK, At, Goto, WaitTake
  <2>3. IsFiniteSet(At("wait_lock")) /\ Cardinality(At("wait_lock")) \in Nat
    BY AtFinite
  <2>4. Cardinality(At("wait_lock") \ {t}) = Cardinality(At("wait_lock")) - 1
    BY <2>2, <2>3, FS_RemoveElement
  <2>5. CASE At("sleeping") = {}
    BY <2>2, <2>5 DEF NoLostWakeup
  <2>6. CASE At("sleeping") # {}
    <3>1. value <= Cardinality(At("wait_lock"))
      BY <1>0, <2>6 DEF NoLostWakeup
    <3>2. value' <= Cardinality(At("wait_lock")) - 1
      BY <2>1, <2>3, <3>1
    <3> QED BY <2>2, <2>4, <3>2 DEF NoLostWakeup
  <2> QED BY <2>5, <2>6
<1>6. ASSUME NEW t \in Threads, PostSection(t) PROVE NoLostWakeup'
  <2>1. value' \in Nat /\ value' <= value + 1
    <3>1. Increment \in Nat /\ Increment <= value + 1
      BY <1>0, SemAssumption DEF Increment, TypeOK
    <3> QED BY <1>6, <3>1 DEF PostSection
  <2>2. CASE At("sleeping") = {}
    <3>1. At("sleeping")' = {}
      BY <1>0, <1>6, <2>2 DEF PostSection, TypeOK, At
    <3> QED BY <3>1 DEF NoLostWakeup
  <2>3. CASE At("sleeping") # {}
    <3>1. PICK s \in At("sleeping") : pc' = [pc EXCEPT ![t] = "out", ![s] = "wait_lock"]
      BY <1>6, <2>3 DEF PostSection
    <3>2. /\ s \in Threads /\ s \notin At("wait_lock")
          /\ At("wait_lock")' = At("wait_lock") \cup {s}
      BY <1>0, <1>6, <3>1 DEF PostSection, TypeOK, At
    <3> QED BY <1>0, <2>1, <2>3, <3>2, MoreAwake
  <2> QED BY <2>2, <2>3
<1>7. ASSUME NEW t \in Threads, SpuriousWake(t) PROVE NoLostWakeup'
  <2>1. value' = value /\ value' \in Nat /\ value' <= value + 1
    BY <1>0, <1>7, SemAssumption DEF SpuriousWake, TypeOK
  <2>2. /\ t \notin At("wait_lock") /\ At("sleeping") # {}
        /\ At("wait_lock")' = At("wait_lock") \cup {t}
    BY <1>0, <1>7 DEF SpuriousWake, Goto, TypeOK, At
  <2> QED BY <1>0, <2>1, <2>2, MoreAwake
<1>8. CASE UNCHANGED vars
  BY <1>0, <1>8, SameWaiters DEF vars, At
<1> QED
  BY <1>1, <1>2, <1>3, <1>4, <1>5, <1>6, <1>7, <1>8 DEF Next, Step

\* A sem_init on its way to publishing stays alone with the node: nobody enters
\* until it has, and no other sem_init finds the address free.
LEMMA PublishAloneStep == SemInv /\ [Next]_vars => PublishAlone'
<1> SUFFICES ASSUME SemInv, [Next]_vars PROVE PublishAlone'
  OBVIOUS
<1>0. TypeOK /\ BeforeNode /\ PublishAlone
  BY DEF SemInv
<1> USE DEF TypeOK, PublishAlone, At, Goto
<1>1. ASSUME NEW t \in Threads, InitCall(t) PROVE PublishAlone'
  BY <1>0, <1>1 DEF InitCall
<1>2. ASSUME NEW t \in Threads, WaitCall(t) \/ PostCall(t) \/ GetCall(t)
      PROVE  PublishAlone'
  BY <1>0, <1>2 DEF WaitCall, PostCall, GetCall, Enter, Usable
<1>3. ASSUME NEW t \in Threads, InitInsert(t) PROVE PublishAlone'
  <2>1. CASE registered
    BY <1>0, <1>3, <2>1 DEF InitInsert
  <2>2. CASE ~registered
    BY <1>0, <1>3, <2>2 DEF InitInsert, BeforeNode
  <2> QED BY <2>1, <2>2
<1>4. ASSUME NEW t \in Threads, InitPublish(t) PROVE PublishAlone'
  BY <1>0, <1>4 DEF InitPublish
<1>5. ASSUME NEW t \in Threads, WaitSleep(t) \/ WaitTake(t) \/ GetSection(t) \/ SpuriousWake(t)
      PROVE  PublishAlone'
  BY <1>0, <1>5 DEF WaitSleep, WaitTake, GetSection, SpuriousWake
<1>6. ASSUME NEW t \in Threads, PostSection(t) PROVE PublishAlone'
  BY <1>0, <1>6 DEF PostSection
<1>7. CASE UNCHANGED vars
  BY <1>0, <1>7 DEF vars
<1> QED
  BY <1>1, <1>2, <1>3, <1>4, <1>5, <1>6, <1>7 DEF Next, Step

\* The posts under way always fit: a post begins only below MaxValue, and no more
\* than all threads post at once.
LEMMA PostsFitStep == SemInv /\ [Next]_vars => PostsFit'
<1> SUFFICES ASSUME SemInv, [Next]_vars PROVE PostsFit'
  OBVIOUS
<1>0. /\ TypeOK /\ PostsFit /\ value \in Nat /\ MaxValue \in Nat
      /\ IsFiniteSet(At("post_lock")) /\ Cardinality(At("post_lock")) \in Nat
      /\ Cardinality(Threads) \in Nat
  BY AtFinite, SemAssumption, FS_CardinalityType DEF SemInv, TypeOK
<1>1. ASSUME value' \in Nat, value' <= MaxValue PROVE PostsFit'
  <2>1. At("post_lock")' \subseteq Threads
    BY DEF At
  <2>2. /\ Cardinality(At("post_lock")') \in Nat
        /\ Cardinality(At("post_lock")') <= Cardinality(Threads)
    BY <2>1, SemAssumption, FS_Subset, FS_CardinalityType
  <2> QED BY <1>0, <1>1, <2>2 DEF PostsFit
<1>2. ASSUME value' \in Nat, value' <= value, At("post_lock")' = At("post_lock")
      PROVE  PostsFit'
  BY <1>0, <1>2 DEF PostsFit
<1>3. ASSUME NEW t \in Threads,
             InitCall(t) \/ InitPublish(t) \/ GetSection(t) \/ WaitCall(t) \/ GetCall(t)
             \/ WaitSleep(t) \/ SpuriousWake(t)
      PROVE  PostsFit'
  <2>1. value' = value
    BY <1>3 DEF InitCall, InitPublish, GetSection, WaitCall, GetCall, Enter, WaitSleep,
                SpuriousWake
  <2>2. At("post_lock")' = At("post_lock")
    BY <1>0, <1>3 DEF TypeOK, At, Goto, InitCall, InitPublish, GetSection, WaitCall, GetCall,
                      Enter, WaitSleep, SpuriousWake
  <2> QED BY <1>0, <1>2, <2>1, <2>2
<1>4. ASSUME NEW t \in Threads, InitInsert(t) PROVE PostsFit'
  <2>1. CASE registered
    <3>1. value' = value /\ At("post_lock")' = At("post_lock")
      BY <1>0, <1>4, <2>1 DEF TypeOK, InitInsert, At, Goto
    <3> QED BY <1>0, <1>2, <3>1
  <2>2. CASE ~registered
    <3>1. value' = arg[t] /\ arg[t] \in Values
      BY <1>0, <1>4, <2>2 DEF TypeOK, InitInsert, Goto, At
    <3>2. value' \in 0 .. MaxValue
      BY <3>1, SemAssumption
    <3>3. value' \in Nat /\ value' <= MaxValue
      BY <1>0, <3>2
    <3> QED BY <1>1, <3>3
  <2> QED BY <2>1, <2>2
<1>5. ASSUME NEW t \in Threads, PostCall(t) PROVE PostsFit'
  BY <1>0, <1>1, <1>5 DEF PostCall, Enter
<1>6. ASSUME NEW t \in Threads, WaitTake(t) PROVE PostsFit'
  <2>1. value' \in Nat /\ value' <= value
    BY <1>0, <1>6 DEF WaitTake
  <2>2. At("post_lock")' = At("post_lock")
    BY <1>0, <1>6 DEF WaitTake, TypeOK, At, Goto
  <2> QED BY <1>2, <2>1, <2>2
<1>7. ASSUME NEW t \in Threads, PostSection(t) PROVE PostsFit'
  <2>1. t \in At("post_lock") /\ At("post_lock")' = At("post_lock") \ {t}
    BY <1>0, <1>7 DEF PostSection, TypeOK, At
  <2>2. Cardinality(At("post_lock")') = Cardinality(At("post_lock")) - 1
    BY <1>0, <2>1, FS_RemoveElement
  <2>3. value' \in Nat /\ value' <= value + 1
    BY <1>0, <1>7, SemAssumption DEF PostSection, Increment
  <2> QED BY <1>0, <2>2, <2>3 DEF PostsFit
<1>8. CASE UNCHANGED vars
  BY <1>0, <1>2, <1>8 DEF vars, At
<1> QED
  BY <1>3, <1>4, <1>5, <1>6, <1>7, <1>8 DEF Next, Step

\* The inductive invariant of the semaphore bridge.
THEOREM SemInvariant == Spec => []SemInv
<1>1. Init => SemInv
  <2> SUFFICES ASSUME Init PROVE SemInv
    OBVIOUS
  <2>1. TypeOK
    <3>1. 0 \in 0 .. ValueMod - 1
      BY SemAssumption
    <3> QED BY <3>1 DEF Init, TypeOK, PC, At
  <2>2. At("sleeping") = {}
    BY DEF Init, At
  <2>3. PublishAlone
    BY DEF Init, PublishAlone, At
  <2>4. PostsFit
    <3>1. At("post_lock") = {} /\ value = 0
      BY DEF Init, At
    <3> QED BY <3>1, SemAssumption, FS_EmptySet, FS_CardinalityType DEF PostsFit
  <2> QED BY <2>1, <2>2, <2>3, <2>4 DEF Init, SemInv, BeforeNode, NoLostWakeup
<1>2. SemInv /\ [Next]_vars => SemInv'
  BY SemTypeStep, NoLostWakeupStep, PublishAloneStep, PostsFitStep DEF SemInv
<1> QED BY <1>1, <1>2, PTL DEF Spec

\* The mirror is written with the value, or alone with the node.
LEMMA MirrorStep == SemInv /\ CountMirrorsValue /\ [Next]_vars => CountMirrorsValue'
<1> SUFFICES ASSUME SemInv, CountMirrorsValue, [Next]_vars PROVE CountMirrorsValue'
  OBVIOUS
<1>0. TypeOK /\ PublishAlone
  BY DEF SemInv
<1> USE DEF TypeOK, CountMirrorsValue, Usable, At, Goto
<1>1. ASSUME NEW t \in Threads, InitCall(t) PROVE CountMirrorsValue'
  BY <1>0, <1>1 DEF InitCall
<1>2. ASSUME NEW t \in Threads, WaitCall(t) \/ PostCall(t) \/ GetCall(t)
      PROVE  CountMirrorsValue'
  BY <1>0, <1>2 DEF WaitCall, PostCall, GetCall, Enter
<1>3. ASSUME NEW t \in Threads, InitInsert(t) PROVE CountMirrorsValue'
  <2>1. CASE registered
    BY <1>0, <1>3, <2>1 DEF InitInsert
  <2>2. CASE ~registered
    BY <1>0, <1>3, <2>2 DEF InitInsert
  <2> QED BY <2>1, <2>2
<1>4. ASSUME NEW t \in Threads, InitPublish(t) PROVE CountMirrorsValue'
  BY <1>0, <1>4 DEF InitPublish, PublishAlone
<1>5. ASSUME NEW t \in Threads, WaitSleep(t) \/ GetSection(t) \/ SpuriousWake(t)
      PROVE  CountMirrorsValue'
  BY <1>0, <1>5 DEF WaitSleep, GetSection, SpuriousWake
<1>6. ASSUME NEW t \in Threads, WaitTake(t) \/ PostSection(t) PROVE CountMirrorsValue'
  <2>1. count' = value'
    BY <1>6 DEF WaitTake, PostSection
  <2> QED BY <2>1
<1>7. CASE UNCHANGED vars
  BY <1>0, <1>7 DEF vars
<1> QED
  BY <1>1, <1>2, <1>3, <1>4, <1>5, <1>6, <1>7 DEF Next, Step

\* The first word of the Android object is the value whenever a caller may look.
THEOREM MirrorInvariant == Spec => []CountMirrorsValue
<1>1. Init => CountMirrorsValue
  BY DEF Init, CountMirrorsValue
<1> QED BY <1>1, MirrorStep, SemInvariant, PTL DEF Spec
-----------------------------------------------------------------------------
\* The threads that wait, as the contract sees them.
Waiting == At("wait_lock") \cup At("sleeping")

\* Every step of the bridge is a step of a counting semaphore or none.
LEMMA SemStepSimulates == SemInv /\ [Next]_vars => [Contract!Next]_(Contract!vars)
<1> SUFFICES ASSUME SemInv, [Next]_vars PROVE [Contract!Next]_(Contract!vars)
  OBVIOUS
<1>0. TypeOK /\ BeforeNode /\ PostsFit /\ value \in Nat
  BY SemAssumption DEF SemInv, TypeOK
<1>1. ASSUME NEW t \in Threads,
             InitCall(t) \/ InitPublish(t) \/ GetSection(t) \/ PostCall(t) \/ GetCall(t)
             \/ WaitSleep(t) \/ SpuriousWake(t)
      PROVE  UNCHANGED <<registered, value, Waiting>>
  <2>1. UNCHANGED <<registered, value>>
    BY <1>1 DEF InitCall, InitPublish, GetSection, PostCall, GetCall, Enter, WaitSleep,
                SpuriousWake
  <2>2. Waiting' = Waiting
    BY <1>0, <1>1 DEF TypeOK, Waiting, At, Goto, InitCall, InitPublish, GetSection, PostCall,
                      GetCall, Enter, WaitSleep, SpuriousWake
  <2> QED BY <2>1, <2>2
<1>2. ASSUME NEW t \in Threads, InitInsert(t)
      PROVE  \/ UNCHANGED <<registered, value, Waiting>>
             \/ \E v \in Values : Contract!Create(v)
  <2>1. Waiting' = Waiting
    BY <1>0, <1>2 DEF TypeOK, InitInsert, Waiting, At, Goto
  <2>2. CASE registered
    BY <1>2, <2>1, <2>2 DEF InitInsert
  <2>3. CASE ~registered
    <3>1. arg[t] \in Values
      BY <1>0, <1>2 DEF InitInsert, Goto, TypeOK, At
    <3> QED BY <1>2, <2>1, <2>3, <3>1 DEF InitInsert, Contract!Create, Waiting
  <2> QED BY <2>2, <2>3
<1>3. ASSUME NEW t \in Threads, WaitCall(t)
      PROVE  UNCHANGED <<registered, value, Waiting>> \/ Contract!Enter(t)
  <2>1. CASE registered
    <3>1. t \notin Waiting /\ Waiting' = Waiting \cup {t}
      BY <1>0, <1>3, <2>1 DEF TypeOK, WaitCall, Enter, Goto, Waiting, At
    <3> QED BY <1>3, <2>1, <3>1 DEF WaitCall, Enter, Contract!Enter, Waiting
  <2>2. CASE ~registered
    BY <1>0, <1>3, <2>2 DEF TypeOK, WaitCall, Enter, Goto, Waiting, At
  <2> QED BY <2>1, <2>2
<1>4. ASSUME NEW t \in Threads, WaitTake(t) PROVE Contract!Take(t)
  <2>1. t \in Waiting /\ Waiting' = Waiting \ {t}
    BY <1>0, <1>4 DEF TypeOK, WaitTake, Goto, Waiting, At
  <2> QED BY <1>4, <2>1 DEF WaitTake, Contract!Take, Waiting
<1>5. ASSUME NEW t \in Threads, PostSection(t) PROVE Contract!Post
  <2>1. Waiting' = Waiting
    BY <1>0, <1>5 DEF TypeOK, PostSection, Waiting, At
  <2>2. registered
    BY <1>0, <1>5 DEF PostSection, BeforeNode
  <2>3. Increment = value + 1
    <3>1. t \in At("post_lock")
      BY <1>5 DEF PostSection, At
    <3>2. Cardinality(At("post_lock")) \in Nat \ {0}
      BY <3>1, AtFinite, FS_EmptySet
    <3>3. Cardinality(Threads) \in Nat
      BY SemAssumption, FS_CardinalityType
    <3>4. value + 1 <= MaxValue + Cardinality(Threads)
      BY <1>0, <3>2, <3>3, SemAssumption DEF PostsFit
    <3>5. value + 1 \in 0 .. ValueMod - 1
      BY <1>0, <3>3, <3>4, SemAssumption, RoomAssumption
    <3> QED BY <3>5, SemAssumption DEF Increment
  <2> QED BY <1>5, <2>1, <2>2, <2>3 DEF PostSection, Contract!Post, Waiting
<1>6. CASE UNCHANGED vars
  BY <1>6 DEF vars, Contract!vars, At
<1> QED
  BY <1>1, <1>2, <1>3, <1>4, <1>5, <1>6
  DEF Next, Step, Waiting, Contract!Next, Contract!vars

\* The bridge implements a counting semaphore: no permit is lost or invented by a
\* spurious wake-up, a second sem_init or a post beside others, as long as callers
\* do not post beyond SEM_VALUE_MAX, where sem_post of the bridge would wrap.
THEOREM SemRefinement == Spec => ImplementsSemaphore
<1>1. Init => Contract!Init
  BY DEF Init, Contract!Init, At
<1> QED
  BY <1>1, SemInvariant, SemStepSimulates, PTL DEF Spec, ImplementsSemaphore, Contract!Spec
=============================================================================
