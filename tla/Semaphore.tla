----------------------------- MODULE Semaphore -----------------------------
(***************************************************************************)
(* a2i_sem_init, a2i_sem_wait, a2i_sem_post and a2i_sem_getvalue of        *)
(* templates/posix_compat.c on one Android sem_t: a host mutex, condition  *)
(* and value behind a registry node, and the value mirrored in the first   *)
(* word of the Android object.                                             *)
(*                                                                         *)
(* What runs under node->mutex, or under g_sem_lock, is one step.          *)
(***************************************************************************)
EXTENDS Integers, FiniteSets

CONSTANTS Threads,
          Values,       \* the values sem_init is called with
          ValueMod,     \* the number of values of an unsigned (2^32)
          MaxValue      \* bound: callers do not post beyond it (SEM_VALUE_MAX)

ASSUME SemAssumption == /\ IsFiniteSet(Threads)
                        /\ ValueMod \in Nat /\ MaxValue \in Nat
                        /\ MaxValue < ValueMod
                        /\ Values \subseteq 0 .. MaxValue

\* An unsigned has room for a post by every thread beyond MaxValue.
ASSUME RoomAssumption == MaxValue + Cardinality(Threads) < ValueMod

VARIABLES registered,   \* the address has a node in g_sems
          value,        \* node->value
          count,        \* sem->count, in the Android object
          pc,           \* where each thread is
          arg           \* the value of the thread's sem_init while it runs

vars == <<registered, value, count, pc, arg>>

PC == {"out", "init_insert", "init_publish", "wait_lock", "sleeping",
       "post_lock", "get_lock"}

At(l) == {t \in Threads : pc[t] = l}

Goto(t, from, to) == pc[t] = from /\ pc' = [pc EXCEPT ![t] = to]

Init == /\ registered = FALSE /\ value = 0 /\ count = 0
        /\ pc  = [t \in Threads |-> "out"]
        /\ arg = [t \in Threads |-> 0]

\* The caller's side of the contract: a semaphore is used by others only when
\* no sem_init of it is still on its way to publishing the count.
Usable == At("init_publish") = {}

\* sem_init up to the allocated node.
InitCall(t) == \E v \in Values :
  /\ Goto(t, "out", "init_insert")
  /\ arg' = [arg EXCEPT ![t] = v]
  /\ UNCHANGED <<registered, value, count>>

\* Mutant of InitInsert: a second sem_init is not refused.
InitInsertAgain(t) ==
  /\ Goto(t, "init_insert", "init_publish")
  /\ registered' = TRUE /\ value' = arg[t] /\ UNCHANGED <<count, arg>>

\* Under g_sem_lock: EBUSY when the address has a node, else it gets one.
InitInsert(t) ==
  \/ /\ registered /\ Goto(t, "init_insert", "out")
     /\ arg' = [arg EXCEPT ![t] = 0]
     /\ UNCHANGED <<registered, value, count>>
  \/ /\ ~registered /\ Goto(t, "init_insert", "init_publish")
     /\ registered' = TRUE /\ value' = arg[t]
     /\ UNCHANGED <<count, arg>>

\* memset and the first count, outside every lock.
InitPublish(t) == /\ Goto(t, "init_publish", "out")
                  /\ count' = arg[t]
                  /\ arg' = [arg EXCEPT ![t] = 0]
                  /\ UNCHANGED <<registered, value>>

\* a2i_get_sem: EINVAL when there is no node.
Enter(t, to) == /\ Usable
                /\ Goto(t, "out", IF registered THEN to ELSE "out")
                /\ UNCHANGED <<registered, value, count, arg>>

WaitCall(t) == Enter(t, "wait_lock")
PostCall(t) == value < MaxValue /\ Enter(t, "post_lock")
GetCall(t)  == Enter(t, "get_lock")

\* Mutant of WaitSleep: the loop's test is dropped after the wake-up.
WaitSleepAlways(t) == /\ Goto(t, "wait_lock", "sleeping")
                      /\ UNCHANGED <<registered, value, count, arg>>

\* With the mutex: no permit, so pthread_cond_wait releases it and sleeps ...
WaitSleep(t) == /\ value = 0
                /\ Goto(t, "wait_lock", "sleeping")
                /\ UNCHANGED <<registered, value, count, arg>>

\* Mutant of WaitTake: the mirror is not updated.
WaitTakeUnmirrored(t) == /\ value > 0
                         /\ Goto(t, "wait_lock", "out")
                         /\ value' = value - 1
                         /\ UNCHANGED <<registered, count, arg>>

\* ... or a permit is taken.
WaitTake(t) == /\ value > 0
               /\ Goto(t, "wait_lock", "out")
               /\ value' = value - 1 /\ count' = value - 1
               /\ UNCHANGED <<registered, arg>>

\* pthread_cond_wait may return without a signal.
SpuriousWake(t) == /\ Goto(t, "sleeping", "wait_lock")
                   /\ UNCHANGED <<registered, value, count, arg>>

Increment == (value + 1) % ValueMod

\* Mutant of PostSection: the signal is sent only when the value was zero.
PostSectionFirstOnly(t) ==
  /\ pc[t] = "post_lock"
  /\ value' = Increment /\ count' = Increment
  /\ \/ /\ At("sleeping") # {} /\ value = 0
        /\ \E s \in At("sleeping") :
             pc' = [pc EXCEPT ![t] = "out", ![s] = "wait_lock"]
     \/ /\ At("sleeping") = {} \/ value # 0
        /\ pc' = [pc EXCEPT ![t] = "out"]
  /\ UNCHANGED <<registered, arg>>

\* With the mutex: one more permit, and pthread_cond_signal wakes a sleeper
\* if there is one.
PostSection(t) ==
  /\ pc[t] = "post_lock"
  /\ value' = Increment /\ count' = Increment
  /\ \/ /\ At("sleeping") # {}
        /\ \E s \in At("sleeping") :
             pc' = [pc EXCEPT ![t] = "out", ![s] = "wait_lock"]
     \/ /\ At("sleeping") = {}
        /\ pc' = [pc EXCEPT ![t] = "out"]
  /\ UNCHANGED <<registered, arg>>

\* sem_getvalue reads the value with the mutex.
GetSection(t) == /\ Goto(t, "get_lock", "out")
                 /\ UNCHANGED <<registered, value, count, arg>>

\* What a thread does once it is inside a call and awake.
Step(t) == \/ InitInsert(t) \/ InitPublish(t) \/ WaitSleep(t) \/ WaitTake(t)
           \/ PostSection(t) \/ GetSection(t)

Next == \E t \in Threads : \/ InitCall(t) \/ WaitCall(t) \/ PostCall(t) \/ GetCall(t)
                           \/ Step(t) \/ SpuriousWake(t)

Spec == Init /\ [][Next]_vars

\* A thread that has called and is awake goes on; the mutex is held only for
\* a few instructions.  No thread has to call, and no sleeper has to be woken.
FairSpec == Spec /\ \A t \in Threads : WF_vars(Step(t))
-----------------------------------------------------------------------------
\* The types of the node's value, its mirror and the program counters.
TypeOK == /\ registered \in BOOLEAN
          /\ value \in 0 .. ValueMod - 1 /\ count \in 0 .. ValueMod - 1
          /\ pc \in [Threads -> PC]
          /\ arg \in [Threads -> Values \cup {0}]
          /\ \A t \in At("init_insert") : arg[t] \in Values

\* No lost wake-up: while anybody sleeps, every permit has a waiter that is
\* awake and on its way to it.  (One awake waiter for several permits would
\* not do: it takes one of them, and the rest lie beside the sleepers.)
NoLostWakeup == At("sleeping") # {} => value <= Cardinality(At("wait_lock"))

\* The first word of the Android object is the value, once sem_init returned.
CountMirrorsValue == registered /\ Usable => count = value

\* A permit never lies beside a waiter for ever: it is taken, whoever by.
PermitsAreTaken ==
  (value > 0 /\ At("sleeping") # {}) ~> (value = 0 \/ At("sleeping") = {})

Contract == INSTANCE SemaphoreContract
              WITH created <- registered, permits <- value,
                   waiting <- At("wait_lock") \cup At("sleeping")

\* The four functions implement a counting semaphore: a second sem_init is
\* refused and changes nothing, spurious wake-ups give nobody a permit, and a
\* wait returns only with one.
ImplementsSemaphore == Contract!Spec

\* Before there is a node nobody is in a call that needs one.
BeforeNode == ~registered => \A t \in Threads : pc[t] \in {"out", "init_insert"}

\* While a sem_init is about to publish the count, it has the node to itself.
PublishAlone == \A t \in At("init_publish") :
                  /\ registered /\ value = arg[t]
                  /\ \A u \in Threads \ {t} : pc[u] \in {"out", "init_insert"}

\* The value and the posts under way: none of them wraps around.
PostsFit == value + Cardinality(At("post_lock")) <= MaxValue + Cardinality(Threads)

\* What NoLostWakeup, CountMirrorsValue and the refinement need to be inductive.
SemInv == TypeOK /\ BeforeNode /\ NoLostWakeup /\ PublishAlone /\ PostsFit
=============================================================================
