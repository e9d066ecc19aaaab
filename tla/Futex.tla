-------------------------------- MODULE Futex --------------------------------
(***************************************************************************)
(* The futex system call of templates/runtime_compat.c on one word: a      *)
(* registry node with a host mutex and condition.  FUTEX_WAIT loads the    *)
(* word under the node's mutex, but the word is stored by its owners       *)
(* without it, so every load is a step of its own.                         *)
(***************************************************************************)
EXTENDS Naturals

CONSTANTS Threads, Words, Counts, NoThread

ASSUME FutexAssumption == /\ NoThread \notin Threads
                          /\ Words \subseteq Nat /\ Counts \subseteq Nat

VARIABLES word,      \* the 32-bit word the callers share
          node,      \* the address has a node in g_futexes
          mutex,     \* the holder of node->mutex
          pc,        \* where each thread is
          call,      \* the arguments of each thread's system call
          storers    \* threads that have stored and have yet to wake (history)

vars == <<word, node, mutex, pc, call, storers>>

PC == {"out", "wait_lock", "check", "recheck", "sleep", "sleeping", "relock",
       "spurious", "timed_out", "wake_get", "wake_lock"}

\* The operation, its value argument and whether it has a timeout.
Calls  == [op : {"none", "wait", "wake"}, value : Words \cup Counts \cup {0}, timeout : BOOLEAN]
NoCall == [op |-> "none", value |-> 0, timeout |-> FALSE]

At(l) == {t \in Threads : pc[t] = l}

Goto(t, from, to) == pc[t] = from /\ pc' = [pc EXCEPT ![t] = to]

\* The call of t returns.
Return(t) == pc' = [pc EXCEPT ![t] = "out"] /\ call' = [call EXCEPT ![t] = NoCall]

Init == /\ word \in Words /\ node = FALSE /\ mutex = NoThread
        /\ pc = [t \in Threads |-> "out"]
        /\ call = [t \in Threads |-> NoCall]
        /\ storers = {}

\* a2i_get_futex: the node, made if need be.
GetFutex == node' = TRUE

\* FUTEX_WAIT, with or without a timeout, up to the node.
WaitCall(t) == \E w \in Words, timed \in BOOLEAN :
  /\ Goto(t, "out", "wait_lock")
  /\ call' = [call EXCEPT ![t] = [op |-> "wait", value |-> w, timeout |-> timed]]
  /\ GetFutex
  /\ UNCHANGED <<word, mutex, storers>>

\* No node, and calloc fails: ENOMEM.
WakeNoMemory(t) == /\ ~node /\ pc[t] = "wake_get" /\ Return(t)
                   /\ storers' = storers \ {t}
                   /\ UNCHANGED <<word, node, mutex>>

Lock(t, from, to) == /\ mutex = NoThread /\ mutex' = t
                     /\ Goto(t, from, to)
                     /\ UNCHANGED <<word, node, call, storers>>

WaitLock(t) == Lock(t, "wait_lock", "check")

\* The load that decides on EAGAIN.
Check(t) ==
  \/ /\ word = call[t].value
     /\ Goto(t, "check", "recheck")
     /\ UNCHANGED <<word, node, mutex, call, storers>>
  \/ /\ word # call[t].value /\ pc[t] = "check"
     /\ mutex' = NoThread /\ Return(t)
     /\ UNCHANGED <<word, node, storers>>

\* The load of the loop: sleep while the word is as expected.
Recheck(t) ==
  \/ /\ word = call[t].value
     /\ Goto(t, "recheck", "sleep")
     /\ UNCHANGED <<word, node, mutex, call, storers>>
  \/ /\ word # call[t].value /\ pc[t] = "recheck"
     /\ mutex' = NoThread /\ Return(t)
     /\ UNCHANGED <<word, node, storers>>

\* pthread_cond_wait gives the mutex back and sleeps, in one step.
Sleep(t) == /\ Goto(t, "sleep", "sleeping")
            /\ mutex' = NoThread
            /\ UNCHANGED <<word, node, call, storers>>

\* It may also return without a signal, or at the deadline.
SpuriousWake(t) == /\ Goto(t, "sleeping", "spurious")
                   /\ UNCHANGED <<word, node, mutex, call, storers>>
Timeout(t) == /\ call[t].timeout
              /\ Goto(t, "sleeping", "timed_out")
              /\ UNCHANGED <<word, node, mutex, call, storers>>

Relock(t) == Lock(t, "relock", "recheck") \/ Lock(t, "spurious", "recheck")

\* With the mutex again, rc is ETIMEDOUT: break, unlock, return.
TimedOut(t) == /\ mutex = NoThread /\ pc[t] = "timed_out" /\ Return(t)
               /\ UNCHANGED <<word, node, mutex, storers>>
-----------------------------------------------------------------------------
\* An owner of the word stores a value and goes on to wake everybody
\* (external: the caller's side of a futex), or anybody calls FUTEX_WAKE.
WakeCall(t, n) == /\ Goto(t, "out", "wake_get")
                  /\ call' = [call EXCEPT ![t] = [op |-> "wake", value |-> n, timeout |-> FALSE]]
                  /\ UNCHANGED <<node, mutex>>
Store(t) == \E w \in Words, n \in Counts :
  n > 1 /\ word' = w /\ storers' = storers \cup {t} /\ WakeCall(t, n)
WakeOnly(t) == \E n \in Counts : WakeCall(t, n) /\ UNCHANGED <<word, storers>>

WakeGet(t) == /\ Goto(t, "wake_get", "wake_lock") /\ GetFutex
              /\ UNCHANGED <<word, mutex, call, storers>>

\* The chosen sleepers leave the condition and t returns.
Rouse(t, chosen) ==
  /\ pc' = [u \in Threads |-> IF u = t THEN "out"
                              ELSE IF u \in chosen THEN "relock" ELSE pc[u]]
  /\ call' = [call EXCEPT ![t] = NoCall] /\ storers' = storers \ {t}
  /\ UNCHANGED <<word, node, mutex>>

\* pthread_cond_signal rouses one sleeper if there is one (external).
CondSignal(t) == IF At("sleeping") = {} THEN Rouse(t, {})
                 ELSE \E s \in At("sleeping") : Rouse(t, {s})

\* Mutants of WakeSection: the node's mutex is not taken, and pthread_cond_signal
\* for any count.
WakeSectionUnlocked(t) ==
  /\ pc[t] = "wake_lock"
  /\ IF call[t].value <= 1 THEN CondSignal(t) ELSE Rouse(t, At("sleeping"))
WakeSectionSignals(t) == mutex = NoThread /\ pc[t] = "wake_lock" /\ CondSignal(t)

\* With the mutex: pthread_cond_signal for a count of at most one, else
\* pthread_cond_broadcast.  (The result is the count argument; Linux returns the
\* number of waiters woken.)
WakeSection(t) ==
  /\ mutex = NoThread /\ pc[t] = "wake_lock"
  /\ IF call[t].value <= 1 THEN CondSignal(t) ELSE Rouse(t, At("sleeping"))

Locking(t) == WaitLock(t) \/ Relock(t) \/ TimedOut(t) \/ WakeSection(t)
Running(t) == Check(t) \/ Recheck(t) \/ Sleep(t) \/ WakeGet(t)

Next == \E t \in Threads : \/ WaitCall(t) \/ Store(t) \/ WakeOnly(t) \/ WakeNoMemory(t)
                           \/ Locking(t) \/ Running(t) \/ SpuriousWake(t) \/ Timeout(t)

Spec == Init /\ [][Next]_vars

\* A thread that holds the mutex goes on, and one that waits for it is not
\* passed over for ever.  Nobody has to call, wake by chance or time out.
FairSpec == /\ Spec
            /\ \A t \in Threads : WF_vars(Running(t)) /\ SF_vars(Locking(t))
-----------------------------------------------------------------------------
\* The types of the shared state and of the calls.
TypeOK == /\ word \in Words /\ node \in BOOLEAN
          /\ mutex \in Threads \cup {NoThread}
          /\ pc \in [Threads -> PC] /\ call \in [Threads -> Calls]
          /\ storers \subseteq Threads

Holding == {"check", "recheck", "sleep"}

\* The node's mutex is held by the one thread that is between its lock and its
\* unlock or sleep.
MutexHeld == \A t \in Threads : pc[t] \in Holding <=> mutex = t

\* Every sleeper is in a wait, and there is a node for whoever waits.
Waiting == /\ \A t \in Threads :
                pc[t] \in {"wait_lock", "check", "recheck", "sleep", "sleeping",
                           "relock", "spurious", "timed_out"} => node /\ call[t].op = "wait"
           /\ \A t \in Threads :
                pc[t] \in {"wake_get", "wake_lock"} => call[t].op = "wake"

\* Whoever has stored is still to call FUTEX_WAKE for everybody.
WakesOwed == \A t \in storers : pc[t] \in {"wake_get", "wake_lock"} /\ call[t].value > 1

\* No lost wake-up: whoever sleeps, or has decided to, on a word that has
\* changed will be woken by the thread that changed it, however its store
\* falls between the loads of FUTEX_WAIT and the sleep.
NoLostWakeup ==
  \A t \in Threads : /\ pc[t] \in {"sleep", "sleeping"}
                     /\ word # call[t].value
                     => storers # {}

FutexInv == TypeOK /\ MutexHeld /\ Waiting /\ WakesOwed /\ NoLostWakeup

\* A thread that waits on a word that has changed returns, unless the word is
\* changed back.
ChangedWordReleases ==
  \A t \in Threads :
    (call[t].op = "wait" /\ word # call[t].value)
      ~> (pc[t] = "out" \/ word = call[t].value)
=============================================================================
