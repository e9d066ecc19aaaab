---------------------------- MODULE PthreadOnce ----------------------------
(***************************************************************************)
(* a2i_pthread_once of templates/pthread_compat.c: the Android once word   *)
(* is used directly as an atomic state, 0 (fresh), 1 (the initialiser is   *)
(* running) and 2 (it has returned).  Every atomic access is one step, so  *)
(* that another thread may run between the load and the compare-exchange.  *)
(***************************************************************************)
EXTENDS Naturals

CONSTANT Callers          \* the threads that call pthread_once

VARIABLES once,           \* the int32_t the caller's pthread_once_t holds
          oncePc,         \* where each thread is in a2i_pthread_once
          initRuns        \* how often init_routine has been entered (history)

onceVars == <<once, oncePc, initRuns>>

OncePC == {"out", "load", "exchange", "yield", "init", "publish"}

Goto(t, from, to) == oncePc[t] = from /\ oncePc' = [oncePc EXCEPT ![t] = to]

OnceInit == /\ once = 0
            /\ oncePc = [t \in Callers |-> "out"]
            /\ initRuns = 0

Call(t) == Goto(t, "out", "load") /\ UNCHANGED <<once, initRuns>>

\* Mutant of Load: any started initialiser counts as a finished one.
LoadTrustsStarted(t) ==
  /\ Goto(t, "load", IF once # 0 THEN "out" ELSE "exchange")
  /\ UNCHANGED <<once, initRuns>>

\* atomic_load_explicit and the two tests on the value it returned.
Load(t) ==
  /\ Goto(t, "load", IF once = 2 THEN "out"
                     ELSE IF once = 0 THEN "exchange" ELSE "yield")
  /\ UNCHANGED <<once, initRuns>>

\* Mutant of Exchange: a plain store instead of the compare-exchange.
ExchangeBlind(t) == /\ Goto(t, "exchange", "init")
                    /\ once' = 1
                    /\ initRuns' = initRuns + 1

\* atomic_compare_exchange_strong: the winner enters init_routine.
Exchange(t) ==
  \/ /\ once = 0
     /\ Goto(t, "exchange", "init")
     /\ once' = 1
     /\ initRuns' = initRuns + 1
  \/ /\ once # 0
     /\ Goto(t, "exchange", "yield")
     /\ UNCHANGED <<once, initRuns>>

\* sched_yield(), and round the loop again.
Yield(t) == Goto(t, "yield", "load") /\ UNCHANGED <<once, initRuns>>

\* init_routine() returns.
InitReturns(t) == Goto(t, "init", "publish") /\ UNCHANGED <<once, initRuns>>

\* Mutant of Publish: the winner returns without the store.
PublishForgotten(t) == Goto(t, "publish", "out") /\ UNCHANGED <<once, initRuns>>

\* The release store of 2, and the winner's return.
Publish(t) == Goto(t, "publish", "out") /\ once' = 2 /\ UNCHANGED initRuns

Step(t) == Load(t) \/ Exchange(t) \/ Yield(t) \/ InitReturns(t) \/ Publish(t)

OnceNext == \E t \in Callers : Call(t) \/ Step(t)

OnceSpec == OnceInit /\ [][OnceNext]_onceVars

\* A thread that is inside the call is scheduled again (sched_yield gives the
\* processor away, not up), and init_routine returns.  No thread has to call.
FairSpec == OnceSpec /\ \A t \in Callers : WF_onceVars(Step(t))
-----------------------------------------------------------------------------
\* The types of the once word and of the program counters.
OnceTypeOK == /\ once \in 0..2
              /\ oncePc \in [Callers -> OncePC]
              /\ initRuns \in Nat

Inside == {t \in Callers : oncePc[t] # "out"}

\* The phase the callers are promised: the run of init_routine has ended when
\* its thread is about to publish, and stays ended once the word is 2.
Phase == IF initRuns = 0 THEN "fresh"
         ELSE IF once = 2 \/ (\E t \in Callers : oncePc[t] = "publish")
              THEN "finished" ELSE "running"

Contract == INSTANCE OnceContract WITH Threads <- Callers, phase <- Phase, inside <- Inside

\* a2i_pthread_once implements what pthread_once promises: one run of the
\* initialiser, and no return of any caller before that run is published.
ImplementsOnce == Contract!Spec

\* The initialiser is entered at most once, however the loads and the
\* compare-exchanges of the callers interleave, and never after it is done.
InitRunsOnce == /\ initRuns <= 1
                /\ \A t, u \in Callers : /\ oncePc[t] \in {"init", "publish"}
                                         /\ oncePc[u] \in {"init", "publish"}
                                         => t = u

\* Every caller comes back: the losers of the exchange spin only until the
\* winner publishes.
EveryCallerReturns == \A t \in Callers : oncePc[t] # "out" ~> oncePc[t] = "out"

\* The strengthening of InitRunsOnce that is inductive: the word says which
\* of the three phases the one run of the initialiser is in.
OnceInv == /\ OnceTypeOK
           /\ InitRunsOnce
           /\ once = 0 <=> initRuns = 0
           /\ once = 1 <=> \E t \in Callers : oncePc[t] \in {"init", "publish"}
=============================================================================
