----------------------------- MODULE WaitProofs -----------------------------
(***************************************************************************)
(* The waits of the runtime.  FutexInv is an invariant of the futex        *)
(* emulation for any set of threads, words and counts: no store to the     *)
(* word falls between the loads of a FUTEX_WAIT and its sleep without a    *)
(* wake-up that is still to come.  And the conversions of timed waits      *)
(* never end a wait early, and what wakes a futex's waiter in vain does    *)
(* not put the end off: for any length of a second, any deadlines and any  *)
(* way the realtime clock is set.                                          *)
(***************************************************************************)
EXTENDS Futex, Deadline, TLAPS

\* A thread takes the node's mutex.
LEMMA LockStep ==
  ASSUME FutexInv, NEW t \in Threads, NEW from, NEW to,
         from \in {"wait_lock", "relock", "spurious"}, to \in {"check", "recheck"},
         Lock(t, from, to)
  PROVE  FutexInv'
<1> USE FutexAssumption DEF FutexInv, Lock, Goto
<1>1. TypeOK' BY DEF TypeOK, PC
<1>2. MutexHeld' BY DEF MutexHeld, Holding, TypeOK
<1>3. Waiting' BY DEF Waiting, TypeOK
<1>4. WakesOwed' BY DEF WakesOwed, TypeOK
<1>5. NoLostWakeup' BY DEF NoLostWakeup, TypeOK
<1> QED BY <1>1, <1>2, <1>3, <1>4, <1>5

\* Every step of a waiter.
LEMMA WaiterStep ==
  ASSUME FutexInv, NEW t \in Threads,
         \/ WaitCall(t) \/ WaitLock(t) \/ Check(t) \/ Recheck(t) \/ Sleep(t)
         \/ SpuriousWake(t) \/ Timeout(t) \/ Relock(t) \/ TimedOut(t)
  PROVE  FutexInv'
<1> USE FutexAssumption
<1>1. CASE WaitCall(t)
  <2>1. PICK w \in Words, timed \in BOOLEAN :
          call' = [call EXCEPT ![t] = [op |-> "wait", value |-> w, timeout |-> timed]]
    BY <1>1 DEF WaitCall
  <2>2. /\ pc[t] = "out" /\ pc' = [pc EXCEPT ![t] = "wait_lock"]
        /\ node' = TRUE /\ UNCHANGED <<word, mutex, storers>>
    BY <1>1 DEF WaitCall, Goto, GetFutex
  <2>3. TypeOK' BY <2>1, <2>2 DEF FutexInv, TypeOK, PC, Calls
  <2>4. MutexHeld' BY <2>2 DEF FutexInv, TypeOK, MutexHeld, Holding
  <2>5. Waiting' BY <2>1, <2>2 DEF FutexInv, TypeOK, Waiting
  <2>6. WakesOwed' BY <2>1, <2>2 DEF FutexInv, TypeOK, WakesOwed
  <2>7. NoLostWakeup' BY <2>1, <2>2 DEF FutexInv, TypeOK, NoLostWakeup
  <2> QED BY <2>3, <2>4, <2>5, <2>6, <2>7 DEF FutexInv
<1>2. CASE WaitLock(t) BY <1>2, LockStep DEF WaitLock
<1>3. CASE Relock(t) BY <1>3, LockStep DEF Relock
<1>4. CASE Check(t) \/ Recheck(t)
  <2>1. CASE /\ word = call[t].value /\ UNCHANGED <<word, node, mutex, call, storers>>
             /\ \/ pc[t] = "check" /\ pc' = [pc EXCEPT ![t] = "recheck"]
                \/ pc[t] = "recheck" /\ pc' = [pc EXCEPT ![t] = "sleep"]
    <3>1. TypeOK' BY <2>1 DEF FutexInv, TypeOK, PC
    <3>2. MutexHeld' BY <2>1 DEF FutexInv, TypeOK, MutexHeld, Holding
    <3>3. Waiting' BY <2>1 DEF FutexInv, TypeOK, Waiting
    <3>4. WakesOwed' BY <2>1 DEF FutexInv, TypeOK, WakesOwed
    <3>5. NoLostWakeup' BY <2>1 DEF FutexInv, TypeOK, NoLostWakeup
    <3> QED BY <3>1, <3>2, <3>3, <3>4, <3>5 DEF FutexInv
  <2>2. CASE /\ word # call[t].value /\ pc[t] \in {"check", "recheck"} /\ mutex' = NoThread
             /\ Return(t) /\ UNCHANGED <<word, node, storers>>
    <3> USE DEF Return
    <3>1. TypeOK' BY <2>2 DEF FutexInv, TypeOK, PC, Calls, NoCall
    <3>2. MutexHeld' BY <2>2 DEF FutexInv, TypeOK, MutexHeld, Holding
    <3>3. Waiting' BY <2>2 DEF FutexInv, TypeOK, Waiting
    <3>4. WakesOwed' BY <2>2 DEF FutexInv, TypeOK, WakesOwed
    <3>5. NoLostWakeup' BY <2>2 DEF FutexInv, TypeOK, NoLostWakeup
    <3> QED BY <3>1, <3>2, <3>3, <3>4, <3>5 DEF FutexInv
  <2> QED BY <1>4, <2>1, <2>2 DEF Check, Recheck, Goto
<1>5. CASE Sleep(t)
  <2> USE DEF Sleep, Goto
  <2>1. TypeOK' BY <1>5 DEF FutexInv, TypeOK, PC
  <2>2. MutexHeld' BY <1>5 DEF FutexInv, TypeOK, MutexHeld, Holding
  <2>3. Waiting' BY <1>5 DEF FutexInv, TypeOK, Waiting
  <2>4. WakesOwed' BY <1>5 DEF FutexInv, TypeOK, WakesOwed
  <2>5. NoLostWakeup' BY <1>5 DEF FutexInv, TypeOK, NoLostWakeup
  <2> QED BY <2>1, <2>2, <2>3, <2>4, <2>5 DEF FutexInv
<1>6. CASE SpuriousWake(t) \/ Timeout(t)
  <2> USE DEF SpuriousWake, Timeout, Goto
  <2>1. TypeOK' BY <1>6 DEF FutexInv, TypeOK, PC
  <2>2. MutexHeld' BY <1>6 DEF FutexInv, TypeOK, MutexHeld, Holding
  <2>3. Waiting' BY <1>6 DEF FutexInv, TypeOK, Waiting
  <2>4. WakesOwed' BY <1>6 DEF FutexInv, TypeOK, WakesOwed
  <2>5. NoLostWakeup' BY <1>6 DEF FutexInv, TypeOK, NoLostWakeup
  <2> QED BY <2>1, <2>2, <2>3, <2>4, <2>5 DEF FutexInv
<1>7. CASE TimedOut(t)
  <2> USE DEF TimedOut, Return
  <2>1. TypeOK' BY <1>7 DEF FutexInv, TypeOK, PC, Calls, NoCall
  <2>2. MutexHeld' BY <1>7 DEF FutexInv, TypeOK, MutexHeld, Holding
  <2>3. Waiting' BY <1>7 DEF FutexInv, TypeOK, Waiting
  <2>4. WakesOwed' BY <1>7 DEF FutexInv, TypeOK, WakesOwed
  <2>5. NoLostWakeup' BY <1>7 DEF FutexInv, TypeOK, NoLostWakeup
  <2> QED BY <2>1, <2>2, <2>3, <2>4, <2>5 DEF FutexInv
<1> QED BY <1>1, <1>2, <1>3, <1>4, <1>5, <1>6, <1>7

\* A call of FUTEX_WAKE, after a store or alone.  A store leaves its thread among
\* the storers, which is what whoever sleeps on the changed word waits for.
LEMMA WakeCallStep ==
  ASSUME FutexInv, NEW t \in Threads, Store(t) \/ WakeOnly(t)
  PROVE  FutexInv'
<1> USE FutexAssumption
<1>1. PICK n \in Counts, w \in Words :
        /\ call' = [call EXCEPT ![t] = [op |-> "wake", value |-> n, timeout |-> FALSE]]
        /\ \/ n > 1 /\ word' = w /\ storers' = storers \cup {t}
           \/ word' = word /\ storers' = storers
  BY DEF Store, WakeOnly, WakeCall, FutexInv, TypeOK
<1>2. /\ pc[t] = "out" /\ pc' = [pc EXCEPT ![t] = "wake_get"]
      /\ UNCHANGED <<node, mutex>>
  BY DEF Store, WakeOnly, WakeCall, Goto
<1>3. TypeOK' BY <1>1, <1>2 DEF FutexInv, TypeOK, PC, Calls
<1>4. MutexHeld' BY <1>2 DEF FutexInv, TypeOK, MutexHeld, Holding
<1>5. Waiting' BY <1>1, <1>2 DEF FutexInv, TypeOK, Waiting
<1>6. WakesOwed' BY <1>1, <1>2 DEF FutexInv, TypeOK, WakesOwed
<1>7. NoLostWakeup' BY <1>1, <1>2 DEF FutexInv, TypeOK, NoLostWakeup
<1> QED BY <1>3, <1>4, <1>5, <1>6, <1>7 DEF FutexInv

\* FUTEX_WAKE up to its mutex, or to its failure.  A call that fails for want of
\* a node has nobody to wake.
LEMMA WakeBeginStep ==
  ASSUME FutexInv, NEW t \in Threads, WakeGet(t) \/ WakeNoMemory(t)
  PROVE  FutexInv'
<1> USE FutexAssumption
<1>1. CASE WakeGet(t)
  <2> USE DEF WakeGet, Goto, GetFutex
  <2>1. TypeOK' BY <1>1 DEF FutexInv, TypeOK, PC
  <2>2. MutexHeld' BY <1>1 DEF FutexInv, TypeOK, MutexHeld, Holding
  <2>3. Waiting' BY <1>1 DEF FutexInv, TypeOK, Waiting
  <2>4. WakesOwed' BY <1>1 DEF FutexInv, TypeOK, WakesOwed
  <2>5. NoLostWakeup' BY <1>1 DEF FutexInv, TypeOK, NoLostWakeup
  <2> QED BY <2>1, <2>2, <2>3, <2>4, <2>5 DEF FutexInv
<1>2. CASE WakeNoMemory(t)
  <2> USE DEF WakeNoMemory, Return
  <2>1. TypeOK' BY <1>2 DEF FutexInv, TypeOK, PC, Calls, NoCall
  <2>2. MutexHeld' BY <1>2 DEF FutexInv, TypeOK, MutexHeld, Holding
  <2>3. Waiting' BY <1>2 DEF FutexInv, TypeOK, Waiting
  <2>4. WakesOwed' BY <1>2 DEF FutexInv, TypeOK, WakesOwed
  <2>5. NoLostWakeup' BY <1>2 DEF FutexInv, TypeOK, NoLostWakeup, Waiting
  <2> QED BY <2>1, <2>2, <2>3, <2>4, <2>5 DEF FutexInv
<1> QED BY <1>1, <1>2

\* The section of FUTEX_WAKE.  Its mutex is free, so nobody is between a load and
\* the sleep; a storer's wake is for everybody, so afterwards nobody sleeps.
LEMMA WakeSectionStep ==
  ASSUME FutexInv, NEW t \in Threads, WakeSection(t)
  PROVE  FutexInv'
<1> USE FutexAssumption
<1>1. PICK chosen \in SUBSET At("sleeping") : Rouse(t, chosen) /\ (t \in storers => chosen = At("sleeping"))
  <2>1. CASE call[t].value <= 1
    <3>1. call[t].value \in Nat
      <4>1. call[t].value \in Words \cup Counts \cup {0} BY DEF FutexInv, TypeOK, Calls
      <4>2. \A x \in Words \cup Counts \cup {0} : x \in Nat BY FutexAssumption
      <4> QED BY <4>1, <4>2, Zenon
    <3>2. t \in storers => call[t].value > 1 BY DEF FutexInv, WakesOwed
    <3>3. t \notin storers BY <2>1, <3>1, <3>2
    <3> QED BY <2>1, <3>3 DEF WakeSection, CondSignal
  <2>2. CASE ~(call[t].value <= 1) BY <2>2 DEF WakeSection
  <2> QED BY <2>1, <2>2
<1>2. mutex = NoThread /\ pc[t] = "wake_lock" BY DEF WakeSection
<1>3. \A u \in Threads :
        pc'[u] = IF u = t THEN "out" ELSE IF u \in chosen THEN "relock" ELSE pc[u]
  BY <1>1 DEF Rouse
<1>4. /\ call' = [call EXCEPT ![t] = NoCall] /\ storers' = storers \ {t}
      /\ UNCHANGED <<word, node, mutex>>
  BY <1>1 DEF Rouse
<1>5. \A u \in chosen : u \in Threads /\ pc[u] = "sleeping" BY <1>1 DEF At
<1>6. TypeOK'
  <2>1. pc' \in [Threads -> PC] BY <1>1, <1>5 DEF Rouse, FutexInv, TypeOK, PC
  <2> QED BY <2>1, <1>4 DEF FutexInv, TypeOK, Calls, NoCall
<1>7. MutexHeld' BY <1>2, <1>3, <1>4, <1>5 DEF FutexInv, TypeOK, MutexHeld, Holding
<1>8. Waiting'
  <2>1. \A u \in Threads : u # t => call'[u] = call[u] BY <1>4 DEF FutexInv, TypeOK
  <2> QED BY <2>1, <1>2, <1>3, <1>4, <1>5 DEF FutexInv, TypeOK, Waiting
<1>9. WakesOwed'
  <2>1. \A u \in Threads : u # t => call'[u] = call[u] BY <1>4 DEF FutexInv, TypeOK
  <2> QED BY <2>1, <1>2, <1>3, <1>4, <1>5 DEF FutexInv, TypeOK, WakesOwed
<1>10. NoLostWakeup'
  <2>1. \A u \in Threads : pc[u] # "sleep" BY <1>2 DEF FutexInv, MutexHeld, Holding
  <2>2. \A u \in Threads : u # t => call'[u] = call[u] BY <1>4 DEF FutexInv, TypeOK
  <2>3. CASE t \in storers
    <3>1. \A u \in Threads : pc'[u] \notin {"sleep", "sleeping"}
      BY <2>1, <2>3, <1>1, <1>3 DEF At
    <3> QED BY <3>1 DEF NoLostWakeup
  <2>4. CASE t \notin storers
    BY <2>1, <2>2, <2>4, <1>3, <1>4 DEF FutexInv, TypeOK, NoLostWakeup
  <2> QED BY <2>3, <2>4
<1> QED BY <1>6, <1>7, <1>8, <1>9, <1>10 DEF FutexInv

\* However waits, stores and wakes on a word interleave, the node's mutex
\* excludes, and whoever sleeps on a changed word has a wake-up still to come.
THEOREM FutexInvariant == Spec => []FutexInv
<1>1. Init => FutexInv
  <2> SUFFICES ASSUME Init PROVE FutexInv
    OBVIOUS
  <2>1. TypeOK BY DEF Init, TypeOK, PC, Calls, NoCall
  <2>2. \A t \in Threads : pc[t] = "out" BY DEF Init
  <2>3. MutexHeld BY <2>2, FutexAssumption DEF Init, MutexHeld, Holding
  <2>4. Waiting BY <2>2 DEF Waiting
  <2>5. WakesOwed /\ NoLostWakeup BY <2>2 DEF Init, WakesOwed, NoLostWakeup
  <2> QED BY <2>1, <2>3, <2>4, <2>5 DEF FutexInv
<1>2. FutexInv /\ [Next]_vars => FutexInv'
  <2>1. CASE UNCHANGED vars
    BY <2>1 DEF vars, FutexInv, TypeOK, MutexHeld, Waiting, WakesOwed, NoLostWakeup
  <2>2. CASE Next
    BY <2>2, WaiterStep, WakeCallStep, WakeBeginStep, WakeSectionStep
    DEF Next, Locking, Running
  <2> QED BY <2>1, <2>2
<1> QED BY <1>1, <1>2, PTL DEF Spec
-----------------------------------------------------------------------------
Timespecs == [sec : Int, tick : 0 .. Second - 1]

\* The clocks and the timespecs a waiter holds: all of them proper ones.
ClocksTyped ==
  /\ now \in Nat /\ offset \in Nat /\ sets \in Nat /\ called \in Nat /\ assumed \in Nat
  /\ stage \in {"out", "mono", "real", "loop", "wait"}
  /\ kind \in {"none", "monotonic", "realtime", "futex"}
  /\ timeout \in Timespecs /\ mono_now \in Timespecs /\ deadline \in Timespecs

\* A clock value that was read is in the past, and not from before the call; what
\* has been converted is due, on the clock as the conversion has seen it, no
\* earlier than what was asked for, and no later than the delay accounts for.
Converted ==
  /\ called <= now
  /\ stage \in {"mono", "real"} => now <= called + MaxDelay
  /\ stage = "mono" => kind = "monotonic"
  /\ stage = "real" => \/ kind = "monotonic" /\ called <= Ticks(mono_now) /\ Ticks(mono_now) <= now
                       \/ kind = "futex"
  /\ stage = "loop" => kind = "futex"
  /\ stage \in {"loop", "wait"} =>
       \/ kind = "realtime" /\ Ticks(deadline) >= Due
       \/ /\ kind \in {"monotonic", "futex"}
          /\ Ticks(deadline) - assumed >= Due /\ Ticks(deadline) - assumed <= Due + MaxDelay

\* The inductive invariant of a timed wait.
DeadlineInv == ClocksTyped /\ Converted /\ result # "EINVAL"
-----------------------------------------------------------------------------
\* Integer division as the definition of % and \div gives it.
LEMMA Division ==
  ASSUME NEW t \in Int
  PROVE  /\ t \div Second \in Int /\ t % Second \in 0 .. Second - 1
         /\ t = (t \div Second) * Second + (t % Second)
BY DeadlineAssumption

\* A number of ticks is a timespec, and back.
LEMMA TimespecTicks ==
  ASSUME NEW t \in Int
  PROVE  Timespec(t) \in Timespecs /\ Ticks(Timespec(t)) = t
BY Division, DeadlineAssumption DEF Timespec, Timespecs, Ticks

\* The ticks of a timespec are a number.
LEMMA TicksNumber ==
  ASSUME NEW ts \in Timespecs
  PROVE  Ticks(ts) \in Int
BY DeadlineAssumption DEF Timespecs, Ticks

\* The seconds are multiplied out.
LEMMA Distributes ==
  ASSUME NEW a \in Int, NEW b \in Int
  PROVE  /\ (a + b) * Second = a * Second + b * Second
         /\ (a - b) * Second = a * Second - b * Second
         /\ a * Second \in Int
BY DeadlineAssumption

\* One carry is enough: what is added to a timespec leaves a proper one.
LEMMA AddToTicks ==
  ASSUME NEW ts \in Timespecs, NEW sec \in Int, NEW tick \in 0 .. Second - 1
  PROVE  /\ AddTo(ts, sec, tick) \in Timespecs
         /\ Ticks(AddTo(ts, sec, tick)) = Ticks(ts) + sec * Second + tick
<1>0. /\ Second \in Nat \ {0} /\ ts.sec \in Int /\ ts.tick \in 0 .. Second - 1
      /\ tick \in Int /\ ts.tick \in Int
  BY DeadlineAssumption DEF Timespecs
<1>1. AddTo(ts, sec, tick) \in Timespecs
  BY <1>0 DEF AddTo, Timespecs
<1>2. /\ (ts.sec + sec) * Second = ts.sec * Second + sec * Second
      /\ (ts.sec + sec + 1) * Second = (ts.sec + sec) * Second + Second
      /\ ts.sec * Second \in Int /\ sec * Second \in Int
  BY <1>0, Distributes
<1>3. CASE ts.tick + tick >= Second
  <2>1. /\ AddTo(ts, sec, tick).sec = ts.sec + sec + 1
        /\ AddTo(ts, sec, tick).tick = ts.tick + tick - Second
    BY <1>3 DEF AddTo
  <2> QED BY <1>0, <1>1, <1>2, <2>1 DEF Ticks
<1>4. CASE ~(ts.tick + tick >= Second)
  <2>1. /\ AddTo(ts, sec, tick).sec = ts.sec + sec
        /\ AddTo(ts, sec, tick).tick = ts.tick + tick
    BY <1>4 DEF AddTo
  <2> QED BY <1>0, <1>1, <1>2, <2>1 DEF Ticks
<1> QED BY <1>3, <1>4

\* a2i_monotonic_to_realtime gives the deadline at the distance from now that the
\* one asked for had when the monotonic clock was read, with one borrow and one
\* carry at most.
LEMMA ConversionTicks ==
  ASSUME ClocksTyped, NEW real_now \in Timespecs
  PROVE  /\ MonotonicToRealtime(real_now) \in Timespecs
         /\ Ticks(MonotonicToRealtime(real_now))
              = Ticks(real_now) + (Ticks(timeout) - Ticks(mono_now))
<1> DEFINE sec  == timeout.sec - mono_now.sec
           tick == timeout.tick - mono_now.tick
<1>0. /\ Second \in Nat \ {0} /\ timeout.sec \in Int /\ mono_now.sec \in Int
      /\ timeout.tick \in 0 .. Second - 1 /\ mono_now.tick \in 0 .. Second - 1
      /\ Ticks(real_now) \in Int
  BY DeadlineAssumption, TicksNumber DEF ClocksTyped, Timespecs
<1>1. /\ sec \in Int /\ tick \in Int /\ tick < Second /\ tick > 0 - Second
      /\ sec * Second = timeout.sec * Second - mono_now.sec * Second
      /\ (sec - 1) * Second = sec * Second - Second
      /\ timeout.sec * Second \in Int /\ mono_now.sec * Second \in Int
  BY <1>0, Distributes
<1>2. Ticks(timeout) - Ticks(mono_now) = sec * Second + tick
  BY <1>0, <1>1 DEF Ticks
<1>3. CASE tick < 0
  <2>1. MonotonicToRealtime(real_now) = AddTo(real_now, sec - 1, tick + Second)
    BY <1>3 DEF MonotonicToRealtime
  <2>2. sec - 1 \in Int /\ tick + Second \in 0 .. Second - 1
    BY <1>0, <1>1, <1>3
  <2>3. /\ MonotonicToRealtime(real_now) \in Timespecs
        /\ Ticks(MonotonicToRealtime(real_now))
             = Ticks(real_now) + (sec - 1) * Second + (tick + Second)
    BY <2>1, <2>2, AddToTicks
  <2> HIDE DEF sec, tick
  <2> QED BY <1>0, <1>1, <1>2, <2>3
<1>4. CASE ~(tick < 0)
  <2>1. MonotonicToRealtime(real_now) = AddTo(real_now, sec, tick)
    BY <1>4 DEF MonotonicToRealtime
  <2>2. tick \in 0 .. Second - 1
    BY <1>0, <1>1, <1>4
  <2>3. /\ MonotonicToRealtime(real_now) \in Timespecs
        /\ Ticks(MonotonicToRealtime(real_now)) = Ticks(real_now) + sec * Second + tick
    BY <1>1, <2>1, <2>2, AddToTicks
  <2> HIDE DEF sec, tick
  <2> QED BY <1>0, <1>1, <1>2, <2>3
<1> QED BY <1>3, <1>4
-----------------------------------------------------------------------------
\* Nobody waits at the start.
LEMMA DeadlineInit == TimedInit => DeadlineInv
<1>1. Timespec(0) \in Timespecs
  BY TimespecTicks
<1> QED BY <1>1, DeadlineAssumption DEF TimedInit, DeadlineInv, ClocksTyped, Converted

\* A wait that is called is due when its argument says.
LEMMA CallStep ==
  ASSUME DeadlineInv, NEW kd \in {"monotonic", "realtime", "futex"}, NEW t \in Timeouts,
         Call(kd, t)
  PROVE  DeadlineInv'
<1>0. Timespec(t) \in Timespecs /\ Ticks(Timespec(t)) = t /\ t \in Nat
  BY TimespecTicks, DeadlineAssumption
<1>1. ClocksTyped'
  BY <1>0 DEF DeadlineInv, ClocksTyped, Call
<1>2. Converted'
  <2>1. called' = now' /\ now' \in Nat
    BY DEF Call, DeadlineInv, ClocksTyped
  <2>2. CASE kd = "realtime"
    BY <1>0, <2>1, <2>2, DeadlineAssumption DEF Call, Converted, Due
  <2>3. CASE kd # "realtime"
    BY <2>1, <2>3, DeadlineAssumption DEF Call, Converted, Due
  <2> QED BY <2>2, <2>3
<1> QED BY <1>1, <1>2 DEF DeadlineInv, Call

\* The clock reads: the deadline is as far from now as what is left, or farther.
LEMMA ReadStep ==
  ASSUME DeadlineInv, ReadMonotonic \/ ReadRealtime
  PROVE  DeadlineInv'
<1>0. ClocksTyped /\ Converted /\ Second \in Nat \ {0} /\ MaxDelay \in Nat
  BY DeadlineAssumption DEF DeadlineInv
<1>1. CASE ReadMonotonic
  <2>1. Timespec(now) \in Timespecs /\ Ticks(Timespec(now)) = now
    BY <1>0, TimespecTicks DEF ClocksTyped
  <2>2. ClocksTyped'
    BY <1>0, <1>1, <2>1 DEF ClocksTyped, ReadMonotonic
  <2>3. Converted'
    BY <1>0, <1>1, <2>1 DEF Converted, ClocksTyped, ReadMonotonic
  <2> QED BY <1>1, <2>2, <2>3 DEF DeadlineInv, ReadMonotonic
<1>2. CASE ReadRealtime
  <2>1. RealNow \in Timespecs /\ Ticks(RealNow) = now + offset
    BY <1>0, TimespecTicks DEF RealNow, ClocksTyped
  <2>2. Ticks(timeout) \in Int /\ Ticks(mono_now) \in Int /\ now \in Nat /\ offset \in Nat
        /\ called \in Nat
    BY <1>0, TicksNumber DEF ClocksTyped
  <2>3. /\ stage = "real" /\ stage' = (IF kind = "futex" THEN "loop" ELSE "wait")
        /\ assumed' = offset
        /\ UNCHANGED <<now, offset, sets, kind, timeout, mono_now, result, called>>
    BY <1>2 DEF ReadRealtime
  <2>4. CASE kind = "monotonic"
    <3>1. deadline' = MonotonicToRealtime(RealNow)
      BY <1>2, <2>4 DEF ReadRealtime
    <3>2. /\ deadline' \in Timespecs
          /\ Ticks(deadline') = now + offset + (Ticks(timeout) - Ticks(mono_now))
      BY <1>0, <2>1, <3>1, ConversionTicks
    <3>3. called <= Ticks(mono_now) /\ Ticks(mono_now) <= now /\ now <= called + MaxDelay
      BY <1>0, <2>3, <2>4 DEF Converted
    <3>4. /\ Ticks(deadline') - assumed' >= Ticks(timeout')
          /\ Ticks(deadline') - assumed' <= Ticks(timeout') + MaxDelay
      BY <1>0, <2>2, <2>3, <3>2, <3>3
    <3>5. Converted'
      <4>1. Due' = Ticks(timeout')
        BY <2>3, <2>4 DEF Due, Ticks
      <4>2. Ticks(deadline)' - assumed' >= Due' /\ Ticks(deadline)' - assumed' <= Due' + MaxDelay
        BY <3>4, <4>1 DEF Ticks
      <4> QED BY <1>0, <2>3, <2>4, <4>2 DEF Converted
    <3>6. ClocksTyped'
      BY <1>0, <2>3, <3>2 DEF ClocksTyped
    <3> QED BY <2>3, <3>5, <3>6 DEF DeadlineInv
  <2>5. CASE kind # "monotonic"
    <3>1. kind = "futex" /\ called <= now /\ now <= called + MaxDelay
      BY <1>0, <2>3, <2>5 DEF Converted
    <3>2. deadline' = AddTo(RealNow, timeout.sec, timeout.tick)
      BY <1>2, <2>5 DEF ReadRealtime
    <3>3. timeout.sec \in Int /\ timeout.tick \in 0 .. Second - 1
      BY <1>0 DEF ClocksTyped, Timespecs
    <3>4. /\ deadline' \in Timespecs
          /\ Ticks(deadline') = now + offset + timeout.sec * Second + timeout.tick
      BY <2>1, <3>2, <3>3, AddToTicks
    <3>5. timeout.sec * Second \in Int
      BY <3>3, Distributes
    <3>6. /\ Ticks(deadline') - assumed' >= called + Ticks(timeout)
          /\ Ticks(deadline') - assumed' <= called + Ticks(timeout) + MaxDelay
      BY <1>0, <2>2, <2>3, <3>1, <3>3, <3>4, <3>5 DEF Ticks
    <3>7. Converted'
      <4>1. Due' = called + Ticks(timeout)
        BY <2>3, <3>1 DEF Due, Ticks
      <4>2. Ticks(deadline)' - assumed' >= Due' /\ Ticks(deadline)' - assumed' <= Due' + MaxDelay
        BY <3>6, <4>1 DEF Ticks
      <4> QED BY <1>0, <2>3, <3>1, <4>2 DEF Converted
    <3>8. ClocksTyped'
      BY <1>0, <2>3, <3>4 DEF ClocksTyped
    <3> QED BY <2>3, <3>7, <3>8 DEF DeadlineInv
  <2> QED BY <2>4, <2>5
<1> QED BY <1>1, <1>2

\* Every step keeps the invariant.
LEMMA DeadlineStep == DeadlineInv /\ [TimedNext]_timedVars => DeadlineInv'
<1> SUFFICES ASSUME DeadlineInv, [TimedNext]_timedVars PROVE DeadlineInv'
  OBVIOUS
<1>0. ClocksTyped /\ Converted /\ Timespec(0) \in Timespecs
  BY TimespecTicks DEF DeadlineInv
<1>1. IsTimespec(deadline)
  BY <1>0 DEF ClocksTyped, IsTimespec, Timespecs
<1>2. CASE TimeOut \/ Signal \/ WordChanged
  <2>1. PICK r \in {"ETIMEDOUT", "woken"} : Finish(r)
    BY <1>1, <1>2 DEF TimeOut, Signal, WordChanged, EndWait
  <2> QED BY <1>0, <2>1 DEF Finish, DeadlineInv, ClocksTyped, Converted
<1>3. CASE Tick
  <2>1. Ticks(mono_now) \in Int /\ now \in Nat /\ called \in Nat /\ MaxDelay \in Nat
    BY <1>0, TicksNumber, DeadlineAssumption DEF ClocksTyped
  <2>2. ClocksTyped'
    BY <1>0, <1>3 DEF Tick, ClocksTyped
  <2>3. Converted'
    BY <1>0, <1>3, <2>1 DEF Tick, Converted, Due
  <2> QED BY <1>3, <2>2, <2>3 DEF Tick, DeadlineInv
<1>6. CASE WakeFutex
  BY <1>0, <1>6 DEF WakeFutex, DeadlineInv, ClocksTyped, Converted, Due, Ticks
<1>7. CASE SleepAgain
  BY <1>0, <1>7 DEF SleepAgain, DeadlineInv, ClocksTyped, Converted, Due, Ticks
<1>4. CASE SetClock
  BY <1>0, <1>4, DeadlineAssumption DEF SetClock, DeadlineInv, ClocksTyped, Converted, Due
<1>5. CASE UNCHANGED timedVars
  BY <1>5 DEF timedVars, DeadlineInv, ClocksTyped, Converted, Due
<1> QED BY <1>2, <1>3, <1>4, <1>5, <1>6, <1>7, CallStep, ReadStep DEF TimedNext

\* A timed wait never ends before its time and never with EINVAL, and is not put
\* off by what wakes it in vain, whatever the number of ticks in a second, the
\* deadlines and the settings of the clock.
THEOREM WaitsAreOnTime == TimedSpec => OnTime
<1>1. ASSUME DeadlineInv, DeadlineInv'
      PROVE  [/\ result' # "EINVAL"
              /\ TimeOut => IF kind = "realtime" THEN now + offset >= Due
                            ELSE now + (offset - assumed) >= Due
              /\ stage' = "wait" /\ kind' # "realtime" =>
                   Ticks(deadline') - assumed' <= Due' + MaxDelay]_timedVars
  <2>1. ASSUME TimeOut
        PROVE  IF kind = "realtime" THEN now + offset >= Due
               ELSE now + (offset - assumed) >= Due
    <3>1. ClocksTyped /\ Converted /\ stage = "wait" /\ Expired
      BY <1>1, <2>1 DEF DeadlineInv, TimeOut, EndWait
    <3>2. Ticks(deadline) <= now + offset
      BY <3>1 DEF Expired, IsTimespec, ClocksTyped, Timespecs
    <3>3. /\ Ticks(deadline) \in Int /\ Due \in Int
          /\ now \in Nat /\ offset \in Nat /\ assumed \in Nat
      BY <3>1, TicksNumber DEF ClocksTyped, Due
    <3>4. \/ kind = "realtime" /\ Ticks(deadline) >= Due
          \/ kind \in {"monotonic", "futex"} /\ Ticks(deadline) - assumed >= Due
      BY <3>1 DEF Converted
    <3> HIDE DEF Due
    <3> QED BY <3>2, <3>3, <3>4
  <2>2. ASSUME stage' = "wait", kind' # "realtime"
        PROVE  Ticks(deadline') - assumed' <= Due' + MaxDelay
    <3>1. Converted'
      BY <1>1 DEF DeadlineInv
    <3>2. Ticks(deadline)' - assumed' <= Due' + MaxDelay
      BY <2>2, <3>1 DEF Converted
    <3> QED BY <3>2 DEF Ticks
  <2>3. result' # "EINVAL"
    BY <1>1 DEF DeadlineInv
  <2> QED BY <2>1, <2>2, <2>3
<1>2. TimedSpec => []DeadlineInv
  BY DeadlineInit, DeadlineStep, PTL DEF TimedSpec
<1> QED BY <1>1, <1>2, PTL DEF OnTime
=============================================================================
