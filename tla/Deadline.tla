------------------------------ MODULE Deadline ------------------------------
(***************************************************************************)
(* The timed waits of pthread_compat.c and runtime_compat.c.  The host     *)
(* only has waits that end at a time of its realtime clock, which may be   *)
(* set while somebody waits.  A deadline of the monotonic clock is         *)
(* converted with two clock reads, a futex's relative timeout with one,    *)
(* and the waiter may be held up between any two steps.                    *)
(*                                                                         *)
(* Time is counted in ticks, Second of them to a second; a timespec has    *)
(* seconds and ticks.                                                      *)
(***************************************************************************)
EXTENDS Integers

CONSTANTS Second,      \* ticks in a second (10^9)
          Timeouts,    \* the deadlines, or relative timeouts, that are asked for
          Offsets,     \* how far the realtime clock may be ahead of the monotonic one
          MaxTime,     \* bound: the last tick
          LastCall,    \* bound: the last tick at which a wait is called
          MaxDelay,    \* bound: how long a waiter is held up before the host's wait
          MaxSets,     \* bound: how often the realtime clock is set
          MaxWakes     \* bound: how often a futex's waiter is woken in vain

ASSUME DeadlineAssumption ==
  /\ Second \in Nat \ {0} /\ Timeouts \subseteq Nat /\ Offsets \subseteq Nat
  /\ MaxTime \in Nat /\ LastCall \in Nat /\ MaxDelay \in Nat /\ MaxSets \in Nat
  /\ MaxWakes \in Nat

VARIABLES now,        \* the monotonic clock
          offset,     \* the realtime clock, minus the monotonic one
          sets,       \* how often the realtime clock was set
          stage,      \* "out", "mono", "real", "loop" or "wait"
          kind,       \* "monotonic", "realtime" or "futex"
          timeout,    \* the timespec argument
          mono_now, deadline,
          result,     \* what the last wait has returned
          called,     \* when the wait was called (history)
          assumed,    \* the offset that the conversion has seen (history)
          sleeps      \* how often the waiter of a futex has gone to sleep (history)

timedVars == <<now, offset, sets, stage, kind, timeout, mono_now, deadline, result,
               called, assumed, sleeps>>
-----------------------------------------------------------------------------
Timespec(t) == [sec |-> t \div Second, tick |-> t % Second]
Ticks(ts)   == ts.sec * Second + ts.tick

\* The tail of both conversions: one carry into the seconds.
AddTo(ts, sec, tick) ==
  IF ts.tick + tick >= Second
  THEN [sec |-> ts.sec + sec + 1, tick |-> ts.tick + tick - Second]
  ELSE [sec |-> ts.sec + sec, tick |-> ts.tick + tick]

\* Mutant of MonotonicToRealtime: the borrow is missing.
MonotonicToRealtimeNoBorrow(real_now) ==
  AddTo(real_now, timeout.sec - mono_now.sec, timeout.tick - mono_now.tick)

\* a2i_monotonic_to_realtime: what is left on the one clock, from now on the other.
MonotonicToRealtime(real_now) ==
  LET sec  == timeout.sec - mono_now.sec
      tick == timeout.tick - mono_now.tick
  IN IF tick < 0 THEN AddTo(real_now, sec - 1, tick + Second)
     ELSE AddTo(real_now, sec, tick)

RealNow == Timespec(now + offset)

TimedInit == /\ now = 0 /\ offset \in Offsets /\ sets = 0
             /\ stage = "out" /\ kind = "none" /\ result = "none"
             /\ timeout = Timespec(0) /\ mono_now = Timespec(0) /\ deadline = Timespec(0)
             /\ called = 0 /\ assumed = 0 /\ sleeps = 0

\* pthread_cond_timedwait on a condition with clock 1 or 0, and FUTEX_WAIT with a
\* timeout, up to the first clock read or the host's wait.
Call(k, t) ==
  /\ stage = "out" /\ now <= LastCall
  /\ kind' = k /\ timeout' = Timespec(t) /\ called' = now /\ result' = "none"
  /\ stage' = CASE k = "monotonic" -> "mono" [] k = "futex" -> "real" [] k = "realtime" -> "wait"
  /\ deadline' = IF k = "realtime" THEN Timespec(t) ELSE deadline
  /\ assumed' = IF k = "realtime" THEN offset ELSE assumed
  /\ UNCHANGED <<now, offset, sets, mono_now, sleeps>>

ReadMonotonic == /\ stage = "mono" /\ stage' = "real" /\ mono_now' = Timespec(now)
                 /\ UNCHANGED <<now, offset, sets, kind, timeout, deadline, result,
                                called, assumed, sleeps>>

ReadRealtime ==
  /\ stage = "real" /\ stage' = IF kind = "futex" THEN "loop" ELSE "wait"
  /\ deadline' = IF kind = "monotonic" THEN MonotonicToRealtime(RealNow)
                 ELSE AddTo(RealNow, timeout.sec, timeout.tick)
  /\ assumed' = offset
  /\ UNCHANGED <<now, offset, sets, kind, timeout, mono_now, result, called, sleeps>>
-----------------------------------------------------------------------------
\* The return of what the host returns: EINVAL for a timespec that is none,
\* ETIMEDOUT once the realtime clock is there, 0 for a signal.
Finish(r) == /\ stage' = "out" /\ result' = r /\ kind' = "none"
             /\ timeout' = Timespec(0) /\ mono_now' = Timespec(0) /\ deadline' = Timespec(0)
             /\ called' = 0 /\ assumed' = 0 /\ sleeps' = 0
             /\ UNCHANGED <<now, offset, sets>>

EndWait(r) == stage = "wait" /\ Finish(r)

IsTimespec(ts) == ts.tick \in 0 .. Second - 1

Expired == IsTimespec(deadline) => Ticks(deadline) <= now + offset
Signal  == IsTimespec(deadline) /\ kind # "futex" /\ EndWait("woken")

\* A signal wakes the waiter of a futex, which reads the word again,
WakeFutex == /\ stage = "wait" /\ kind = "futex" /\ IsTimespec(deadline)
             /\ sleeps <= MaxWakes /\ stage' = "loop"
             /\ UNCHANGED <<now, offset, sets, kind, timeout, mono_now, deadline, result,
                            called, assumed, sleeps>>

\* Mutant of SleepAgain: the deadline is made in the loop.
SleepAnew == /\ stage = "loop" /\ kind = "futex"
             /\ stage' = "wait" /\ sleeps' = sleeps + 1
             /\ deadline' = AddTo(RealNow, timeout.sec, timeout.tick) /\ assumed' = offset
             /\ UNCHANGED <<now, offset, sets, kind, timeout, mono_now, result, called>>

\* and waits, with the deadline that it has, if this is the expected one, or
\* else returns.
SleepAgain == /\ stage = "loop" /\ kind = "futex"
              /\ stage' = "wait" /\ sleeps' = sleeps + 1
              /\ UNCHANGED <<now, offset, sets, kind, timeout, mono_now, deadline, result,
                             called, assumed>>

WordChanged == stage = "loop" /\ kind = "futex" /\ Finish("woken")

\* Mutant of TimeOut: the loop of FUTEX_WAIT sleeps again when its time is up.
TimeOutLoops == /\ Expired /\ kind # "futex"
                /\ EndWait(IF IsTimespec(deadline) THEN "ETIMEDOUT" ELSE "EINVAL")

TimeOut == Expired /\ EndWait(IF IsTimespec(deadline) THEN "ETIMEDOUT" ELSE "EINVAL")

\* The clocks (external): time passes, and the realtime clock is set.
Tick == /\ now < MaxTime /\ now' = now + 1
        /\ stage \in {"mono", "real"} => now < called + MaxDelay
        /\ UNCHANGED <<offset, sets, stage, kind, timeout, mono_now, deadline, result,
                       called, assumed, sleeps>>
SetClock == /\ sets < MaxSets /\ sets' = sets + 1
            /\ offset' \in Offsets \ {offset}
            /\ UNCHANGED <<now, stage, kind, timeout, mono_now, deadline, result,
                           called, assumed, sleeps>>

TimedNext == \/ \E k \in {"monotonic", "realtime", "futex"}, t \in Timeouts : Call(k, t)
             \/ ReadMonotonic \/ ReadRealtime \/ TimeOut \/ Signal
             \/ WakeFutex \/ SleepAgain \/ WordChanged
             \/ Tick \/ SetClock

\* The waiter runs, the host ends a wait whose time has come, time passes.
Fairness == /\ WF_timedVars(ReadMonotonic) /\ WF_timedVars(ReadRealtime)
            /\ WF_timedVars(SleepAgain \/ WordChanged)
            /\ WF_timedVars(TimeOut) /\ WF_timedVars(Tick)

TimedSpec == TimedInit /\ [][TimedNext]_timedVars /\ Fairness
-----------------------------------------------------------------------------
\* When the wait is due, on the clock its caller counts on.
Due == IF kind = "futex" THEN called + Ticks(timeout) ELSE Ticks(timeout)

\* A wait never ends early, and never for a malformed deadline: when it times out
\* the caller's clock has reached the time it asked for, wherever the waiter was
\* held up and whenever the realtime clock was set, except that a wait of the
\* monotonic clock or a futex is early by as much as the realtime clock was put
\* forward after the conversion read it.  Nor is it put off: whatever the waiter
\* of a futex is woken for, it never waits for a later time than the delay before
\* its first sleep accounts for.
OnTime ==
  [][/\ result' # "EINVAL"
     /\ TimeOut => IF kind = "realtime" THEN now + offset >= Due
                   ELSE now + (offset - assumed) >= Due
     /\ stage' = "wait" /\ kind' # "realtime" =>
          Ticks(deadline') - assumed' <= Due' + MaxDelay]_timedVars

\* Every timed wait ends, though nobody signals, or signals leave the word as it
\* was, and the realtime clock may be put back while it waits.
TimedWaitEnds == (stage # "out") ~> (stage = "out")
=============================================================================
