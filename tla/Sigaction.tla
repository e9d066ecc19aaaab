----------------------------- MODULE Sigaction -----------------------------
(***************************************************************************)
(* templates/signal_compat.c: g_actions holds the Android action of every  *)
(* signal, and the host's disposition is a trampoline that looks it up.    *)
(* Neither is under a lock: sigaction stores the action, then asks the     *)
(* host, and a signal may arrive on any thread before, between or after.   *)
(***************************************************************************)
EXTENDS Integers, Sequences, FiniteSets

CONSTANTS Threads, Signals,     \* the Android signals the program uses
          Handlers,             \* its handlers
          Masks,                \* the sa_masks it uses
          Asks,                 \* the actions it asks for
          DFL, IGN              \* SIG_DFL and SIG_IGN

ASSUME SignalAssumption == /\ Signals \subseteq 1 .. 64
                           /\ DFL # IGN /\ DFL \notin Handlers /\ IGN \notin Handlers
                           /\ \A m \in Masks : m \subseteq 1 .. 64
                           /\ "trampoline" \notin {DFL, IGN}

VARIABLES actions,    \* g_actions
          host,       \* the host's disposition of every host signal (external)
          pc, arg,    \* where each thread is in sigaction, and what it passed
          at, sig,    \* where each thread is in the trampoline, and for which host signal
          copy,       \* the trampoline's copy of the action
          asked,      \* what the last sigaction that returned asked for (history)
          promise     \* what was asked for when a thread's signal came, as long as no
                      \* sigaction of the signal overlaps its delivery (history)

vars == <<actions, host, pc, arg, at, sig, copy, asked, promise>>

\* Darwin's numbers of the Android signals 1 to 31; -1 for none.
HostNumbers ==
  <<1, 2, 3, 4, 5, 6, 10, 8, 9, 30, 11, 31, 13, 14, 15, -1,
    20, 19, 17, 18, 21, 22, 16, 24, 25, 26, 27, 28, 23, -1, 12>>

HostSignal(s) == IF s \in 1 .. Len(HostNumbers) THEN HostNumbers[s] ELSE -1

\* The first Android signal with the host number, else the number itself.
AndroidSignal(h) ==
  LET with == {s \in 1 .. 64 : HostSignal(s) = h}
  IN IF with = {} THEN h ELSE CHOOSE s \in with : \A r \in with : s <= r

\* a2i_to_host_sigset: signals without a host number are dropped.
ToHostSigset(m) == {HostSignal(s) : s \in {r \in m : HostSignal(r) > 0}}

SIGKILL == 9
SIGSTOP == 17

\* The fields of a sigaction that this code looks at, or hands on.
Action   == [handler : Handlers \cup {DFL, IGN}, siginfo : BOOLEAN, resethand : BOOLEAN,
             mask : Masks \cup {{}}]
NoAction == [handler |-> DFL, siginfo |-> FALSE, resethand |-> FALSE, mask |-> {}]

ASSUME AsksAssumption == Asks \subseteq Action

\* a2i_host_flags, for the two flags that matter here: each has its host flag.
HostFlags(a) == [siginfo |-> a.siginfo, resethand |-> a.resethand]

\* What sigaction asks the host for: the trampoline always takes a siginfo, and
\* the host's own dispositions never do.
Disposition(a) ==
  [disp      |-> IF a.handler \in {DFL, IGN} THEN a.handler ELSE "trampoline",
   siginfo   |-> a.handler \notin {DFL, IGN},
   resethand |-> HostFlags(a).resethand, mask |-> ToHostSigset(a.mask)]

HostSignals == {HostSignal(s) : s \in Signals} \ {-1}
Indices     == Signals \cup HostSignals      \* of g_actions, as far as anybody looks
NoArg == [signal |-> 0, new |-> NoAction]

Init == /\ actions = [s \in Indices |-> NoAction] /\ asked = [s \in Signals |-> NoAction]
        /\ host = [h \in HostSignals |-> Disposition(NoAction)]
        /\ pc = [t \in Threads |-> "out"] /\ arg = [t \in Threads |-> NoArg]
        /\ at = [t \in Threads |-> "none"] /\ sig = [t \in Threads |-> 0]
        /\ copy = [t \in Threads |-> NoAction] /\ promise = [t \in Threads |-> NoAction]

InSigaction(s) == {t \in Threads : pc[t] # "out" /\ arg[t].signal = s}

\* sigaction up to the store.  A signal without a host number is EINVAL; a call
\* without a new action only reads g_actions.  Callers do not change one signal
\* at the same time.
Begin(t, s, new) ==
  /\ pc[t] = "out" /\ at[t] = "none" /\ HostSignal(s) >= 0
  /\ InSigaction(s) = {}
  /\ pc' = [pc EXCEPT ![t] = "store"]
  /\ arg' = [arg EXCEPT ![t] = [signal |-> s, new |-> new]]
  /\ promise' = [u \in Threads |-> IF sig[u] = HostSignal(s) THEN NoAction ELSE promise[u]]
  /\ UNCHANGED <<actions, host, at, sig, copy, asked>>

SigactionCall(t, s) == \E new \in Asks : Begin(t, s, new)

\* signal: sigaction with a handler, no flags and an empty mask.
SignalCall(t, s) == \E handler \in Handlers \cup {DFL, IGN} :
                      Begin(t, s, [NoAction EXCEPT !.handler = handler])

\* Mutant of SigactionStore: only what the trampoline will need is stored.
SigactionStoreHandlers(t) ==
  /\ pc[t] = "store" /\ at[t] = "none" /\ pc' = [pc EXCEPT ![t] = "install"]
  /\ actions' = IF arg[t].new.handler \in {DFL, IGN} THEN actions
                ELSE [actions EXCEPT ![arg[t].signal] = arg[t].new]
  /\ UNCHANGED <<host, arg, at, sig, copy, asked, promise>>

\* The action goes into g_actions, before the host is asked.
SigactionStore(t) == /\ pc[t] = "store" /\ at[t] = "none" /\ pc' = [pc EXCEPT ![t] = "install"]
                     /\ actions' = [actions EXCEPT ![arg[t].signal] = arg[t].new]
                     /\ UNCHANGED <<host, arg, at, sig, copy, asked, promise>>

\* The host's sigaction, which refuses SIGKILL and SIGSTOP.
SigactionInstall(t) ==
  LET s == arg[t].signal h == HostSignal(arg[t].signal) IN
  /\ pc[t] = "install" /\ at[t] = "none" /\ pc' = [pc EXCEPT ![t] = "out"]
  /\ arg' = [arg EXCEPT ![t] = NoArg]
  /\ IF h \in {SIGKILL, SIGSTOP} THEN UNCHANGED <<host, asked>>
     ELSE /\ host' = [host EXCEPT ![h] = Disposition(arg[t].new)]
          /\ asked' = [asked EXCEPT ![s] = arg[t].new]
  /\ UNCHANGED <<actions, at, sig, copy, promise>>
-----------------------------------------------------------------------------
\* A signal with the trampoline arrives at t (external).  Default and ignored
\* signals never reach this code.  SA_RESETHAND takes the host back to the default.
Deliver(t, s) ==
  LET h == HostSignal(s) IN
  /\ h >= 0 /\ at[t] = "none" /\ host[h].disp = "trampoline"
  /\ at' = [at EXCEPT ![t] = "entered"] /\ sig' = [sig EXCEPT ![t] = h]
  /\ promise' = [promise EXCEPT ![t] = IF InSigaction(s) = {} THEN asked[s] ELSE NoAction]
  /\ IF host[h].resethand
     THEN /\ host' = [host EXCEPT ![h] = [disp |-> DFL, siginfo |-> FALSE,
                                          resethand |-> @.resethand, mask |-> @.mask]]
          /\ asked' = [asked EXCEPT ![s].handler = DFL]
     ELSE UNCHANGED <<host, asked>>
  /\ UNCHANGED <<actions, pc, arg, copy>>

\* tgkill raises the host's signal, but only on the thread that calls it.
Tgkill(t, s) == pc[t] = "out" /\ Deliver(t, s)

\* What a copy of g_actions[s] can be while it is being stored to: each field
\* is the old one or the new one.
Torn(old, new) == {a \in Action : /\ a.handler \in {old.handler, new.handler}
                                  /\ a.siginfo \in {old.siginfo, new.siginfo}
                                  /\ a.resethand \in {old.resethand, new.resethand}
                                  /\ a.mask \in {old.mask, new.mask}}

Enters(t, a) == /\ at' = [at EXCEPT ![t] = "copied"]
                /\ copy' = [copy EXCEPT ![t] = a]
                /\ UNCHANGED <<actions, host, pc, arg, sig, asked, promise>>

\* Mutant of Copy: the host's number is used as an index.
CopyHostNumber(t) == at[t] = "entered" /\ Enters(t, actions[sig[t]])

\* The trampoline copies the action of the Android signal.
Copy(t) ==
  LET s == AndroidSignal(sig[t]) IN
  at[t] = "entered" /\ \E a \in {actions[s]} \cup UNION {Torn(actions[s], arg[u].new) :
                                       u \in {v \in InSigaction(s) : pc[v] = "store"}} :
    Enters(t, a)

\* It calls what the copy says: a handler in the form its flags tell, or nothing.
\* (In the window between the store and the host's sigaction it may find SIG_DFL,
\* and the signal vanishes, or SIG_IGN with SA_SIGINFO, which it would call.)
Run(t) == /\ at[t] = "copied" /\ at' = [at EXCEPT ![t] = "none"]
          /\ sig' = [sig EXCEPT ![t] = 0] /\ copy' = [copy EXCEPT ![t] = NoAction]
          /\ promise' = [promise EXCEPT ![t] = NoAction]
          /\ UNCHANGED <<actions, host, pc, arg, asked>>

Next == \E t \in Threads :
          \/ SigactionStore(t) \/ SigactionInstall(t) \/ Copy(t) \/ Run(t)
          \/ \E s \in Signals : SigactionCall(t, s) \/ SignalCall(t, s)
                               \/ Tgkill(t, s) \/ Deliver(t, s)

Spec == Init /\ [][Next]_vars
-----------------------------------------------------------------------------
\* The types of the table, the host's dispositions and the threads' locals.
TypeOK == /\ actions \in [Indices -> Action] /\ asked \in [Signals -> Action]
          /\ host \in [HostSignals -> [disp : {DFL, IGN, "trampoline"}, siginfo : BOOLEAN,
                                       resethand : BOOLEAN, mask : SUBSET Int]]
          /\ pc \in [Threads -> {"out", "store", "install"}]
          /\ arg \in [Threads -> [signal : Signals \cup {0}, new : Action]]
          /\ at \in [Threads -> {"none", "entered", "copied"}]
          /\ sig \in [Threads -> HostSignals \cup {0}] /\ copy \in [Threads -> Action]
          /\ promise \in [Threads -> Action]

\* The host treats a signal as the last sigaction that returned 0 asked, in the
\* host's numbers; a refused call and SA_RESETHAND included.
HostAgrees == \A s \in Signals : HostSignal(s) >= 0 =>
                /\ host[HostSignal(s)] = Disposition(asked[s])
                /\ HostSignal(s) \in {SIGKILL, SIGSTOP} => asked[s] = NoAction

\* Until a call has stored, and after it has returned, the table, which is also
\* what sigaction returns as the old action, is what was asked, except for the
\* two signals that the host refuses and for a handler that SA_RESETHAND has
\* used up.
TableAgrees == \A s \in Signals :
  /\ \A t \in InSigaction(s) : pc[t] # "install"
  /\ HostSignal(s) \notin {SIGKILL, SIGSTOP}
  => \/ actions[s] = asked[s]
     \/ actions[s].resethand /\ asked[s].handler = DFL

\* A call is the only one that changes its signal, and what it has stored is
\* still there when it asks the host.
CallsApart == \A t \in Threads : pc[t] # "out" =>
  /\ arg[t].signal \in Signals /\ HostSignal(arg[t].signal) >= 0
  /\ InSigaction(arg[t].signal) = {t}
  /\ pc[t] = "install" => actions[arg[t].signal] = arg[t].new

\* The two places that hold an action, the table and the host, agree with what
\* the program asked for whenever no call is changing them.
DispositionsAgree == TypeOK /\ HostAgrees /\ TableAgrees /\ CallsApart

\* As long as no sigaction has overlapped a delivery, the table holds the handler
\* that was asked for when the signal came ...
BeforeCopy == \A t \in Threads : at[t] # "none" =>
  /\ sig[t] \in HostSignals
  /\ at[t] = "entered" /\ promise[t] # NoAction =>
       /\ InSigaction(AndroidSignal(sig[t])) = {}
       /\ actions[AndroidSignal(sig[t])] = promise[t] /\ promise[t].handler \in Handlers

\* ... and so does the trampoline's copy of it.
AfterCopy == \A t \in Threads : at[t] = "copied" /\ promise[t] # NoAction =>
  copy[t] = promise[t] /\ copy[t].handler \in Handlers

\* A signal that no sigaction of the same signal overlaps is treated by the
\* handler that was asked for, in the form it was asked for.
CleanDelivery == BeforeCopy /\ AfterCopy
=============================================================================
