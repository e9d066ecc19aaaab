-------------------------- MODULE SigactionProofs --------------------------
(***************************************************************************)
(* The table of Android actions, the host's dispositions and what the      *)
(* program asked for agree, and an undisturbed signal gets its handler,    *)
(* for any threads, signals, handlers and masks.                           *)
(***************************************************************************)
EXTENDS Sigaction, TLAPS

\* The numbers of the table, and that there are 31 of them.
LEMMA NumbersType == Len(HostNumbers) = 31 /\ HostNumbers \in [1 .. 31 -> Int]
BY DEF HostNumbers

\* A host number is one of Darwin's or -1, and no two Android signals share one.
LEMMA HostSignalFacts ==
  /\ \A s \in Int : HostSignal(s) \in Int \ {0}
  /\ \A r, s \in Int : HostSignal(r) = HostSignal(s) /\ HostSignal(s) >= 0 => r = s
  /\ \A s \in Int : HostSignal(s) >= 0 => s \in 1 .. 64
<1>1. \A s \in Int : s \in 1 .. Len(HostNumbers) <=> 1 <= s /\ s <= 31
  BY NumbersType
<1> QED BY <1>1 DEF HostSignal, HostNumbers

\* The trampoline finds the Android signal it was installed for.
LEMMA AndroidSignalInverts ==
  ASSUME NEW s \in Int, HostSignal(s) >= 0
  PROVE  AndroidSignal(HostSignal(s)) = s
<1>1. s \in 1 .. 64
  BY HostSignalFacts
<1>2. {r \in 1 .. 64 : HostSignal(r) = HostSignal(s)} = {s}
  BY <1>1, HostSignalFacts, SMTT(30)
<1> QED BY <1>2 DEF AndroidSignal

\* The signals are Android numbers, and the usable ones have a host number.
LEMMA SignalFacts ==
  /\ Signals \subseteq Int /\ Signals \subseteq Indices
  /\ \A s \in Signals : HostSignal(s) >= 0 => HostSignal(s) \in HostSignals
  /\ \A h \in HostSignals : \E s \in Signals : h = HostSignal(s) /\ HostSignal(s) >= 0
  /\ 0 \notin HostSignals
<1>1. Signals \subseteq Int
  BY SignalAssumption
<1>2. \A s \in Int : HostSignal(s) >= 0 \/ HostSignal(s) = -1
  <2>1. \A s \in Int : s \in 1 .. Len(HostNumbers) <=> 1 <= s /\ s <= 31
    BY NumbersType
  <2> QED BY <2>1 DEF HostSignal, HostNumbers
<1>3. \A s \in Signals : HostSignal(s) \in Int /\ HostSignal(s) # 0
  BY <1>1, HostSignalFacts
<1>4. \A h \in HostSignals : \E s \in Signals : h = HostSignal(s) /\ HostSignal(s) >= 0
  BY <1>1, <1>2 DEF HostSignals
<1>5. \A s \in Signals : HostSignal(s) >= 0 => HostSignal(s) \in HostSignals
  BY <1>3 DEF HostSignals
<1> QED BY <1>1, <1>3, <1>4, <1>5 DEF Indices

\* The trampoline's index is a signal of the program.
LEMMA AndroidSignalType ==
  ASSUME NEW h \in HostSignals
  PROVE  AndroidSignal(h) \in Signals /\ HostSignal(AndroidSignal(h)) = h
<1>1. PICK s \in Signals : h = HostSignal(s) /\ HostSignal(s) >= 0
  BY SignalFacts
<1> QED BY <1>1, SignalFacts, AndroidSignalInverts

HostAction == [disp : {DFL, IGN, "trampoline"}, siginfo : BOOLEAN,
               resethand : BOOLEAN, mask : SUBSET Int]

\* What the host is asked for is one of its dispositions.
LEMMA DispositionType ==
  ASSUME NEW a \in Action
  PROVE  Disposition(a) \in HostAction
<1>1. a.mask \subseteq 1 .. 64
  BY SignalAssumption DEF Action
<1>2. ToHostSigset(a.mask) \subseteq Int
  <2>1. \A r \in a.mask : HostSignal(r) \in Int
    <3>1. \A r \in 1 .. 64 : HostSignal(r) \in Int
      BY HostSignalFacts
    <3> QED BY <1>1, <3>1
  <2> QED BY <2>1 DEF ToHostSigset
<1> QED BY <1>2 DEF Disposition, HostAction, HostFlags, Action

\* SA_RESETHAND takes the host to the disposition of the action without handler.
LEMMA DispositionReset ==
  ASSUME NEW a \in Action
  PROVE  Disposition([a EXCEPT !.handler = DFL])
           = [disp |-> DFL, siginfo |-> FALSE, resethand |-> Disposition(a).resethand,
              mask |-> Disposition(a).mask]
<1> DEFINE b == [a EXCEPT !.handler = DFL]
<1>1. b.handler = DFL /\ b.resethand = a.resethand /\ b.mask = a.mask
  BY DEF Action
<1>2. Disposition(b) = [disp |-> DFL, siginfo |-> FALSE, resethand |-> a.resethand,
                        mask |-> ToHostSigset(a.mask)]
  BY <1>1 DEF Disposition, HostFlags
<1>3. Disposition(a).resethand = a.resethand /\ Disposition(a).mask = ToHostSigset(a.mask)
  BY DEF Disposition, HostFlags
<1> QED BY <1>2, <1>3

\* The program's actions, and the one that everything starts with.
LEMMA ActionFacts == NoAction \in Action /\ Asks \subseteq Action
BY AsksAssumption DEF NoAction, Action

\* What signal passes to sigaction.
LEMMA SignalActionType ==
  ASSUME NEW f \in Handlers \cup {DFL, IGN}
  PROVE  [NoAction EXCEPT !.handler = f] \in Action
BY DEF NoAction, Action

-----------------------------------------------------------------------------
\* A call for one of the program's signals, with one of its actions.
LEMMA CallBegins ==
  ASSUME DispositionsAgree, NEW t \in Threads, NEW s \in Signals,
         SigactionCall(t, s) \/ SignalCall(t, s)
  PROVE  \E new \in Action : Begin(t, s, new)
BY ActionFacts, SignalActionType DEF SigactionCall, SignalCall

\* A signal is delivered with a disposition that the program asked for.
LEMMA DeliverFacts ==
  ASSUME DispositionsAgree, NEW t \in Threads, NEW s \in Signals, Deliver(t, s)
  PROVE  /\ HostSignal(s) \in HostSignals /\ HostSignal(s) \in Int
         /\ host[HostSignal(s)] = Disposition(asked[s]) /\ asked[s] \in Action
         /\ asked[s].handler \in Handlers
         /\ HostSignal(s) \notin {SIGKILL, SIGSTOP}
         /\ host[HostSignal(s)].resethand = asked[s].resethand
<1>1. HostSignal(s) >= 0 /\ host[HostSignal(s)].disp = "trampoline"
  BY DEF Deliver
<1>2. HostSignal(s) \in HostSignals /\ HostSignal(s) \in Int
  BY <1>1, SignalFacts, HostSignalFacts
<1>3. /\ host[HostSignal(s)] = Disposition(asked[s]) /\ asked[s] \in Action
      /\ HostSignal(s) \in {SIGKILL, SIGSTOP} => asked[s] = NoAction
  BY <1>1 DEF DispositionsAgree, TypeOK, HostAgrees
<1>4. asked[s].handler \notin {DFL, IGN}
  BY <1>1, <1>3, SignalAssumption DEF Disposition
<1>5. asked[s] # NoAction
  BY <1>4 DEF NoAction
<1>6. asked[s].handler \in Handlers
  BY <1>3, <1>4 DEF Action
<1>7. Disposition(asked[s]).resethand = asked[s].resethand
  BY DEF Disposition, HostFlags
<1> QED BY <1>2, <1>3, <1>5, <1>6, <1>7

\* The variables stay in their types.
LEMMA SigactionTypeStep ==
  DispositionsAgree /\ CleanDelivery /\ [Next]_vars => TypeOK'
<1> SUFFICES ASSUME DispositionsAgree, CleanDelivery, [Next]_vars PROVE TypeOK'
  OBVIOUS
<1>0. TypeOK /\ CallsApart /\ HostAgrees
  BY DEF DispositionsAgree
<1> USE DEF TypeOK
<1>1. ASSUME NEW t \in Threads, NEW s \in Signals, NEW new \in Action, Begin(t, s, new)
      PROVE  TypeOK'
  BY <1>0, <1>1, ActionFacts DEF Begin
<1>2. ASSUME NEW t \in Threads, SigactionStore(t) PROVE TypeOK'
  <2>1. arg[t].signal \in Indices /\ arg[t].new \in Action
    BY <1>0, <1>2, SignalFacts DEF CallsApart, SigactionStore
  <2> QED BY <1>0, <1>2, <2>1 DEF SigactionStore
<1>3. ASSUME NEW t \in Threads, SigactionInstall(t) PROVE TypeOK'
  <2>1. /\ arg[t].signal \in Signals /\ arg[t].new \in Action
        /\ HostSignal(arg[t].signal) \in HostSignals
    BY <1>0, <1>3, SignalFacts DEF CallsApart, SigactionInstall
  <2>2. Disposition(arg[t].new) \in HostAction
    BY <2>1, DispositionType
  <2>3. /\ pc' = [pc EXCEPT ![t] = "out"] /\ arg' = [arg EXCEPT ![t] = NoArg]
        /\ UNCHANGED <<actions, at, sig, copy, promise>>
    BY <1>3 DEF SigactionInstall
  <2>4. NoArg \in [signal : Signals \cup {0}, new : Action]
    BY ActionFacts DEF NoArg
  <2>5. host' \in [HostSignals -> HostAction] /\ asked' \in [Signals -> Action]
    BY <1>0, <1>3, <2>1, <2>2 DEF SigactionInstall, HostAction
  <2> QED BY <1>0, <2>3, <2>4, <2>5 DEF HostAction
<1>4. ASSUME NEW t \in Threads, NEW s \in Signals, Deliver(t, s) PROVE TypeOK'
  <2> DEFINE h == HostSignal(s)
  <2>1. h \in HostSignals /\ asked[s] \in Action
    BY <1>4, DeliverFacts
  <2>2. /\ at' = [at EXCEPT ![t] = "entered"] /\ sig' = [sig EXCEPT ![t] = h]
        /\ UNCHANGED <<actions, pc, arg, copy>>
    BY <1>4 DEF Deliver
  <2>3. promise' \in [Threads -> Action]
    BY <1>0, <1>4, <2>1, ActionFacts DEF Deliver
  <2>4. host' \in [HostSignals -> HostAction] /\ asked' \in [Signals -> Action]
    <3>1. CASE host[h].resethand
      <4>1. /\ host' = [host EXCEPT ![h] = [disp |-> DFL, siginfo |-> FALSE,
                                            resethand |-> @.resethand, mask |-> @.mask]]
            /\ asked' = [asked EXCEPT ![s].handler = DFL]
        BY <1>4, <3>1 DEF Deliver
      <4>2. host' \in [HostSignals -> HostAction]
        BY <1>0, <2>1, <4>1 DEF HostAction
      <4>3. asked' \in [Signals -> Action]
        BY <1>0, <2>1, <4>1 DEF Action
      <4> QED BY <4>2, <4>3
    <3>2. CASE ~host[h].resethand
      BY <1>0, <1>4, <3>2 DEF Deliver, HostAction
    <3> QED BY <3>1, <3>2
  <2> QED BY <1>0, <2>1, <2>2, <2>3, <2>4 DEF HostAction
<1>5. ASSUME NEW t \in Threads, Copy(t) PROVE TypeOK'
  <2>1. AndroidSignal(sig[t]) \in Indices
    BY <1>5, AndroidSignalType, SignalFacts DEF Copy, CleanDelivery, BeforeCopy
  <2>2. PICK a \in Action : Enters(t, a)
    BY <1>0, <1>5, <2>1 DEF Copy, Torn
  <2> QED BY <1>0, <2>2 DEF Enters
<1>6. ASSUME NEW t \in Threads, Run(t) PROVE TypeOK'
  BY <1>0, <1>6, ActionFacts DEF Run
<1>7. CASE UNCHANGED vars
  BY <1>0, <1>7 DEF vars
<1> QED
  BY <1>1, <1>2, <1>3, <1>4, <1>5, <1>6, <1>7, CallBegins DEF Next, Tgkill

\* Who is in a call is changed by its first and its last step only.
LEMMA InSigactionFacts ==
  ASSUME DispositionsAgree
  PROVE  /\ \A t \in Threads, r \in Signals, new \in Action : Begin(t, r, new) =>
              \A s \in Signals : InSigaction(s)' = IF s = r THEN {t} ELSE InSigaction(s)
         /\ \A t \in Threads : SigactionInstall(t) =>
              \A s \in Signals : InSigaction(s)' = IF s = arg[t].signal THEN {}
                                                  ELSE InSigaction(s)
         /\ \A t \in Threads : SigactionStore(t) =>
              \A s \in Signals : InSigaction(s)' = InSigaction(s)
         /\ UNCHANGED <<pc, arg>> => \A s \in Signals : InSigaction(s)' = InSigaction(s)
<1>0. TypeOK /\ CallsApart
  BY DEF DispositionsAgree
<1>1. ASSUME NEW t \in Threads, NEW r \in Signals, NEW new \in Action, Begin(t, r, new),
             NEW s \in Signals
      PROVE  InSigaction(s)' = IF s = r THEN {t} ELSE InSigaction(s)
  BY <1>0, <1>1 DEF TypeOK, InSigaction, Begin
<1>2. ASSUME NEW t \in Threads, SigactionInstall(t), NEW s \in Signals
      PROVE  InSigaction(s)' = IF s = arg[t].signal THEN {} ELSE InSigaction(s)
  <2>1. pc[t] # "out" /\ InSigaction(arg[t].signal) = {t} /\ pc' = [pc EXCEPT ![t] = "out"]
        /\ arg' = [arg EXCEPT ![t] = NoArg]
    BY <1>0, <1>2 DEF CallsApart, SigactionInstall
  <2>2. CASE s = arg[t].signal
    BY <1>0, <2>1, <2>2 DEF TypeOK, InSigaction
  <2>3. CASE s # arg[t].signal
    BY <1>0, <2>1, <2>3 DEF TypeOK, InSigaction
  <2> QED BY <2>2, <2>3
<1>3. ASSUME NEW t \in Threads, SigactionStore(t), NEW s \in Signals
      PROVE  InSigaction(s)' = InSigaction(s)
  BY <1>0, <1>3 DEF TypeOK, InSigaction, SigactionStore
<1>4. ASSUME UNCHANGED <<pc, arg>>, NEW s \in Signals
      PROVE  InSigaction(s)' = InSigaction(s)
  BY <1>4 DEF InSigaction
<1> QED BY <1>1, <1>2, <1>3, <1>4

\* The host's disposition and what was asked change together, and neither for a
\* signal that the host refuses.
LEMMA HostAgreesStep == DispositionsAgree /\ [Next]_vars => HostAgrees'
<1> SUFFICES ASSUME DispositionsAgree, [Next]_vars PROVE HostAgrees'
  OBVIOUS
<1>0. TypeOK /\ CallsApart /\ HostAgrees
  BY DEF DispositionsAgree
<1>1. ASSUME UNCHANGED <<host, asked>> PROVE HostAgrees'
  BY <1>0, <1>1 DEF HostAgrees
<1>2. ASSUME NEW t \in Threads, SigactionInstall(t) PROVE HostAgrees'
  <2> DEFINE r == arg[t].signal
             h == HostSignal(r)
  <2>1. CASE h \in {SIGKILL, SIGSTOP}
    BY <1>1, <1>2, <2>1 DEF SigactionInstall
  <2>2. CASE h \notin {SIGKILL, SIGSTOP}
    <3>1. r \in Signals /\ h \in HostSignals /\ h >= 0
      BY <1>0, <1>2, SignalFacts DEF CallsApart, SigactionInstall
    <3>2. /\ host' = [host EXCEPT ![h] = Disposition(arg[t].new)]
          /\ asked' = [asked EXCEPT ![r] = arg[t].new]
      BY <1>2, <2>2 DEF SigactionInstall
    <3>3. ASSUME NEW s \in Signals, HostSignal(s) >= 0
          PROVE  /\ host'[HostSignal(s)] = Disposition(asked'[s])
                 /\ HostSignal(s) \in {SIGKILL, SIGSTOP} => asked'[s] = NoAction
      <4>1. CASE s = r
        BY <1>0, <2>2, <3>1, <3>2, <4>1 DEF TypeOK
      <4>2. CASE s # r
        <5>1. HostSignal(s) # h
          BY <3>1, <3>3, <4>2, HostSignalFacts, SignalFacts
        <5> QED BY <1>0, <3>1, <3>2, <3>3, <4>2, <5>1 DEF TypeOK, HostAgrees
      <4> QED BY <4>1, <4>2
    <3> QED BY <3>3 DEF HostAgrees
  <2> QED BY <2>1, <2>2
<1>3. ASSUME NEW t \in Threads, NEW r \in Signals, Deliver(t, r) PROVE HostAgrees'
  <2> DEFINE h == HostSignal(r)
  <2>1. CASE ~host[h].resethand
    BY <1>1, <1>3, <2>1 DEF Deliver
  <2>2. CASE host[h].resethand
    <3>1. /\ h \in HostSignals /\ host[h] = Disposition(asked[r]) /\ asked[r] \in Action
          /\ h \notin {SIGKILL, SIGSTOP} /\ h >= 0
      BY <1>3, DeliverFacts DEF Deliver
    <3>2. /\ host' = [host EXCEPT ![h] = [disp |-> DFL, siginfo |-> FALSE,
                                          resethand |-> @.resethand, mask |-> @.mask]]
          /\ asked' = [asked EXCEPT ![r].handler = DFL]
      BY <1>3, <2>2 DEF Deliver
    <3>3. asked'[r] = [asked[r] EXCEPT !.handler = DFL]
      BY <1>0, <3>2 DEF TypeOK
    <3>4. host'[h] = Disposition(asked'[r])
      BY <1>0, <3>1, <3>2, <3>3, DispositionReset DEF TypeOK
    <3>5. ASSUME NEW s \in Signals, HostSignal(s) >= 0
          PROVE  /\ host'[HostSignal(s)] = Disposition(asked'[s])
                 /\ HostSignal(s) \in {SIGKILL, SIGSTOP} => asked'[s] = NoAction
      <4>1. CASE s = r
        BY <3>1, <3>4, <4>1
      <4>2. CASE s # r
        <5>1. HostSignal(s) # h
          BY <3>1, <3>5, <4>2, HostSignalFacts, SignalFacts
        <5> QED BY <1>0, <3>1, <3>2, <3>5, <4>2, <5>1 DEF TypeOK, HostAgrees
      <4> QED BY <4>1, <4>2
    <3> QED BY <3>5 DEF HostAgrees
  <2> QED BY <2>1, <2>2
<1>4. ASSUME NEW t \in Threads, SigactionStore(t) \/ Copy(t) \/ Run(t) PROVE HostAgrees'
  BY <1>1, <1>4 DEF SigactionStore, Copy, Enters, Run
<1>5. ASSUME NEW t \in Threads, NEW s \in Signals, NEW new \in Action, Begin(t, s, new)
      PROVE  HostAgrees'
  BY <1>1, <1>5 DEF Begin
<1>6. CASE UNCHANGED vars
  BY <1>1, <1>6 DEF vars
<1> QED BY <1>2, <1>3, <1>4, <1>5, <1>6, CallBegins DEF Next, Tgkill

\* The same, with the variables it depends on named.
Callers(p, a, s) == {v \in Threads : p[v] # "out" /\ a[v].signal = s}

\* InSigaction in terms of Callers, now and after the step.
LEMMA CallersFacts ==
  /\ \A s : InSigaction(s) = Callers(pc, arg, s)
  /\ \A s : InSigaction(s)' = Callers(pc', arg', s)
  /\ \A u \in Threads : InSigaction(arg[u].signal)' = Callers(pc', arg', arg'[u].signal)
BY DEF InSigaction, Callers

\* A call keeps its signal to itself, and nobody else stores in its entry.
LEMMA CallsApartStep == DispositionsAgree /\ [Next]_vars => CallsApart'
<1> SUFFICES ASSUME DispositionsAgree, [Next]_vars PROVE CallsApart'
  OBVIOUS
<1>0. TypeOK /\ CallsApart
  BY DEF DispositionsAgree
<1>1. ASSUME UNCHANGED <<pc, arg, actions>> PROVE CallsApart'
  BY <1>0, <1>1 DEF CallsApart, InSigaction
<1>2. ASSUME NEW t \in Threads, NEW r \in Signals, NEW new \in Action, Begin(t, r, new)
      PROVE  CallsApart'
  <2>1. /\ HostSignal(r) >= 0 /\ InSigaction(r) = {} /\ pc[t] = "out"
        /\ pc' = [pc EXCEPT ![t] = "store"] /\ actions' = actions
        /\ arg' = [arg EXCEPT ![t] = [signal |-> r, new |-> new]]
    BY <1>2 DEF Begin
  <2>2. \A s \in Signals : Callers(pc', arg', s) = IF s = r THEN {t} ELSE InSigaction(s)
    BY <1>2, InSigactionFacts, CallersFacts
  <2>3. ASSUME NEW u \in Threads, pc'[u] # "out"
        PROVE  /\ arg'[u].signal \in Signals /\ HostSignal(arg'[u].signal) >= 0
               /\ Callers(pc', arg', arg'[u].signal) = {u}
               /\ pc'[u] = "install" => actions'[arg'[u].signal] = arg'[u].new
    <3>1. CASE u = t
      BY <1>0, <2>1, <2>2, <3>1 DEF TypeOK
    <3>2. CASE u # t
      <4>1. pc'[u] = pc[u] /\ arg'[u] = arg[u] /\ pc[u] # "out"
        BY <1>0, <2>1, <2>3, <3>2 DEF TypeOK
      <4>2. arg[u].signal # r
        BY <1>0, <2>1, <4>1 DEF InSigaction
      <4> QED BY <1>0, <2>1, <2>2, <4>1, <4>2 DEF CallsApart
    <3> QED BY <3>1, <3>2
  <2> QED BY <2>3, CallersFacts DEF CallsApart
<1>3. ASSUME NEW t \in Threads, SigactionStore(t) PROVE CallsApart'
  <2>1. /\ pc[t] = "store" /\ pc' = [pc EXCEPT ![t] = "install"] /\ arg' = arg
        /\ actions' = [actions EXCEPT ![arg[t].signal] = arg[t].new]
    BY <1>3 DEF SigactionStore
  <2>2. \A s \in Signals : Callers(pc', arg', s) = InSigaction(s)
    BY <1>3, InSigactionFacts, CallersFacts
  <2>3. ASSUME NEW u \in Threads, pc'[u] # "out"
        PROVE  /\ arg'[u].signal \in Signals /\ HostSignal(arg'[u].signal) >= 0
               /\ Callers(pc', arg', arg'[u].signal) = {u}
               /\ pc'[u] = "install" => actions'[arg'[u].signal] = arg'[u].new
    <3>1. pc[u] # "out"
      BY <1>0, <2>1, <2>3 DEF TypeOK
    <3>2. /\ arg[u].signal \in Signals /\ arg[u].signal \in Indices
          /\ HostSignal(arg[u].signal) >= 0 /\ Callers(pc', arg', arg[u].signal) = {u}
      BY <1>0, <2>2, <3>1, SignalFacts DEF CallsApart
    <3>3. pc'[u] = "install" => actions'[arg'[u].signal] = arg'[u].new
      <4>1. CASE u = t
        BY <1>0, <2>1, <3>2, <4>1 DEF TypeOK
      <4>2. CASE u # t
        <5>1. arg[u].signal # arg[t].signal
          BY <1>0, <2>1, <3>1, <4>2 DEF CallsApart
        <5> QED BY <1>0, <2>1, <3>1, <3>2, <4>2, <5>1 DEF TypeOK, CallsApart
      <4> QED BY <4>1, <4>2
    <3> QED BY <2>1, <3>2, <3>3
  <2> QED BY <2>3, CallersFacts DEF CallsApart
<1>4. ASSUME NEW t \in Threads, SigactionInstall(t) PROVE CallsApart'
  <2>1. /\ pc[t] = "install" /\ pc' = [pc EXCEPT ![t] = "out"] /\ actions' = actions
        /\ arg' = [arg EXCEPT ![t] = NoArg]
    BY <1>4 DEF SigactionInstall
  <2>2. \A s \in Signals : Callers(pc', arg', s) = IF s = arg[t].signal THEN {} ELSE InSigaction(s)
    BY <1>4, InSigactionFacts, CallersFacts
  <2>3. ASSUME NEW u \in Threads, pc'[u] # "out"
        PROVE  /\ arg'[u].signal \in Signals /\ HostSignal(arg'[u].signal) >= 0
               /\ Callers(pc', arg', arg'[u].signal) = {u}
               /\ pc'[u] = "install" => actions'[arg'[u].signal] = arg'[u].new
    <3>1. u # t /\ pc'[u] = pc[u] /\ arg'[u] = arg[u] /\ pc[u] # "out"
      BY <1>0, <2>1, <2>3 DEF TypeOK
    <3>2. arg[u].signal # arg[t].signal
      BY <1>0, <2>1, <3>1 DEF CallsApart
    <3> QED BY <1>0, <2>1, <2>2, <3>1, <3>2 DEF CallsApart
  <2> QED BY <2>3, CallersFacts DEF CallsApart
<1>5. ASSUME NEW t \in Threads, Copy(t) \/ Run(t) PROVE CallsApart'
  BY <1>1, <1>5 DEF Copy, Enters, Run
<1>6. ASSUME NEW t \in Threads, NEW s \in Signals, Deliver(t, s) PROVE CallsApart'
  BY <1>1, <1>6 DEF Deliver
<1>7. CASE UNCHANGED vars
  BY <1>1, <1>7 DEF vars
<1> QED BY <1>2, <1>3, <1>4, <1>5, <1>6, <1>7, CallBegins DEF Next, Tgkill

\* The table follows what was asked, but for a handler that has been used up.
LEMMA TableAgreesStep == DispositionsAgree /\ [Next]_vars => TableAgrees'
<1> SUFFICES ASSUME DispositionsAgree, [Next]_vars,
                    NEW s \in Signals, \A v \in Callers(pc', arg', s) : pc'[v] # "install",
                    HostSignal(s) \notin {SIGKILL, SIGSTOP}
             PROVE  \/ actions'[s] = asked'[s]
                    \/ actions'[s].resethand /\ asked'[s].handler = DFL
  BY CallersFacts DEF TableAgrees
<1>0. TypeOK /\ CallsApart /\ HostAgrees /\ TableAgrees
  BY DEF DispositionsAgree
<1> DEFINE Settled == \A v \in Callers(pc, arg, s) : pc[v] # "install"
<1>1. Settled => \/ actions[s] = asked[s]
                 \/ actions[s].resethand /\ asked[s].handler = DFL
  BY <1>0, CallersFacts DEF TableAgrees
<1>2. ASSUME NEW t \in Threads, NEW r \in Signals, NEW new \in Action, Begin(t, r, new)
      PROVE  Settled /\ UNCHANGED <<actions, asked>>
  <2>1. /\ InSigaction(r) = {} /\ pc[t] = "out" /\ pc' = [pc EXCEPT ![t] = "store"]
        /\ UNCHANGED <<actions, asked>>
    BY <1>2 DEF Begin
  <2>2. Callers(pc', arg', s) = IF s = r THEN {t} ELSE Callers(pc, arg, s)
    BY <1>2, InSigactionFacts, CallersFacts
  <2>3. CASE s = r
    BY <2>1, <2>3, CallersFacts
  <2>4. CASE s # r
    BY <1>0, <2>1, <2>2, <2>4 DEF TypeOK, Callers
  <2> QED BY <2>1, <2>3, <2>4
<1>3. ASSUME NEW t \in Threads, SigactionStore(t)
      PROVE  Settled /\ actions'[s] = actions[s] /\ asked' = asked
  <2>1. /\ pc[t] = "store" /\ pc' = [pc EXCEPT ![t] = "install"] /\ UNCHANGED <<arg, asked>>
        /\ actions' = [actions EXCEPT ![arg[t].signal] = arg[t].new]
    BY <1>3 DEF SigactionStore
  <2>2. s # arg[t].signal
    BY <1>0, <2>1 DEF TypeOK, Callers
  <2>3. Settled
    BY <1>0, <2>1 DEF TypeOK, Callers
  <2>4. actions'[s] = actions[s]
    BY <1>0, <2>1, <2>2, SignalFacts DEF TypeOK
  <2> QED BY <2>1, <2>3, <2>4
<1>4. ASSUME NEW t \in Threads, SigactionInstall(t)
      PROVE  \/ actions'[s] = asked'[s]
             \/ Settled /\ actions'[s] = actions[s] /\ asked'[s] = asked[s]
  <2> DEFINE r == arg[t].signal
  <2>1. /\ pc[t] = "install" /\ pc' = [pc EXCEPT ![t] = "out"] /\ actions' = actions
        /\ arg' = [arg EXCEPT ![t] = NoArg]
        /\ r \in Signals /\ actions[r] = arg[t].new
    BY <1>0, <1>4 DEF SigactionInstall, CallsApart
  <2>2. CASE s = r
    <3>1. asked' = [asked EXCEPT ![r] = arg[t].new]
      BY <1>4, <2>2 DEF SigactionInstall
    <3> QED BY <1>0, <2>1, <2>2, <3>1 DEF TypeOK
  <2>3. CASE s # r
    <3>1. asked'[s] = asked[s]
      BY <1>0, <1>4, <2>1, <2>3 DEF SigactionInstall, TypeOK
    <3>2. Settled
      BY <1>0, <2>1, <2>3 DEF TypeOK, Callers
    <3> QED BY <2>1, <3>1, <3>2
  <2> QED BY <2>2, <2>3
<1>5. ASSUME NEW t \in Threads, NEW r \in Signals, Deliver(t, r)
      PROVE  /\ Settled /\ actions' = actions
             /\ \/ asked'[s] = asked[s]
                \/ asked'[s].handler = DFL /\ asked[s].resethand
  <2>1. UNCHANGED <<pc, arg, actions>>
    BY <1>5 DEF Deliver
  <2>2. Settled
    BY <2>1
  <2>3. host[HostSignal(r)].resethand = asked[r].resethand
    BY <1>5, DeliverFacts
  <2>4. CASE host[HostSignal(r)].resethand
    <3>1. asked' = [asked EXCEPT ![r].handler = DFL]
      BY <1>5, <2>4 DEF Deliver
    <3>2. s = r => asked'[s].handler = DFL
      BY <1>0, <3>1 DEF TypeOK, Action
    <3>3. s # r => asked'[s] = asked[s]
      BY <1>0, <3>1 DEF TypeOK
    <3> QED BY <2>1, <2>2, <2>3, <2>4, <3>2, <3>3
  <2>5. CASE ~host[HostSignal(r)].resethand
    BY <1>5, <2>1, <2>2, <2>5 DEF Deliver
  <2> QED BY <2>4, <2>5
<1>6. ASSUME NEW t \in Threads, Copy(t) \/ Run(t)
      PROVE  Settled /\ UNCHANGED <<actions, asked>>
  <2>1. UNCHANGED <<pc, arg, actions, asked>>
    BY <1>6 DEF Copy, Enters, Run
  <2> QED BY <2>1
<1>7. CASE UNCHANGED vars
  <2>1. UNCHANGED <<pc, arg, actions, asked>>
    BY <1>7 DEF vars
  <2> QED BY <1>1, <2>1
<1>8. ASSUME NEW t \in Threads, NEW r \in Signals, SigactionCall(t, r) \/ SignalCall(t, r)
      PROVE  Settled /\ UNCHANGED <<actions, asked>>
  BY <1>2, <1>8, CallBegins
<1> HIDE DEF Settled
<1>9. ASSUME NEW t \in Threads, NEW r \in Signals, Deliver(t, r)
      PROVE  \/ actions'[s] = asked'[s]
             \/ actions'[s].resethand /\ asked'[s].handler = DFL
  BY <1>1, <1>5, <1>9
<1>10. ASSUME NEW t \in Threads,
              SigactionStore(t) \/ SigactionInstall(t) \/ Copy(t) \/ Run(t)
       PROVE  \/ actions'[s] = asked'[s]
              \/ actions'[s].resethand /\ asked'[s].handler = DFL
  BY <1>1, <1>3, <1>4, <1>6, <1>10
<1> QED BY <1>1, <1>7, <1>8, <1>9, <1>10 DEF Next, Tgkill

\* What a delivery finds in the table, and what it has copied.
LEMMA CleanDeliveryStep ==
  DispositionsAgree /\ CleanDelivery /\ [Next]_vars => CleanDelivery'
<1> SUFFICES ASSUME DispositionsAgree, CleanDelivery, [Next]_vars PROVE CleanDelivery'
  OBVIOUS
<1>0. TypeOK /\ CallsApart /\ TableAgrees
  BY DEF DispositionsAgree
<1> DEFINE And(u)    == AndroidSignal(sig[u])
           Calm(u)   == at[u] = "entered" /\ promise[u] # NoAction
           Served(u) == at[u] = "copied" /\ promise[u] # NoAction
           Good(u) == /\ at'[u] # "none" => sig'[u] \in HostSignals
                      /\ at'[u] = "entered" /\ promise'[u] # NoAction =>
                           /\ Callers(pc', arg', AndroidSignal(sig'[u])) = {}
                           /\ actions'[AndroidSignal(sig'[u])] = promise'[u]
                           /\ promise'[u].handler \in Handlers
                      /\ at'[u] = "copied" /\ promise'[u] # NoAction =>
                           copy'[u] = promise'[u] /\ copy'[u].handler \in Handlers
<1>1. (\A u \in Threads : Good(u)) => CleanDelivery'
  <2>1. \A v \in Threads :
          InSigaction(AndroidSignal(sig[v]))' = Callers(pc', arg', AndroidSignal(sig'[v]))
    BY DEF InSigaction, Callers, AndroidSignal, HostSignal
  <2> QED BY <2>1 DEF CleanDelivery, BeforeCopy, AfterCopy
<1>2. ASSUME NEW u \in Threads
      PROVE  /\ at[u] # "none" =>
                  sig[u] \in HostSignals /\ And(u) \in Signals /\ HostSignal(And(u)) = sig[u]
             /\ Calm(u) => /\ Callers(pc, arg, And(u)) = {} /\ actions[And(u)] = promise[u]
                           /\ promise[u].handler \in Handlers
             /\ Served(u) => copy[u] = promise[u] /\ copy[u].handler \in Handlers
  BY AndroidSignalType, CallersFacts DEF CleanDelivery, BeforeCopy, AfterCopy
\* A step that leaves u's delivery, its entry and its callers alone.
<1>3. ASSUME NEW u \in Threads, at'[u] = at[u], sig'[u] = sig[u], copy'[u] = copy[u],
             promise'[u] = promise[u] \/ promise'[u] = NoAction,
             Calm(u) /\ promise'[u] # NoAction =>
               /\ Callers(pc', arg', And(u)) = {} /\ actions'[And(u)] = actions[And(u)]
      PROVE  Good(u)
  BY <1>2, <1>3
<1>4. ASSUME NEW t \in Threads, NEW r \in Signals, NEW new \in Action, Begin(t, r, new),
             NEW u \in Threads
      PROVE  Good(u)
  <2>1. /\ UNCHANGED <<actions, at, sig, copy>>
        /\ promise'[u] = IF sig[u] = HostSignal(r) THEN NoAction ELSE promise[u]
    BY <1>4 DEF Begin
  <2>2. \A s \in Signals : Callers(pc', arg', s) = IF s = r THEN {t} ELSE Callers(pc, arg, s)
    BY <1>4, InSigactionFacts, CallersFacts
  <2>3. ASSUME Calm(u), promise'[u] # NoAction PROVE Callers(pc', arg', And(u)) = {}
    <3>1. And(u) \in Signals /\ And(u) # r /\ Callers(pc, arg, And(u)) = {}
      BY <1>2, <2>1, <2>3
    <3> QED BY <2>2, <3>1
  <2> QED BY <1>3, <2>1, <2>3
<1>5. ASSUME NEW t \in Threads, SigactionStore(t), NEW u \in Threads PROVE Good(u)
  <2>1. /\ UNCHANGED <<at, sig, copy, promise>> /\ pc[t] = "store"
        /\ actions' = [actions EXCEPT ![arg[t].signal] = arg[t].new]
    BY <1>5 DEF SigactionStore
  <2>2. ASSUME Calm(u)
        PROVE  Callers(pc', arg', And(u)) = {} /\ actions'[And(u)] = actions[And(u)]
    <3>1. And(u) \in Signals /\ Callers(pc, arg, And(u)) = {}
      BY <1>2, <2>2
    <3>2. Callers(pc', arg', And(u)) = {}
      BY <1>5, <3>1, InSigactionFacts, CallersFacts
    <3>3. arg[t].signal # And(u)
      BY <2>1, <3>1 DEF Callers
    <3> QED BY <1>0, <2>1, <3>1, <3>2, <3>3, SignalFacts DEF TypeOK
  <2> QED BY <1>3, <2>1, <2>2
<1>6. ASSUME NEW t \in Threads, SigactionInstall(t), NEW u \in Threads PROVE Good(u)
  <2>1. UNCHANGED <<actions, at, sig, copy, promise>>
    BY <1>6 DEF SigactionInstall
  <2>2. ASSUME Calm(u) PROVE Callers(pc', arg', And(u)) = {}
    BY <1>2, <1>6, <2>2, InSigactionFacts, CallersFacts
  <2> QED BY <1>3, <2>1, <2>2
<1>7. ASSUME NEW t \in Threads, NEW r \in Signals, Deliver(t, r), NEW u \in Threads
      PROVE  Good(u)
  <2>1. /\ UNCHANGED <<actions, pc, arg, copy>> /\ at' = [at EXCEPT ![t] = "entered"]
        /\ sig' = [sig EXCEPT ![t] = HostSignal(r)]
        /\ promise' = [promise EXCEPT ![t] =
                         IF InSigaction(r) = {} THEN asked[r] ELSE NoAction]
    BY <1>7 DEF Deliver
  <2>2. CASE u = t
    <3>1. /\ at'[u] = "entered" /\ sig'[u] = HostSignal(r)
          /\ promise'[u] = IF InSigaction(r) = {} THEN asked[r] ELSE NoAction
      BY <1>0, <2>1, <2>2 DEF TypeOK
    <3>2. AndroidSignal(HostSignal(r)) = r
      BY <1>7, AndroidSignalInverts, SignalFacts DEF Deliver
    <3>3. ASSUME InSigaction(r) = {}
          PROVE  Callers(pc', arg', r) = {} /\ actions'[r] = asked[r]
      <4>1. actions[r] = asked[r] \/ asked[r].handler = DFL
        BY <1>0, <1>7, <3>3, DeliverFacts DEF TableAgrees
      <4>2. asked[r].handler # DFL
        BY <1>7, DeliverFacts, SignalAssumption
      <4> QED BY <2>1, <3>3, <4>1, <4>2, CallersFacts
    <3>4. HostSignal(r) \in HostSignals /\ asked[r].handler \in Handlers
      BY <1>7, DeliverFacts
    <3> QED BY <3>1, <3>2, <3>3, <3>4
  <2>3. CASE u # t
    <3>1. at'[u] = at[u] /\ sig'[u] = sig[u] /\ promise'[u] = promise[u]
      BY <1>0, <2>1, <2>3 DEF TypeOK
    <3> QED BY <1>2, <1>3, <2>1, <3>1
  <2> QED BY <2>2, <2>3
<1>8. ASSUME NEW t \in Threads, Copy(t), NEW u \in Threads PROVE Good(u)
  <2>1. PICK c : Enters(t, c) /\ (c = actions[And(t)] \/ InSigaction(And(t)) # {})
    BY <1>8 DEF Copy
  <2>2. /\ UNCHANGED <<actions, pc, arg, sig, promise>> /\ at[t] = "entered"
        /\ at' = [at EXCEPT ![t] = "copied"] /\ copy' = [copy EXCEPT ![t] = c]
    BY <1>8, <2>1 DEF Copy, Enters
  <2>3. CASE u = t
    <3>1. at'[u] = "copied" /\ copy'[u] = c
      BY <1>0, <2>2, <2>3 DEF TypeOK
    <3>2. promise[u] # NoAction => c = promise[u]
      BY <1>2, <2>1, <2>2, <2>3, CallersFacts
    <3> QED BY <1>2, <2>2, <2>3, <3>1, <3>2
  <2>4. CASE u # t
    <3>1. at'[u] = at[u] /\ copy'[u] = copy[u]
      BY <1>0, <2>2, <2>4 DEF TypeOK
    <3> QED BY <1>2, <1>3, <2>2, <3>1
  <2> QED BY <2>3, <2>4
<1>9. ASSUME NEW t \in Threads, Run(t), NEW u \in Threads PROVE Good(u)
  <2>1. /\ UNCHANGED <<actions, pc, arg>> /\ at' = [at EXCEPT ![t] = "none"]
        /\ sig' = [sig EXCEPT ![t] = 0] /\ copy' = [copy EXCEPT ![t] = NoAction]
        /\ promise' = [promise EXCEPT ![t] = NoAction]
    BY <1>9 DEF Run
  <2>2. CASE u = t
    BY <1>0, <2>1, <2>2 DEF TypeOK
  <2>3. CASE u # t
    <3>1. /\ at'[u] = at[u] /\ sig'[u] = sig[u] /\ copy'[u] = copy[u]
          /\ promise'[u] = promise[u]
      BY <1>0, <2>1, <2>3 DEF TypeOK
    <3> QED BY <1>2, <1>3, <2>1, <3>1
  <2> QED BY <2>2, <2>3
<1>10. ASSUME UNCHANGED vars, NEW u \in Threads PROVE Good(u)
  <2>1. UNCHANGED <<actions, pc, arg, at, sig, copy, promise>>
    BY <1>10 DEF vars
  <2> QED BY <1>2, <1>3, <2>1
<1>11. ASSUME NEW t \in Threads, NEW r \in Signals, SigactionCall(t, r) \/ SignalCall(t, r),
              NEW u \in Threads
       PROVE  Good(u)
  BY <1>4, <1>11, CallBegins
<1> HIDE DEF Good
<1> QED
  BY <1>1, <1>5, <1>6, <1>7, <1>8, <1>9, <1>10, <1>11 DEF Next, Tgkill

\* The two invariants hold together: a delivery relies on the table, and nothing
\* in the table on a delivery.
LEMMA SigactionTogether == Spec => [](DispositionsAgree /\ CleanDelivery)
<1>1. Init => DispositionsAgree /\ CleanDelivery
  <2> SUFFICES ASSUME Init PROVE DispositionsAgree /\ CleanDelivery
    OBVIOUS
  <2>1. NoAction \in Action /\ Disposition(NoAction) \in HostAction
    BY ActionFacts, DispositionType
  <2>2. TypeOK
    BY <2>1 DEF Init, TypeOK, NoArg, HostAction
  <2>3. HostAgrees /\ TableAgrees
    BY SignalFacts DEF Init, HostAgrees, TableAgrees, InSigaction
  <2>4. CallsApart /\ CleanDelivery
    BY DEF Init, CallsApart, CleanDelivery, BeforeCopy, AfterCopy
  <2> QED BY <2>2, <2>3, <2>4 DEF DispositionsAgree
<1>2. DispositionsAgree /\ CleanDelivery /\ [Next]_vars => DispositionsAgree' /\ CleanDelivery'
  BY SigactionTypeStep, HostAgreesStep, TableAgreesStep, CallsApartStep, CleanDeliveryStep
     DEF DispositionsAgree
<1> QED BY <1>1, <1>2, PTL DEF Spec

\* Between the calls of a2i_sigaction the host's dispositions are what the program
\* last asked for, used-up and refused actions included; so is the table of Android
\* actions, but for these two, of which it keeps what was stored.
THEOREM SigactionInvariant == Spec => []DispositionsAgree
BY SigactionTogether, PTL

\* A signal that no sigaction overlaps is treated by the handler that was asked
\* for, in the form it was asked for.
THEOREM DeliveriesAreClean == Spec => []CleanDelivery
BY SigactionTogether, PTL
=============================================================================
