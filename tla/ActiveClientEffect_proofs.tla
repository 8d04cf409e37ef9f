---------------------- MODULE ActiveClientEffect_proofs ----------------------
(***************************************************************************)
(* Proofs about ActiveClientEffect, for every set of windows, titles and   *)
(* classes and every bound on the pending callbacks.                       *)
(***************************************************************************)
EXTENDS ActiveClientEffect, SequenceTheorems, TLAPS

USE BoundAssumption

-----------------------------------------------------------------------------
(* Lemmas about the data operators.                                        *)

\* Removing the callback that runs leaves a queue one shorter.
LEMMA DropTimerType ==
    ASSUME NEW S, NEW s \in Seq(S), NEW i \in 1..Len(s)
    PROVE  /\ DropTimer(s, i) \in Seq(S)
           /\ Len(DropTimer(s, i)) = Len(s) - 1
<1> DEFINE front == SubSeq(s, 1, i - 1)
           back  == SubSeq(s, i + 1, Len(s))
<1>1. Len(s) \in Nat /\ \A j \in 1..Len(s) : s[j] \in S
  BY LenProperties
<1>2. front \in Seq(S) /\ Len(front) = i - 1
  BY <1>1, SubSeqProperties
<1>3. back \in Seq(S) /\ Len(back) = Len(s) - i
  BY <1>1, SubSeqProperties
<1>4. front \o back \in Seq(S) /\ Len(front \o back) = Len(front) + Len(back)
  BY <1>2, <1>3, ConcatProperties
<1> HIDE DEF front, back
<1>5. Len(front \o back) = Len(s) - 1
  BY <1>1, <1>2, <1>3, <1>4
<1> QED
  BY <1>4, <1>5 DEF DropTimer, front, back

\* Appending a callback to a queue below the bound keeps it within it.
LEMMA AppendTimerType ==
    ASSUME NEW tq \in Seq(Timers), Len(tq) < MaxTimers, NEW tm \in Timers
    PROVE  Append(tq, tm) \in Seq(Timers) /\ Len(Append(tq, tm)) <= MaxTimers
BY AppendProperties

\* The three quick retries are 50, 100 and 200 ms away.
LEMMA RetryDelayRange ==
    ASSUME NEW n \in 1..3
    PROVE  RetryDelay(n) \in 0..PollInterval
<1>1. CASE n = 1
  <2>1. 2^0 = 1  OBVIOUS
  <2> QED  BY <1>1, <2>1 DEF RetryDelay, PollInterval
<1>2. CASE n = 2
  <2>1. 2^1 = 2  OBVIOUS
  <2> QED  BY <1>2, <2>1 DEF RetryDelay, PollInterval
<1>3. CASE n = 3
  <2>1. 2^2 = 4  OBVIOUS
  <2> QED  BY <1>3, <2>1 DEF RetryDelay, PollInterval
<1> QED
  BY <1>1, <1>2, <1>3

\* The retry lambda's timer for attempts 1..3 is a well-formed pending callback.
LEMMA RetryTimerType ==
    ASSUME NEW n \in 1..3
    PROVE  Timer("retry", n, RetryDelay(n)) \in Timers
BY RetryDelayRange DEF Timer, Timers, Callbacks

\* pollWindowTitle's 500 ms timer is a well-formed pending callback.
LEMMA PollTimerType ==
    Timer("pollWindowTitle", 0, PollInterval) \in Timers
BY DEF Timer, Timers, Callbacks, PollInterval

\* A signal read from a window is well formed, and so is the view it sets.
LEMMA SignalType ==
    ASSUME caption \in [Win -> Titles], NEW k \in Kinds, NEW w \in Win
    PROVE  /\ Signal(k, w) \in Signals
           /\ <<WinClass[w], caption[w]>> \in Views
BY TitleAssumption DEF Signal, Signals, Views

\* Sending a signal read from a window keeps sent and view well formed.
LEMMA SendSignalType ==
    ASSUME view \in Views, caption \in [Win -> Titles],
           NEW k \in Kinds, NEW w \in Win, Send(Signal(k, w))
    PROVE  sent' \in Signals \cup {NoSignal} /\ view' \in Views
<1>1. Signal(k, w) \in Signals /\ <<WinClass[w], caption[w]>> \in Views
  BY SignalType
<1>2. sent' = Signal(k, w) /\ view' \in {view, <<WinClass[w], caption[w]>>}
  BY DEF Send, Signal
<1> QED
  BY <1>1, <1>2

\* A slot that sends nothing keeps sent and view well formed.
LEMMA SendNothingType ==
    ASSUME view \in Views, SendNothing
    PROVE  sent' \in Signals \cup {NoSignal} /\ view' \in Views
BY DEF SendNothing

-----------------------------------------------------------------------------
(* Type correctness.                                                       *)

\* The part of TypeOK that the effect's slots write.
SlotTypeOK ==
    /\ lastActiveWindow \in Win \cup {None}
    /\ polledWindows \subseteq Win
    /\ timers \in Seq(Timers)
    /\ Len(timers) <= MaxTimers
    /\ sent \in Signals \cup {NoSignal}
    /\ view \in Views

\* onActiveClientChanged keeps its state well formed, its retry within MaxTimers.
LEMMA OnActiveClientChangedType ==
    ASSUME TypeOK, NEW a \in Win \cup {None}, NEW tq \in Seq(Timers),
           Len(tq) <= MaxTimers, OnActiveClientChanged(a, tq)
    PROVE  SlotTypeOK'
<1> USE DEF TypeOK
<1>1. CASE a = None
  <2>1. SendNothing /\ timers' = tq
        /\ UNCHANGED <<lastActiveWindow, polledWindows>>
    BY <1>1 DEF OnActiveClientChanged
  <2> QED  BY <2>1, SendNothingType DEF SlotTypeOK
<1>2. CASE a # None
  <2>1. Send(Signal("Changed", a))
    BY <1>2 DEF OnActiveClientChanged
  <2>2. sent' \in Signals \cup {NoSignal} /\ view' \in Views
    BY <1>2, <2>1, SendSignalType DEF Kinds
  <2>3. CASE Usable(a)
    <3>1. lastActiveWindow' = None /\ timers' = tq /\ UNCHANGED polledWindows
      BY <1>2, <2>3 DEF OnActiveClientChanged
    <3> QED  BY <2>2, <3>1 DEF SlotTypeOK
  <2>4. CASE ~Usable(a)
    <3>1. /\ Len(tq) < MaxTimers
          /\ lastActiveWindow' = a
          /\ polledWindows' = polledWindows \cup {a}
          /\ timers' = Append(tq, Timer("retry", 1, RetryDelay(1)))
      BY <1>2, <2>4 DEF OnActiveClientChanged
    <3>2. timers' \in Seq(Timers) /\ Len(timers') <= MaxTimers
      BY <3>1, RetryTimerType, AppendTimerType
    <3> QED  BY <1>2, <2>2, <3>1, <3>2 DEF SlotTypeOK
  <2> QED  BY <2>3, <2>4
<1> QED
  BY <1>1, <1>2

\* The retry lambda, with retryActiveWindowTitle(attempt + 1), keeps its state
\* well formed.
LEMMA RetryLambdaType ==
    ASSUME TypeOK, NEW n \in 0..3, NEW tq \in Seq(Timers),
           Len(tq) < MaxTimers, RetryLambda(n, tq)
    PROVE  SlotTypeOK'
<1> USE DEF TypeOK
<1>1. CASE lastActiveWindow = None
  <2>1. SendNothing /\ timers' = tq
        /\ UNCHANGED <<lastActiveWindow, polledWindows>>
    BY <1>1 DEF RetryLambda
  <2>2. sent' \in Signals \cup {NoSignal} /\ view' \in Views
    BY <2>1, SendNothingType
  <2> QED  BY <2>1, <2>2 DEF SlotTypeOK
<1>2. CASE lastActiveWindow # None /\ Usable(lastActiveWindow)
  <2>1. /\ Send(Signal("Changed", lastActiveWindow))
        /\ polledWindows' = polledWindows \ {lastActiveWindow}
        /\ lastActiveWindow' = None
        /\ timers' = tq
    BY <1>2 DEF RetryLambda
  <2>2. sent' \in Signals \cup {NoSignal} /\ view' \in Views
    BY <1>2, <2>1, SendSignalType DEF Kinds
  <2> QED  BY <2>1, <2>2 DEF SlotTypeOK
<1>3. CASE lastActiveWindow # None /\ ~Usable(lastActiveWindow)
  <2>1. SendNothing /\ RetryActiveWindowTitle(n + 1, tq)
    BY <1>3 DEF RetryLambda
  <2>2. sent' \in Signals \cup {NoSignal} /\ view' \in Views
    BY <2>1, SendNothingType
  <2>3. CASE /\ polledWindows' = polledWindows \ {lastActiveWindow}
             /\ lastActiveWindow' = None
             /\ timers' = tq
    BY <2>2, <2>3 DEF SlotTypeOK
  <2>4. CASE /\ timers' = Append(tq, Timer("pollWindowTitle", 0, PollInterval))
             /\ UNCHANGED <<lastActiveWindow, polledWindows>>
    BY <2>2, <2>4, PollTimerType, AppendTimerType DEF SlotTypeOK
  <2>5. CASE /\ n + 1 <= 3
             /\ timers' = Append(tq, Timer("retry", n + 1, RetryDelay(n + 1)))
             /\ UNCHANGED <<lastActiveWindow, polledWindows>>
    <3>1. n + 1 \in 1..3
      BY <2>5
    <3>2. Timer("retry", n + 1, RetryDelay(n + 1)) \in Timers
      BY <3>1, RetryTimerType
    <3> QED
      BY <2>2, <2>5, <3>2, AppendTimerType DEF SlotTypeOK
  <2> QED
    BY <2>1, <2>3, <2>4, <2>5 DEF RetryActiveWindowTitle
<1> QED
  BY <1>1, <1>2, <1>3

\* pollWindowTitle keeps its state well formed, re-armed or not.
LEMMA PollWindowTitleType ==
    ASSUME TypeOK, NEW tq \in Seq(Timers), Len(tq) < MaxTimers,
           PollWindowTitle(tq)
    PROVE  SlotTypeOK'
<1> USE DEF TypeOK
<1>1. UNCHANGED lastActiveWindow /\ polledWindows' \subseteq polledWindows
  BY DEF PollWindowTitle
<1>2. CASE ~(active # None /\ active \in polledWindows)
  <2>1. SendNothing /\ timers' = tq
    BY <1>2 DEF PollWindowTitle
  <2> QED  BY <1>1, <2>1, SendNothingType DEF SlotTypeOK
<1>3. CASE active # None /\ active \in polledWindows /\ Usable(active)
  <2>1. Send(Signal("Changed", active)) /\ timers' = tq
    BY <1>3 DEF PollWindowTitle
  <2>2. sent' \in Signals \cup {NoSignal} /\ view' \in Views
    BY <1>3, <2>1, SendSignalType DEF Kinds
  <2> QED  BY <1>1, <2>1, <2>2 DEF SlotTypeOK
<1>4. CASE active # None /\ active \in polledWindows /\ ~Usable(active)
  <2>1. SendNothing
        /\ timers' = Append(tq, Timer("pollWindowTitle", 0, PollInterval))
    BY <1>4 DEF PollWindowTitle
  <2> QED
    BY <1>1, <2>1, SendNothingType, PollTimerType, AppendTimerType
       DEF SlotTypeOK
<1> QED
  BY <1>2, <1>3, <1>4

\* emitInitialState keeps its state well formed.
LEMMA EmitInitialStateType ==
    ASSUME TypeOK, NEW tq \in Seq(Timers), Len(tq) <= MaxTimers,
           EmitInitialState(tq)
    PROVE  SlotTypeOK'
<1> USE DEF TypeOK
<1>1. timers' = tq /\ UNCHANGED <<lastActiveWindow, polledWindows>>
  BY DEF EmitInitialState
<1>2. CASE active # None
  <2>1. Send(Signal("Initial", active))
    BY <1>2 DEF EmitInitialState
  <2> QED  BY <1>1, <1>2, <2>1, SendSignalType DEF SlotTypeOK, Kinds
<1>3. CASE active = None
  <2>1. SendNothing
    BY <1>3 DEF EmitInitialState
  <2> QED  BY <1>1, <2>1, SendNothingType DEF SlotTypeOK
<1> QED
  BY <1>2, <1>3

\* Time passing keeps every pending callback's delay within 0..500.
LEMMA TickType ==
    ASSUME TypeOK, Tick
    PROVE  timers' \in Seq(Timers) /\ Len(timers') = Len(timers)
<1> USE DEF TypeOK
<1>1. Len(timers) \in Nat /\ DOMAIN timers = 1..Len(timers)
      /\ \A i \in 1..Len(timers) : timers[i] \in Timers
  BY LenProperties
<1>2. \A i \in 1..Len(timers) :
        [timers[i] EXCEPT !.due = @ - TimeStep] \in Timers
  <2> TAKE i \in 1..Len(timers)
  <2>1. timers[i] \in Timers /\ timers[i].due >= TimeStep
    BY <1>1 DEF Tick
  <2>2. timers[i].due \in 0..PollInterval
    BY <2>1 DEF Timers
  <2>3. timers[i].due - TimeStep \in 0..PollInterval
    <3> DEFINE d == timers[i].due
    <3>1. d \in 0..500 /\ d >= TimeStep /\ TimeStep \in Nat
      BY <2>1, <2>2, BoundAssumption DEF PollInterval
    <3>2. d - TimeStep \in 0..500
      <4> HIDE DEF d
      <4> QED BY <3>1
    <3> QED BY <3>2 DEF PollInterval
  <2> QED
    BY <2>1, <2>3 DEF Timers
<1>3. timers' = [i \in 1..Len(timers) |->
                   [timers[i] EXCEPT !.due = @ - TimeStep]]
  BY <1>1 DEF Tick
<1>4. timers' \in [1..Len(timers) -> Timers]
  BY <1>2, <1>3
<1>5. timers' \in Seq(Timers)
  BY <1>1, <1>4, SeqDef
<1>6. DOMAIN timers' = 1..Len(timers') /\ Len(timers') \in Nat
  BY <1>5, LenProperties
<1> QED
  BY <1>1, <1>4, <1>5, <1>6

\* A callback that runs leaves the queue well formed, whichever slot it is.
LEMMA FireType ==
    ASSUME TypeOK, NEW i \in 1..MaxTimers, Fire(i)
    PROVE  TypeOK'
<1> USE DEF TypeOK
<1> DEFINE tq == DropTimer(timers, i)
<1>1. i \in 1..Len(timers) /\ timers[i] \in Timers
  <2>1. Len(timers) \in Nat /\ DOMAIN timers = 1..Len(timers)
    BY LenProperties
  <2> QED  BY <2>1 DEF Fire
<1>2. tq \in Seq(Timers) /\ Len(tq) = Len(timers) - 1
  BY <1>1, DropTimerType
<1>3. Len(tq) < MaxTimers
  BY <1>1, <1>2
<1>4. UNCHANGED env
  BY DEF Fire
<1>5. SlotTypeOK'
  <2> HIDE DEF tq
  <2>1. CASE timers[i].cb = "emitInitialState"
    <3>1. EmitInitialState(tq)  BY <2>1 DEF Fire, tq
    <3> QED  BY <1>2, <1>3, <3>1, EmitInitialStateType
  <2>2. CASE timers[i].cb = "onActiveClientChanged"
    <3>1. OnActiveClientChanged(active, tq)  BY <2>2 DEF Fire, tq
    <3> QED  BY <1>2, <1>3, <3>1, OnActiveClientChangedType
  <2>3. CASE timers[i].cb = "retry"
    <3>1. RetryLambda(timers[i].attempt, tq)  BY <2>3 DEF Fire, tq
    <3>2. timers[i].attempt \in 0..3  BY <1>1 DEF Timers
    <3> QED  BY <1>2, <1>3, <3>1, <3>2, RetryLambdaType
  <2>4. CASE timers[i].cb = "pollWindowTitle"
    <3>1. PollWindowTitle(tq)  BY <2>4 DEF Fire, tq
    <3> QED  BY <1>2, <1>3, <3>1, PollWindowTitleType
  <2> QED  BY <1>1, <2>1, <2>2, <2>3, <2>4 DEF Timers, Callbacks
<1> QED
  BY <1>4, <1>5 DEF SlotTypeOK, env

\* Time passing keeps the whole state well formed.
LEMMA TickTypeOK ==
    ASSUME TypeOK, Tick
    PROVE  TypeOK'
<1>1. timers' \in Seq(Timers) /\ Len(timers') = Len(timers)
  BY TickType
<1> QED
  BY <1>1 DEF TypeOK, Tick, env, Signals

\* onWindowAdded's Created signal is well formed.
LEMMA AddWindowType ==
    ASSUME TypeOK, NEW w \in Win, NEW t \in Titles, AddWindow(w, t)
    PROVE  TypeOK'
<1>1. t \in Seq(STRING) /\ WinClass[w] \in Seq(STRING)
  BY TitleAssumption
<1>2. sent' \in Signals
  BY <1>1 DEF AddWindow, Signals, Kinds
<1> QED
  BY <1>2 DEF TypeOK, AddWindow

\* onWindowRemoved's deferred onActiveClientChanged stays within MaxTimers.
LEMMA RemoveWindowType ==
    ASSUME TypeOK, NEW w \in Win, RemoveWindow(w)
    PROVE  TypeOK'
<1> USE DEF TypeOK
<1>1. sent' \in Signals \cup {NoSignal} /\ view' \in Views
  <2>1. Send(Signal("Destroyed", w))  BY DEF RemoveWindow
  <2> QED  BY <2>1, SendSignalType DEF Kinds
<1>2. timers' \in Seq(Timers) /\ Len(timers') <= MaxTimers
  <2>1. Timer("onActiveClientChanged", 0, 0) \in Timers
    BY DEF Timer, Timers, Callbacks, PollInterval
  <2> QED  BY <2>1, AppendTimerType DEF RemoveWindow
<1> QED
  BY <1>1, <1>2 DEF RemoveWindow

\* windowActivated and onActiveClientChanged keep the state well formed.
LEMMA ActivateWindowType ==
    ASSUME TypeOK, NEW w \in Win \cup {None}, ActivateWindow(w)
    PROVE  TypeOK'
<1>1. SlotTypeOK'
  BY OnActiveClientChangedType DEF ActivateWindow, TypeOK
<1> QED
  BY <1>1 DEF ActivateWindow, SlotTypeOK, TypeOK

\* The captionChanged lambda's Changed signal is well formed.
LEMMA SetCaptionType ==
    ASSUME TypeOK, NEW w \in Win, NEW t \in Titles, SetCaption(w, t)
    PROVE  TypeOK'
<1> USE DEF TypeOK
<1>1. t \in Seq(STRING) /\ WinClass[w] \in Seq(STRING)
  BY TitleAssumption
<1>2. CASE w \in subscribed /\ w = active
  <2>1. sent' \in Signals /\ view' \in Views
    BY <1>1, <1>2 DEF SetCaption, Send, Signals, Kinds, Views
  <2> QED  BY <1>2, <2>1 DEF SetCaption
<1>3. CASE ~(w \in subscribed /\ w = active)
  BY <1>3, SendNothingType DEF SetCaption
<1> QED
  BY <1>2, <1>3

\* The constructor's state, with any windows already managed, is well formed.
LEMMA InitType == Init => TypeOK
<1>1. Timer("emitInitialState", 0, 0) \in Timers
  BY DEF Timer, Timers, Callbacks, PollInterval
<1> SUFFICES ASSUME Init PROVE TypeOK  OBVIOUS
<1> QED  BY <1>1 DEF Init, TypeOK, NoView, Views

\* Every step of the compositor or the event loop keeps the state well formed.
LEMMA NextType == TypeOK /\ [Next]_vars => TypeOK'
<1> SUFFICES ASSUME TypeOK, [Next]_vars PROVE TypeOK'  OBVIOUS
<1>1. CASE \E w \in Win, t \in Titles : AddWindow(w, t)
  BY <1>1, AddWindowType
<1>2. CASE \E w \in Win : RemoveWindow(w)
  BY <1>2, RemoveWindowType
<1>3. CASE \E w \in Win \cup {None} : ActivateWindow(w)
  BY <1>3, ActivateWindowType
<1>4. CASE \E w \in Win, t \in Titles : SetCaption(w, t)
  BY <1>4, SetCaptionType
<1>5. CASE Tick
  BY <1>5, TickTypeOK
<1>6. CASE \E i \in DOMAIN timers : Fire(i)
  <2>1. PICK i \in DOMAIN timers : Fire(i)  BY <1>6
  <2>2. i \in 1..MaxTimers
    <3>1. Len(timers) \in Nat /\ DOMAIN timers = 1..Len(timers)
      BY LenProperties DEF TypeOK
    <3> QED  BY <3>1 DEF TypeOK
  <2> QED  BY <2>1, <2>2, FireType
<1>7. CASE UNCHANGED vars
  BY <1>7 DEF vars, TypeOK
<1> QED
  BY <1>1, <1>2, <1>3, <1>4, <1>5, <1>6, <1>7 DEF Next, Environment, EventLoop

\* Type correctness: every reachable state of the effect and its compositor
\* keeps the pending singleShot callbacks within MaxTimers and every signal
\* sent over D-Bus well formed.
THEOREM TypeCorrect == Spec => []TypeOK
BY InitType, NextType, PTL DEF Spec

-----------------------------------------------------------------------------
(* The engine's view of the focus stays current.                           *)

\* The strengthening: whenever a window is active, m_lastActiveWindow is
\* either cleared or that window, so a retry lambda that sends Changed for
\* m_lastActiveWindow speaks of the active window.
LastActiveIsFocus ==
    active # None => lastActiveWindow \in {None, active}

SafeInv == NoDanglingReference /\ LastActiveIsFocus /\ FocusViewCurrent

IInv == TypeOK /\ SafeInv

\* What a callback may do to the effect's own state: keep or clear
\* m_lastActiveWindow, shrink m_polledWindows, and set the view to the
\* active window or to m_lastActiveWindow.
LEMMA CallbackSafe ==
    ASSUME IInv, TypeOK', UNCHANGED env,
           lastActiveWindow' \in {None, lastActiveWindow},
           polledWindows' \subseteq polledWindows,
           \/ view' = view
           \/ view' = <<WinClass[active], caption[active]>>
           \/ lastActiveWindow # None
              /\ view' = <<WinClass[lastActiveWindow], caption[lastActiveWindow]>>
    PROVE  SafeInv'
<1> USE DEF IInv, SafeInv, env
<1>1. NoDanglingReference'
  BY DEF NoDanglingReference
<1>2. LastActiveIsFocus'
  BY DEF LastActiveIsFocus
<1>3. FocusViewCurrent'
  <2> SUFFICES ASSUME active \in subscribed
               PROVE  view' = <<WinClass[active], caption[active]>>
    BY DEF FocusViewCurrent
  <2>1. active # None
    BY NoneAssumption DEF TypeOK
  <2> QED
    BY <2>1 DEF FocusViewCurrent, LastActiveIsFocus
<1> QED
  BY <1>1, <1>2, <1>3

\* onActiveClientChanged for the window a that has just become active.
LEMMA OnActiveClientChangedSafe ==
    ASSUME IInv, TypeOK', NEW a \in windows \cup {None}, active' = a,
           UNCHANGED <<windows, caption, subscribed>>, NEW tq,
           OnActiveClientChanged(a, tq)
    PROVE  SafeInv'
<1> USE DEF IInv, SafeInv
<1>1. CASE a = None
  <2>1. UNCHANGED <<lastActiveWindow, polledWindows, view>>
    BY <1>1 DEF OnActiveClientChanged, SendNothing
  <2>2. None \notin subscribed
    BY NoneAssumption DEF TypeOK
  <2> QED
    BY <1>1, <2>1, <2>2
       DEF NoDanglingReference, LastActiveIsFocus, FocusViewCurrent
<1>2. CASE a # None
  <2>1. view' = <<WinClass[a], caption[a]>>
    BY <1>2 DEF OnActiveClientChanged, Send, Signal, Kinds
  <2>2. lastActiveWindow' \in {None, a} /\ polledWindows' \subseteq polledWindows \cup {a}
    BY <1>2 DEF OnActiveClientChanged
  <2> QED
    BY <1>2, <2>1, <2>2
       DEF NoDanglingReference, LastActiveIsFocus, FocusViewCurrent
<1> QED
  BY <1>1, <1>2

\* The retry lambda sends Changed only for m_lastActiveWindow, which is the
\* active window whenever one is active.
LEMMA RetryLambdaSafe ==
    ASSUME IInv, TypeOK', UNCHANGED env, NEW n, NEW tq, RetryLambda(n, tq)
    PROVE  SafeInv'
<1>1. CASE lastActiveWindow = None
  <2>1. UNCHANGED <<lastActiveWindow, polledWindows, view>>
    BY <1>1 DEF RetryLambda, SendNothing
  <2> QED  BY <2>1, CallbackSafe
<1>2. CASE lastActiveWindow # None /\ Usable(lastActiveWindow)
  <2>1. /\ view' = <<WinClass[lastActiveWindow], caption[lastActiveWindow]>>
        /\ lastActiveWindow' = None
        /\ polledWindows' \subseteq polledWindows
    BY <1>2 DEF RetryLambda, Send, Signal, Kinds
  <2> QED  BY <1>2, <2>1, CallbackSafe
<1>3. CASE lastActiveWindow # None /\ ~Usable(lastActiveWindow)
  <2>1. UNCHANGED view /\ RetryActiveWindowTitle(n + 1, tq)
    BY <1>3 DEF RetryLambda, SendNothing
  <2>2. lastActiveWindow' \in {None, lastActiveWindow}
        /\ polledWindows' \subseteq polledWindows
    BY <2>1 DEF RetryActiveWindowTitle
  <2> QED  BY <2>1, <2>2, CallbackSafe
<1> QED
  BY <1>1, <1>2, <1>3

\* pollWindowTitle sends Changed only for the active window.
LEMMA PollWindowTitleSafe ==
    ASSUME IInv, TypeOK', UNCHANGED env, NEW tq, PollWindowTitle(tq)
    PROVE  SafeInv'
<1>1. UNCHANGED lastActiveWindow /\ polledWindows' \subseteq polledWindows
  BY DEF PollWindowTitle
<1>2. view' = view \/ view' = <<WinClass[active], caption[active]>>
  BY DEF PollWindowTitle, Send, SendNothing, Signal, Kinds
<1> QED
  BY <1>1, <1>2, CallbackSafe

\* emitInitialState sends Initial only for the active window.
LEMMA EmitInitialStateSafe ==
    ASSUME IInv, TypeOK', UNCHANGED env, NEW tq, EmitInitialState(tq)
    PROVE  SafeInv'
<1>1. UNCHANGED <<lastActiveWindow, polledWindows>>
  BY DEF EmitInitialState
<1>2. view' = view \/ view' = <<WinClass[active], caption[active]>>
  BY DEF EmitInitialState, Send, SendNothing, Signal, Kinds
<1> QED
  BY <1>1, <1>2, CallbackSafe

\* Whichever callback the event loop runs, the invariant is kept.
LEMMA FireSafe ==
    ASSUME IInv, TypeOK', NEW i, Fire(i)
    PROVE  SafeInv'
<1> DEFINE tq == DropTimer(timers, i)
<1>1. UNCHANGED env
  BY DEF Fire
<1> HIDE DEF tq
<1>2. CASE EmitInitialState(tq)
  BY <1>1, <1>2, EmitInitialStateSafe
<1>3. CASE OnActiveClientChanged(active, tq)
  BY <1>1, <1>3, OnActiveClientChangedSafe DEF env, IInv, TypeOK
<1>4. CASE RetryLambda(timers[i].attempt, tq)
  BY <1>1, <1>4, RetryLambdaSafe
<1>5. CASE PollWindowTitle(tq)
  BY <1>1, <1>5, PollWindowTitleSafe
<1> QED
  BY <1>2, <1>3, <1>4, <1>5 DEF Fire, tq

\* onWindowAdded connects a window that cannot be the active one.
LEMMA AddWindowSafe ==
    ASSUME IInv, NEW w \in Win, NEW t, AddWindow(w, t)
    PROVE  SafeInv'
<1> USE DEF IInv, SafeInv
<1>1. w # active
  BY NoneAssumption DEF AddWindow, TypeOK
<1>2. caption'[active] = caption[active]
  BY <1>1 DEF AddWindow
<1>3. active \in subscribed' => active \in subscribed
  BY <1>1 DEF AddWindow
<1> QED
  BY <1>2, <1>3
     DEF AddWindow, NoDanglingReference, LastActiveIsFocus, FocusViewCurrent

\* onWindowRemoved clears every reference to the window it removes.
LEMMA RemoveWindowSafe ==
    ASSUME IInv, NEW w \in Win, RemoveWindow(w)
    PROVE  SafeInv'
<1> USE DEF IInv, SafeInv
<1>1. UNCHANGED <<caption, view>>
  BY DEF RemoveWindow, Send, Signal, Kinds
<1>2. NoDanglingReference'
  BY DEF RemoveWindow, NoDanglingReference
<1>3. LastActiveIsFocus'
  BY DEF RemoveWindow, LastActiveIsFocus
<1>4. FocusViewCurrent'
  <2> SUFFICES ASSUME active' \in subscribed'
               PROVE  view' = <<WinClass[active'], caption'[active']>>
    BY DEF FocusViewCurrent
  <2>1. active' = active /\ active \in subscribed
    BY NoneAssumption DEF RemoveWindow, TypeOK
  <2> QED
    BY <1>1, <2>1 DEF FocusViewCurrent
<1> QED
  BY <1>2, <1>3, <1>4

\* The captionChanged lambda sends the new title of the active window.
LEMMA SetCaptionSafe ==
    ASSUME IInv, NEW w \in Win, NEW t, SetCaption(w, t)
    PROVE  SafeInv'
<1> USE DEF IInv, SafeInv
<1>1. UNCHANGED <<windows, active, subscribed, lastActiveWindow>>
      /\ polledWindows' \subseteq polledWindows
  BY DEF SetCaption, Send, SendNothing
<1>2. NoDanglingReference' /\ LastActiveIsFocus'
  BY <1>1 DEF NoDanglingReference, LastActiveIsFocus
<1>3. FocusViewCurrent'
  <2> SUFFICES ASSUME active \in subscribed
               PROVE  view' = <<WinClass[active], caption'[active]>>
    BY <1>1 DEF FocusViewCurrent
  <2>1. CASE w = active
    <3>1. caption'[w] = t
      BY DEF SetCaption, TypeOK
    <3>2. view' = <<WinClass[w], t>>
      BY <2>1 DEF SetCaption, Send, Kinds
    <3> QED  BY <2>1, <3>1, <3>2
  <2>2. CASE w # active
    <3>1. caption'[active] = caption[active] /\ UNCHANGED view
      BY <2>2 DEF SetCaption, SendNothing
    <3> QED  BY <3>1 DEF FocusViewCurrent
  <2> QED  BY <2>1, <2>2
<1> QED
  BY <1>2, <1>3

\* The effect starts in a state of the inductive invariant.
LEMMA IInvInit == Init => IInv
<1> SUFFICES ASSUME Init PROVE IInv  OBVIOUS
<1>1. TypeOK  BY InitType
<1> QED
  BY <1>1, NoneAssumption
  DEF Init, IInv, TypeOK, SafeInv, NoDanglingReference, LastActiveIsFocus,
      FocusViewCurrent

\* Every step of the compositor and of the event loop keeps the inductive
\* invariant.
LEMMA IInvNext == IInv /\ [Next]_vars => IInv'
<1> SUFFICES ASSUME IInv, [Next]_vars PROVE IInv'  OBVIOUS
<1>1. TypeOK'
  BY NextType DEF IInv
<1>2. SafeInv'
  <2>1. CASE \E w \in Win, t \in Titles : AddWindow(w, t)
    BY <2>1, AddWindowSafe
  <2>2. CASE \E w \in Win : RemoveWindow(w)
    BY <2>2, RemoveWindowSafe
  <2>3. CASE \E w \in Win \cup {None} : ActivateWindow(w)
    <3>1. PICK w \in Win \cup {None} : ActivateWindow(w)  BY <2>3
    <3>2. w \in windows \cup {None} /\ active' = w
          /\ UNCHANGED <<windows, caption, subscribed>>
          /\ OnActiveClientChanged(w, timers)
      BY <3>1 DEF ActivateWindow
    <3> QED  BY <1>1, <3>2, OnActiveClientChangedSafe
  <2>4. CASE \E w \in Win, t \in Titles : SetCaption(w, t)
    BY <2>4, SetCaptionSafe
  <2>5. CASE Tick
    BY <2>5 DEF Tick, env, IInv, SafeInv, NoDanglingReference,
       LastActiveIsFocus, FocusViewCurrent
  <2>6. CASE \E i \in DOMAIN timers : Fire(i)
    BY <1>1, <2>6, FireSafe
  <2>7. CASE UNCHANGED vars
    BY <2>7 DEF vars, IInv, SafeInv, NoDanglingReference,
       LastActiveIsFocus, FocusViewCurrent
  <2> QED
    BY <2>1, <2>2, <2>3, <2>4, <2>5, <2>6, <2>7
    DEF Next, Environment, EventLoop
<1> QED  BY <1>1, <1>2 DEF IInv

\* The engine's picture of the focus is current in every reachable state:
\* no late retry lambda or poll of onActiveClientChanged, and no
\* captionChanged lambda, leaves the view on another title than the active,
\* connected window's; and no pending callback refers to a removed window.
THEOREM FocusSafety == Spec => [](NoDanglingReference /\ FocusViewCurrent)
<1>1. Init => IInv
  BY IInvInit
<1>2. IInv /\ [Next]_vars => IInv'
  BY IInvNext
<1>3. IInv => NoDanglingReference /\ FocusViewCurrent
  BY DEF IInv, SafeInv
<1> QED
  BY <1>1, <1>2, <1>3, PTL DEF Spec

\* No callback the event loop runs later, no captionChanged lambda and no
\* entry of m_polledWindows refers to a window the compositor has removed:
\* onWindowRemoved clears m_lastActiveWindow and m_polledWindows before any
\* pending lambda can dereference them.
THEOREM NoDangling == Spec => []NoDanglingReference
  BY FocusSafety, PTL

-----------------------------------------------------------------------------
(* No signal about a removed window.                                       *)

\* The step SignalsOnlyForLiveWindows constrains.
LiveStep ==
    sent'.kind \in Kinds =>
        IF sent'.kind = "Destroyed" THEN sent'.win \in windows \ windows'
                                    ELSE sent'.win \in windows'

\* What a slot sends about: nothing, or a window of the given set.
SendsAbout(S) ==
    sent'.kind \in Kinds => sent'.kind # "Destroyed" /\ sent'.win \in S

\* A slot that reads window a sends Changed or Initial about a, or nothing.
LEMMA SendAbout ==
    ASSUME NEW a, NEW S, a \in S, NEW k \in {"Changed", "Initial"},
           Send(Signal(k, a)) \/ SendNothing
    PROVE  SendsAbout(S)
BY DEF Send, Signal, SendNothing, NoSignal, Kinds, SendsAbout

\* onActiveClientChanged sends only about the window it reads.
LEMMA OnActiveClientChangedLive ==
    ASSUME NEW a, NEW S, a \in S \cup {None}, NEW tq, OnActiveClientChanged(a, tq)
    PROVE  SendsAbout(S)
<1>1. CASE a = None
  BY <1>1 DEF OnActiveClientChanged, SendNothing, NoSignal, Kinds, SendsAbout
<1>2. CASE a # None
  <2>1. Send(Signal("Changed", a))
    BY <1>2 DEF OnActiveClientChanged
  <2> QED  BY <1>2, <2>1, SendAbout
<1> QED  BY <1>1, <1>2

\* A callback sends only about the active window or m_lastActiveWindow,
\* both of which the compositor still manages.
LEMMA FireLive ==
    ASSUME IInv, NEW i, Fire(i)
    PROVE  SendsAbout(windows)
<1> DEFINE tq == DropTimer(timers, i)
<1> HIDE DEF tq
<1>1. active \in windows \cup {None} /\ lastActiveWindow \in windows \cup {None}
  BY DEF IInv, TypeOK, SafeInv, NoDanglingReference
<1>2. CASE EmitInitialState(tq)
  <2>1. CASE active # None
    BY <1>1, <1>2, <2>1, SendAbout DEF EmitInitialState
  <2>2. CASE active = None
    BY <1>2, <2>2 DEF EmitInitialState, SendNothing, NoSignal, Kinds, SendsAbout
  <2> QED  BY <2>1, <2>2
<1>3. CASE OnActiveClientChanged(active, tq)
  BY <1>1, <1>3, OnActiveClientChangedLive
<1>4. CASE RetryLambda(timers[i].attempt, tq)
  <2>1. CASE lastActiveWindow # None /\ Usable(lastActiveWindow)
    <3>1. Send(Signal("Changed", lastActiveWindow))
      BY <1>4, <2>1 DEF RetryLambda
    <3> QED  BY <1>1, <2>1, <3>1, SendAbout
  <2>2. CASE ~(lastActiveWindow # None /\ Usable(lastActiveWindow))
    BY <1>4, <2>2 DEF RetryLambda, SendNothing, NoSignal, Kinds, SendsAbout
  <2> QED  BY <2>1, <2>2
<1>5. CASE PollWindowTitle(tq)
  <2>1. CASE active # None /\ active \in polledWindows /\ Usable(active)
    <3>1. Send(Signal("Changed", active)) \/ SendNothing
      BY <1>5 DEF PollWindowTitle
    <3> QED  BY <1>1, <2>1, <3>1, SendAbout
  <2>2. CASE ~(active # None /\ active \in polledWindows /\ Usable(active))
    BY <1>5, <2>2 DEF PollWindowTitle, SendNothing, NoSignal, Kinds, SendsAbout
  <2> QED  BY <2>1, <2>2
<1> QED
  BY <1>2, <1>3, <1>4, <1>5 DEF Fire, tq

\* Every step of the compositor and the event loop, from a state of the
\* invariant, sends nothing, Destroyed for the window it removes, or a
\* signal about a window it still manages.
LEMMA LiveNext == IInv /\ Next => LiveStep
<1> SUFFICES ASSUME IInv, Next PROVE LiveStep  OBVIOUS
<1>1. CASE \E w \in Win, t \in Titles : AddWindow(w, t)
  BY <1>1 DEF AddWindow, Kinds, LiveStep
<1>2. CASE \E w \in Win : RemoveWindow(w)
  BY <1>2 DEF RemoveWindow, Send, Signal, Kinds, LiveStep
<1>3. CASE \E w \in Win \cup {None} : ActivateWindow(w)
  <2>1. PICK w \in Win \cup {None} : ActivateWindow(w)  BY <1>3
  <2>2. SendsAbout(windows)
    BY <2>1, OnActiveClientChangedLive DEF ActivateWindow
  <2> QED  BY <2>1, <2>2 DEF ActivateWindow, SendsAbout, LiveStep
<1>4. CASE \E w \in Win, t \in Titles : SetCaption(w, t)
  BY <1>4 DEF SetCaption, Send, SendNothing, NoSignal, Kinds, LiveStep
<1>5. CASE Tick
  BY <1>5 DEF Tick, NoSignal, Kinds, LiveStep
<1>6. CASE \E i \in DOMAIN timers : Fire(i)
  <2>1. PICK i \in DOMAIN timers : Fire(i)  BY <1>6
  <2>2. SendsAbout(windows) /\ windows' = windows
    BY <2>1, FireLive DEF Fire, env
  <2> QED  BY <2>2 DEF SendsAbout, LiveStep
<1> QED
  BY <1>1, <1>2, <1>3, <1>4, <1>5, <1>6 DEF Next, Environment, EventLoop

\* The engine never hears of a removed window: in every behaviour, for
\* every value of the constants, a step sends Destroyed only for the
\* window onWindowRemoved forgets, and every other signal, from a slot or
\* from a late callback, is about a window the compositor manages.
THEOREM LiveSignals == Spec => SignalsOnlyForLiveWindows
<1>1. Init => IInv
  BY IInvInit
<1>2. IInv /\ [Next]_vars => IInv'
  BY IInvNext
<1>3. IInv /\ [Next]_vars => [LiveStep]_vars
  BY LiveNext
<1> QED
  BY <1>1, <1>2, <1>3, PTL DEF Spec, SignalsOnlyForLiveWindows, LiveStep


=============================================================================
