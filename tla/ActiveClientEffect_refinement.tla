------------------- MODULE ActiveClientEffect_refinement -------------------
(***************************************************************************)
(* ActiveClientEffect implements FocusNotifier under the mapping Notifier: *)
(* every initial state of the effect is an initial state of the notifier, *)
(* and every step of the compositor or of the event loop is a step of the  *)
(* notifier or leaves its variables alone.  The timer callbacks rest on    *)
(* the inductive invariant IInv: m_lastActiveWindow is the focused window  *)
(* whenever one is focused, and a managed window otherwise.                *)
(***************************************************************************)
EXTENDS ActiveClientEffect_proofs

\* The windows the notifier may report, over the effect's variables.
ReportableNow == IF active # None THEN {active} ELSE windows

\* A callback changes nothing the notifier sees but the engine's view, and
\* that only to the class and title of a window it may report.
ReportStep ==
    /\ UNCHANGED env
    /\ \/ view' = view
       \/ \E x \in ReportableNow : view' = <<WinClass[x], caption[x]>>

-----------------------------------------------------------------------------
(* The timer callbacks.                                                    *)

\* emitInitialState and the deferred onActiveClientChanged report the
\* window that is focused when they run.
LEMMA ReportActive ==
    ASSUME UNCHANGED env,
           view' = view \/ (active # None /\ view' = <<WinClass[active], caption[active]>>)
    PROVE  ReportStep
  BY DEF ReportStep, ReportableNow

\* The retry lambda reports m_lastActiveWindow, which IInv places among the
\* windows the notifier may report.
LEMMA RetryLambdaReport ==
    ASSUME IInv, UNCHANGED env, NEW n, NEW tq, RetryLambda(n, tq)
    PROVE  ReportStep
<1>1. CASE lastActiveWindow # None /\ Usable(lastActiveWindow)
  <2>1. view' = <<WinClass[lastActiveWindow], caption[lastActiveWindow]>>
    BY <1>1 DEF RetryLambda, Send, Signal, Kinds
  <2>2. lastActiveWindow \in ReportableNow
    BY <1>1 DEF IInv, SafeInv, LastActiveIsFocus, NoDanglingReference,
                ReportableNow
  <2> QED  BY <2>1, <2>2 DEF ReportStep
<1>2. CASE ~(lastActiveWindow # None /\ Usable(lastActiveWindow))
  BY <1>2 DEF RetryLambda, SendNothing, ReportStep
<1> QED  BY <1>1, <1>2

\* Whichever callback the event loop runs, it is a report step.
LEMMA FireReport ==
    ASSUME IInv, NEW i, Fire(i)
    PROVE  ReportStep
<1> DEFINE tq == DropTimer(timers, i)
<1>1. UNCHANGED env
  BY DEF Fire
<1> HIDE DEF tq
<1>2. CASE EmitInitialState(tq)
  <2>1. view' = view \/ (active # None /\ view' = <<WinClass[active], caption[active]>>)
    BY <1>2 DEF EmitInitialState, Send, SendNothing, Signal, Kinds
  <2> QED  BY <1>1, <2>1, ReportActive
<1>3. CASE OnActiveClientChanged(active, tq)
  <2>1. view' = view \/ (active # None /\ view' = <<WinClass[active], caption[active]>>)
    BY <1>3 DEF OnActiveClientChanged, Send, SendNothing, Signal, Kinds
  <2> QED  BY <1>1, <2>1, ReportActive
<1>4. CASE RetryLambda(timers[i].attempt, tq)
  BY <1>1, <1>4, RetryLambdaReport
<1>5. CASE PollWindowTitle(tq)
  <2>1. view' = view \/ (active # None /\ view' = <<WinClass[active], caption[active]>>)
    BY <1>5 DEF PollWindowTitle, Send, SendNothing, Signal, Kinds
  <2> QED  BY <1>1, <2>1, ReportActive
<1> QED
  BY <1>2, <1>3, <1>4, <1>5 DEF Fire, tq

\* A report step is a Refresh of the notifier or leaves its variables alone.
LEMMA ReportStepMaps ==
    ASSUME ReportStep
    PROVE  [Notifier!Next]_Notifier!nvars
<1>1. CASE view' = view
  BY <1>1 DEF ReportStep, env, Notifier!nvars
<1>2. CASE \E x \in ReportableNow : view' = <<WinClass[x], caption[x]>>
  <2>1. Notifier!Refresh
    BY <1>2 DEF ReportStep, env, Notifier!Refresh, Notifier!Reportable,
                Notifier!Report, ReportableNow
  <2> QED  BY <2>1 DEF Notifier!Next
<1> QED  BY <1>1, <1>2 DEF ReportStep

-----------------------------------------------------------------------------
(* The compositor's steps.                                                 *)

\* onWindowAdded is the notifier's Add: Created does not move the view.
LEMMA AddWindowMaps ==
    ASSUME NEW w \in Win, NEW t \in Titles, AddWindow(w, t)
    PROVE  Notifier!Add(w, t)
  BY DEF AddWindow, Notifier!Add

\* onWindowRemoved is the notifier's Remove: Destroyed does not move the
\* view, and the deferred re-evaluation is a later callback.
LEMMA RemoveWindowMaps ==
    ASSUME NEW w \in Win, RemoveWindow(w)
    PROVE  Notifier!Remove(w)
  BY DEF RemoveWindow, Send, Signal, Kinds, Notifier!Remove

\* onActiveClientChanged reports the new focus at once.
LEMMA ActivateWindowMaps ==
    ASSUME NEW w \in Win \cup {None}, ActivateWindow(w)
    PROVE  Notifier!Activate(w)
<1>1. view' = IF w = None THEN view ELSE <<WinClass[w], caption[w]>>
  BY DEF ActivateWindow, OnActiveClientChanged, Send, SendNothing, Signal,
         Kinds
<1> QED
  BY <1>1 DEF ActivateWindow, Notifier!Activate, Notifier!Report

\* The captionChanged lambda reports the new title of the focused window.
LEMMA SetCaptionMaps ==
    ASSUME NEW w \in Win, NEW t \in Titles, SetCaption(w, t)
    PROVE  Notifier!Retitle(w, t)
<1>1. view' = IF w \in subscribed /\ w = active THEN <<WinClass[w], t>>
                                                ELSE view
  BY DEF SetCaption, Send, SendNothing, Kinds
<1> QED
  BY <1>1 DEF SetCaption, Notifier!Retitle

-----------------------------------------------------------------------------

\* The effect starts where the notifier starts.
LEMMA InitMaps == Init => Notifier!Init
  BY DEF Init, Notifier!Init, NoView

\* Every step of the effect, from a state of IInv, is a notifier step or a
\* stutter of the notifier's variables.
LEMMA NextMaps == IInv /\ [Next]_vars => [Notifier!Next]_Notifier!nvars
<1> SUFFICES ASSUME IInv, [Next]_vars
             PROVE  [Notifier!Next]_Notifier!nvars
  OBVIOUS
<1>1. CASE \E w \in Win, t \in Titles : AddWindow(w, t)
  BY <1>1, AddWindowMaps DEF Notifier!Next
<1>2. CASE \E w \in Win : RemoveWindow(w)
  BY <1>2, RemoveWindowMaps DEF Notifier!Next
<1>3. CASE \E w \in Win \cup {None} : ActivateWindow(w)
  BY <1>3, ActivateWindowMaps DEF Notifier!Next
<1>4. CASE \E w \in Win, t \in Titles : SetCaption(w, t)
  BY <1>4, SetCaptionMaps DEF Notifier!Next
<1>5. CASE Tick
  BY <1>5 DEF Tick, env, Notifier!nvars
<1>6. CASE \E i \in DOMAIN timers : Fire(i)
  BY <1>6, FireReport, ReportStepMaps
<1>7. CASE UNCHANGED vars
  BY <1>7 DEF vars, Notifier!nvars
<1> QED
  BY <1>1, <1>2, <1>3, <1>4, <1>5, <1>6, <1>7
  DEF Next, Environment, EventLoop

\* The effect keeps FocusNotifier's promise for every set of windows,
\* titles and classes: what the engine is told changes only on a focus
\* change, on a caption change of the focused connected window, or to the
\* current title of a window the notifier may report; a late retry lambda
\* never reports a background window while another window is focused.
THEOREM Refinement == Spec => ImplementsNotifier
<1>1. Init => Notifier!Init
  BY InitMaps
<1>2. IInv /\ [Next]_vars => [Notifier!Next]_Notifier!nvars
  BY NextMaps
<1>3. Init => IInv
  BY IInvInit
<1>4. IInv /\ [Next]_vars => IInv'
  BY IInvNext
<1> QED
  BY <1>1, <1>2, <1>3, <1>4, PTL DEF Spec, ImplementsNotifier, Notifier!Spec

=============================================================================
