------------------------- MODULE ActiveClientEffect -------------------------
(***************************************************************************)
(* The KWin effect ActiveClientEffect                                      *)
(* (src/src/client/kdeactiveeventlistener/activeclienteffect.cpp).         *)
(*                                                                         *)
(* The effect runs on the compositor's single Qt event-loop thread.  The   *)
(* compositor (KWin's Workspace) is the environment: it creates, removes   *)
(* and activates windows and changes their captions, and each of these     *)
(* emits a signal whose slot runs synchronously, in the same step.  The    *)
(* effect's own deferred work is a queue of pending QTimer::singleShot     *)
(* callbacks, each with the time left before it is due; time advances in   *)
(* steps of TimeStep milliseconds and a callback whose time has come runs  *)
(* as one step.                                                            *)
(*                                                                         *)
(* Titles and classes are sequences of characters, so that the title test *)
(* of hasProblematicTitle (empty, or starting with "_") is computed and    *)
(* not assumed.  The D-Bus signal sent by a step is recorded in `sent`,    *)
(* and the automation engine's picture of the focused window (the class   *)
(* and title of the last Changed or Initial signal) in `view`; both are    *)
(* observation variables, not state of the effect.                         *)
(***************************************************************************)
EXTENDS Integers, Sequences

CONSTANTS
    Win,        \* window handles (Window* values) the compositor may use
    None,       \* nullptr
    Titles,     \* the captions a window may have (sequences of characters)
    WinClass,   \* resourceClass() of the window behind each handle
    TimeStep,   \* the granularity, in ms, at which time advances
    MaxTimers   \* bound on the number of pending singleShot callbacks

ASSUME NoneAssumption == None \notin Win

ASSUME TitleAssumption ==
    /\ Titles \subseteq Seq(STRING)
    /\ WinClass \in [Win -> Seq(STRING)]

ASSUME BoundAssumption ==
    /\ TimeStep \in Nat \ {0}
    /\ MaxTimers \in Nat \ {0}

VARIABLES
    windows,            \* the windows the compositor currently manages
    active,             \* workspace()->activeWindow(), or None
    caption,            \* caption() of each window handle
    subscribed,         \* windows whose captionChanged is connected to the effect
    lastActiveWindow,   \* m_lastActiveWindow
    polledWindows,      \* m_polledWindows
    timers,             \* pending singleShot callbacks, in the order scheduled
    sent,               \* the D-Bus signal sent by the last step, or NoSignal
    view                \* class and title of the last Changed/Initial signal

env  == <<windows, active, caption, subscribed>>
vars == <<windows, active, caption, subscribed, lastActiveWindow,
          polledWindows, timers, sent, view>>

-----------------------------------------------------------------------------
(* Data                                                                    *)

Kinds == {"Created", "Changed", "Destroyed", "Initial"}

\* A D-Bus signal; `win` is the window it was read from (for the properties).
Signals == [kind : Kinds, win : Win, cls : Seq(STRING), title : Seq(STRING)]

NoSignal == [kind |-> "none"]
NoView   == <<>>

Views == {NoView} \cup (Seq(STRING) \X Seq(STRING))

\* The callbacks the effect hands to QTimer::singleShot.  `attempt` is the
\* attempt number captured by the retry lambda, and 0 for the others.
Callbacks == {"emitInitialState", "onActiveClientChanged", "retry",
              "pollWindowTitle"}

PollInterval == 500

Timers == [cb : Callbacks, attempt : 0..3, due : 0..PollInterval]

Timer(cb, attempt, delay) == [cb |-> cb, attempt |-> attempt, due |-> delay]

\* int delay = 50 * (1 << (attempt - 1));
RetryDelay(attempt) == 50 * 2^(attempt - 1)

\* hasProblematicTitle: the title is empty or starts with "_".
HasProblematicTitle(t) == t = <<>> \/ Head(t) = "_"

\* The test of onActiveClientChanged and of the retry and poll callbacks.
Usable(w) == ~HasProblematicTitle(caption[w]) /\ caption[w] # WinClass[w]

\* sendDBusSignal(kind, window->resourceClass(), window->caption())
Signal(kind, w) ==
    [kind |-> kind, win |-> w, cls |-> WinClass[w], title |-> caption[w]]

\* Sending a signal; the engine takes Changed and Initial as the new focus.
Send(sig) ==
    /\ sent' = sig
    /\ view' = IF sig.kind \in {"Changed", "Initial"}
                  THEN <<sig.cls, sig.title>> ELSE view

SendNothing == sent' = NoSignal /\ UNCHANGED view

DropTimer(tq, i) == SubSeq(tq, 1, i - 1) \o SubSeq(tq, i + 1, Len(tq))

-----------------------------------------------------------------------------
(* Plausible faults in the slots, each checked to break a property.        *)

\* onActiveClientChanged without m_lastActiveWindow = nullptr for a window
\* whose title is already good.
OnActiveClientChangedNoReset(a, tq) ==
    IF a = None
    THEN /\ SendNothing
         /\ timers' = tq
         /\ UNCHANGED <<lastActiveWindow, polledWindows>>
    ELSE /\ Send(Signal("Changed", a))
         /\ IF Usable(a)
               THEN /\ timers' = tq
                    /\ UNCHANGED <<lastActiveWindow, polledWindows>>
               ELSE /\ Len(tq) < MaxTimers
                    /\ lastActiveWindow' = a
                    /\ polledWindows' = polledWindows \cup {a}
                    /\ timers' = Append(tq, Timer("retry", 1, RetryDelay(1)))

\* retryActiveWindowTitle with the quick attempts bounded by 4, not 3.
RetryActiveWindowTitleFourAttempts(attempt, tq) ==
    \/ /\ lastActiveWindow # active
       /\ polledWindows' = polledWindows \ {lastActiveWindow}
       /\ lastActiveWindow' = None
       /\ timers' = tq
    \/ /\ lastActiveWindow = active
       /\ attempt > 4
       /\ timers' = Append(tq, Timer("pollWindowTitle", 0, PollInterval))
       /\ UNCHANGED <<lastActiveWindow, polledWindows>>
    \/ /\ lastActiveWindow = active
       /\ attempt <= 4
       /\ timers' = Append(tq, Timer("retry", attempt, RetryDelay(attempt)))
       /\ UNCHANGED <<lastActiveWindow, polledWindows>>

\* onWindowRemoved that leaves m_lastActiveWindow pointing at the window.
RemoveWindowKeepsLastActive(w) ==
    /\ w \in windows
    /\ Len(timers) < MaxTimers
    /\ windows' = windows \ {w}
    /\ active' = IF active = w THEN None ELSE active
    /\ subscribed' = subscribed \ {w}
    /\ polledWindows' = polledWindows \ {w}
    /\ UNCHANGED lastActiveWindow
    /\ Send(Signal("Destroyed", w))
    /\ timers' = Append(timers, Timer("onActiveClientChanged", 0, 0))
    /\ UNCHANGED caption

\* pollWindowTitle that re-arms its timer also when the active window is not
\* (or no longer) polled, as if the singleShot stood after the if.
PollWindowTitleRearmsAlways(tq) ==
    LET kept == polledWindows \cap {active} IN
    /\ UNCHANGED lastActiveWindow
    /\ \/ /\ ~(active # None /\ active \in kept)
          /\ SendNothing
          /\ polledWindows' = kept
          /\ timers' = Append(tq, Timer("pollWindowTitle", 0, PollInterval))
       \/ /\ active # None /\ active \in kept
          /\ Usable(active)
          /\ Send(Signal("Changed", active))
          /\ polledWindows' = kept \ {active}
          /\ timers' = tq
       \/ /\ active # None /\ active \in kept
          /\ ~Usable(active)
          /\ SendNothing
          /\ polledWindows' = kept
          /\ timers' = Append(tq, Timer("pollWindowTitle", 0, PollInterval))

-----------------------------------------------------------------------------
(* The effect's slots, as operators over the window `a` that the slot     *)
(* reads and the queue `tq` of callbacks pending when it starts.           *)

\* onActiveClientChanged: a is workspace()->activeWindow().  The call
\* retryActiveWindowTitle(1) finds m_lastActiveWindow = a = the active
\* window, so it schedules the first retry.
OnActiveClientChanged(a, tq) ==
    IF a = None
    THEN /\ SendNothing
         /\ timers' = tq
         /\ UNCHANGED <<lastActiveWindow, polledWindows>>
    ELSE /\ Send(Signal("Changed", a))
         /\ IF Usable(a)
               THEN /\ lastActiveWindow' = None
                    /\ timers' = tq
                    /\ UNCHANGED polledWindows
               ELSE /\ Len(tq) < MaxTimers
                    /\ lastActiveWindow' = a
                    /\ polledWindows' = polledWindows \cup {a}
                    /\ timers' = Append(tq, Timer("retry", 1, RetryDelay(1)))

\* retryActiveWindowTitle(attempt), called from the retry lambda with
\* m_lastActiveWindow # nullptr.
RetryActiveWindowTitle(attempt, tq) ==
    \/ /\ lastActiveWindow # active
       /\ polledWindows' = polledWindows \ {lastActiveWindow}
       /\ lastActiveWindow' = None
       /\ timers' = tq
    \/ /\ lastActiveWindow = active
       /\ attempt > 3
       /\ timers' = Append(tq, Timer("pollWindowTitle", 0, PollInterval))
       /\ UNCHANGED <<lastActiveWindow, polledWindows>>
    \/ /\ lastActiveWindow = active
       /\ attempt <= 3
       /\ timers' = Append(tq, Timer("retry", attempt, RetryDelay(attempt)))
       /\ UNCHANGED <<lastActiveWindow, polledWindows>>

-----------------------------------------------------------------------------
(* The compositor's steps, each with the slot its signal runs.             *)

\* Workspace::windowAdded -> onWindowAdded: send Created and connect the
\* window's captionChanged.  A handle freed earlier may be reused.
AddWindow(w, t) ==
    /\ w \notin windows
    /\ windows' = windows \cup {w}
    /\ caption' = [caption EXCEPT ![w] = t]
    /\ subscribed' = subscribed \cup {w}
    /\ sent' = [kind |-> "Created", win |-> w, cls |-> WinClass[w], title |-> t]
    /\ UNCHANGED <<active, lastActiveWindow, polledWindows, timers, view>>

\* Workspace::windowRemoved -> onWindowRemoved: forget the window, send
\* Destroyed and schedule onActiveClientChanged after 0 ms.  The window's
\* connections go with it.  If it was active, nothing is active now.
RemoveWindow(w) ==
    /\ w \in windows
    /\ Len(timers) < MaxTimers
    /\ windows' = windows \ {w}
    /\ active' = IF active = w THEN None ELSE active
    /\ subscribed' = subscribed \ {w}
    /\ polledWindows' = polledWindows \ {w}
    /\ lastActiveWindow' = IF lastActiveWindow = w THEN None
                                                   ELSE lastActiveWindow
    /\ Send(Signal("Destroyed", w))
    /\ timers' = Append(timers, Timer("onActiveClientChanged", 0, 0))
    /\ UNCHANGED caption

\* Workspace::windowActivated -> onActiveClientChanged.
ActivateWindow(w) ==
    /\ w \in windows \cup {None}
    /\ w # active
    /\ active' = w
    /\ OnActiveClientChanged(w, timers)
    /\ UNCHANGED <<windows, caption, subscribed>>

\* Window::setCaption -> captionChanged -> the lambda of onWindowAdded,
\* if it is connected: for the active window, stop polling it when the new
\* title is not problematic, and send Changed.
SetCaption(w, t) ==
    /\ w \in windows
    /\ t # caption[w]
    /\ caption' = [caption EXCEPT ![w] = t]
    /\ IF w \in subscribed /\ w = active
          THEN /\ polledWindows' = IF w \in polledWindows /\ ~HasProblematicTitle(t)
                                      THEN polledWindows \ {w}
                                      ELSE polledWindows
               /\ Send([kind |-> "Changed", win |-> w, cls |-> WinClass[w],
                        title |-> t])
          ELSE /\ SendNothing
               /\ UNCHANGED polledWindows
    /\ UNCHANGED <<windows, active, subscribed, lastActiveWindow, timers>>

-----------------------------------------------------------------------------
(* The event loop.                                                         *)

\* Time passes while no callback is due.
Tick ==
    /\ timers # <<>>
    /\ \A i \in DOMAIN timers : timers[i].due >= TimeStep
    /\ timers' = [i \in DOMAIN timers |->
                    [timers[i] EXCEPT !.due = @ - TimeStep]]
    /\ sent' = NoSignal
    /\ UNCHANGED <<env, lastActiveWindow, polledWindows, view>>

\* emitInitialState: send Initial for the active window, if there is one.
EmitInitialState(tq) ==
    /\ IF active # None THEN Send(Signal("Initial", active)) ELSE SendNothing
    /\ timers' = tq
    /\ UNCHANGED <<lastActiveWindow, polledWindows>>

\* The lambda scheduled by retryActiveWindowTitle(attempt).
RetryLambda(attempt, tq) ==
    \/ /\ lastActiveWindow = None
       /\ SendNothing
       /\ timers' = tq
       /\ UNCHANGED <<lastActiveWindow, polledWindows>>
    \/ /\ lastActiveWindow # None
       /\ Usable(lastActiveWindow)
       /\ Send(Signal("Changed", lastActiveWindow))
       /\ polledWindows' = polledWindows \ {lastActiveWindow}
       /\ lastActiveWindow' = None
       /\ timers' = tq
    \/ /\ lastActiveWindow # None
       /\ ~Usable(lastActiveWindow)
       /\ SendNothing
       /\ RetryActiveWindowTitle(attempt + 1, tq)

\* pollWindowTitle: keep only the active window in m_polledWindows; if it
\* is there, send Changed once its title is usable, else poll again.
PollWindowTitle(tq) ==
    LET kept == polledWindows \cap {active} IN
    /\ UNCHANGED lastActiveWindow
    /\ \/ /\ ~(active # None /\ active \in kept)
          /\ SendNothing
          /\ polledWindows' = kept
          /\ timers' = tq
       \/ /\ active # None /\ active \in kept
          /\ Usable(active)
          /\ Send(Signal("Changed", active))
          /\ polledWindows' = kept \ {active}
          /\ timers' = tq
       \/ /\ active # None /\ active \in kept
          /\ ~Usable(active)
          /\ SendNothing
          /\ polledWindows' = kept
          /\ timers' = Append(tq, Timer("pollWindowTitle", 0, PollInterval))

\* A callback whose time has come runs.
Fire(i) ==
    LET tq == DropTimer(timers, i)
        cb == timers[i].cb
    IN
    /\ i \in DOMAIN timers
    /\ timers[i].due = 0
    /\ \/ cb = "emitInitialState" /\ EmitInitialState(tq)
       \/ cb = "onActiveClientChanged" /\ OnActiveClientChanged(active, tq)
       \/ cb = "retry" /\ RetryLambda(timers[i].attempt, tq)
       \/ cb = "pollWindowTitle" /\ PollWindowTitle(tq)
    /\ UNCHANGED env

-----------------------------------------------------------------------------

\* The constructor connects the slots and schedules emitInitialState; the
\* compositor may already manage windows, which the effect never connects.
Init ==
    /\ windows \in SUBSET Win
    /\ active \in windows \cup {None}
    /\ caption \in [Win -> Titles]
    /\ subscribed = {}
    /\ lastActiveWindow = None
    /\ polledWindows = {}
    /\ timers = <<Timer("emitInitialState", 0, 0)>>
    /\ sent = NoSignal
    /\ view = NoView

Environment ==
    \/ \E w \in Win, t \in Titles : AddWindow(w, t)
    \/ \E w \in Win : RemoveWindow(w)
    \/ \E w \in Win \cup {None} : ActivateWindow(w)
    \/ \E w \in Win, t \in Titles : SetCaption(w, t)

EventLoop ==
    \/ Tick
    \/ \E i \in DOMAIN timers : Fire(i)

Next == Environment \/ EventLoop

\* The Qt event loop keeps running: time passes however busy the compositor
\* is, and a callback that is due stays due until it runs, whatever other
\* slots run first.
Fairness ==
    /\ SF_vars(Tick)
    /\ \A i \in 1..MaxTimers : WF_vars(Fire(i))

Spec == Init /\ [][Next]_vars /\ Fairness

\* The refinement mapping to the promise of FocusNotifier: the retry state
\* (lastActiveWindow, polledWindows), the pending timers and the signal of
\* the step are hidden; the engine's view is what it was told last.
Notifier == INSTANCE FocusNotifier WITH
    managed <- windows, focus <- active, title <- caption,
    connected <- subscribed, reported <- view

-----------------------------------------------------------------------------
(* Properties                                                              *)

TypeOK ==
    /\ windows \subseteq Win
    /\ active \in windows \cup {None}
    /\ caption \in [Win -> Titles]
    /\ subscribed \subseteq Win
    /\ lastActiveWindow \in Win \cup {None}
    /\ polledWindows \subseteq Win
    /\ timers \in Seq(Timers)
    /\ Len(timers) <= MaxTimers
    /\ sent \in Signals \cup {NoSignal}
    /\ view \in Views

\* No dangling Window*: m_lastActiveWindow, which the retry lambda
\* dereferences when it fires, the windows in m_polledWindows and the
\* windows whose captionChanged lambda is connected are all windows the
\* compositor still manages.  onWindowRemoved must clear each of them
\* before a pending callback can touch a removed window.
NoDanglingReference ==
    /\ lastActiveWindow \in windows \cup {None}
    /\ polledWindows \subseteq windows
    /\ subscribed \subseteq windows

\* The engine never hears of a removed window: onWindowRemoved sends
\* Destroyed for the window it forgets, and no other signal, from a slot or
\* from a late retry lambda, pollWindowTitle or deferred
\* onActiveClientChanged, is about a window the compositor no longer
\* manages, until it adds that handle again.
SignalsOnlyForLiveWindows ==
    [][sent'.kind \in Kinds =>
         IF sent'.kind = "Destroyed" THEN sent'.win \in windows \ windows'
                                     ELSE sent'.win \in windows']_vars

\* The engine's picture of the focus is current: whenever the active window
\* is one whose captionChanged is connected, the last Changed or Initial
\* signal carried its class and its current title.  A late retry lambda
\* must never overwrite it with another window's title.
FocusViewCurrent ==
    active \in subscribed => view = <<WinClass[active], caption[active]>>

\* Polling ends: once the active window (if any) keeps a usable title, no
\* retry lambda or pollWindowTitle callback stays pending; the fast retries
\* and the 500 ms poll of every activation die out.
NoRetryPending == \A i \in DOMAIN timers :
                     timers[i].cb \notin {"retry", "pollWindowTitle"}

RetryChainsStop ==
    <>[](active # None => Usable(active)) => <>[]NoRetryPending

\* The effect keeps FocusNotifier's promise: every step that changes what
\* the engine was told is a focus change, a caption change of the focused
\* connected window, or a report (Changed or Initial, from a slot or a late
\* timer callback) about the focused window or, while none is focused, a
\* window still managed.  A retry lambda whose m_lastActiveWindow is no
\* longer the focus must not send its title while another window is
\* focused.
ImplementsNotifier == Notifier!Spec

-----------------------------------------------------------------------------
(* What the spec says and the code does not do (checked as violations).    *)

\* Spec 4.2: a scheduled check whose window is no longer the active one
\* aborts silently.  So every Changed signal is about the window that is
\* active when it is sent.
ChangedOnlyForActive ==
    [][sent'.kind = "Changed" => sent'.win = active']_vars

\* Spec 4.2 and scenario C of 8: a window is retried by one sequence, one
\* pending check at a time, and a second activation replaces the sequence
\* of the first.  So at most one retry lambda or pollWindowTitle callback
\* is pending.  Only those count: the 0 ms emitInitialState of the
\* constructor and the 0 ms onActiveClientChanged of onWindowRemoved are
\* not part of a retry sequence, and one activation alone, at any time,
\* leaves one retry lambda.  Breaking it takes a second activation (or a
\* deferred onActiveClientChanged) with a bad title while the first
\* sequence is still pending.
RetryCallbacks == {i \in DOMAIN timers :
                     timers[i].cb \in {"retry", "pollWindowTitle"}}

SingleRetrySequence == \A i, j \in RetryCallbacks : i = j

\* Spec 4.4: a caption change of the active window is sent as Changed, and
\* polling resolves a placeholder title.  So if a window stays active with
\* the same title from some point on, the engine ends up seeing that title.
FocusEventuallyReported ==
    \A w \in Win, t \in Titles :
        <>[](active = w /\ caption[w] = t) => <>[](view = <<WinClass[w], t>>)

=============================================================================
