---------------------------- MODULE FocusNotifier ----------------------------
(***************************************************************************)
(* What the active-client effect promises the automation engine, without  *)
(* its timers: the engine is told the class and title of the window that   *)
(* receives the focus in the step in which it receives it, and of a        *)
(* connected focused window in the step in which its caption changes.     *)
(* Besides these, the effect may at any time tell the engine again the     *)
(* class and the current title of the focused window or, while no window   *)
(* has the focus, of any window the compositor still manages.  It never    *)
(* reports a removed window, and never a background window while another   *)
(* one has the focus.                                                      *)
(*                                                                         *)
(* ActiveClientEffect implements this specification under the mapping in  *)
(* its definition Notifier; the refinement hides the retry state and the   *)
(* pending timers.                                                         *)
(***************************************************************************)
CONSTANTS Win, None, Titles, WinClass

VARIABLES
    managed,     \* the windows the compositor manages
    focus,       \* the focused window, or None
    title,       \* the caption of each window
    connected,   \* the windows whose caption changes the notifier follows
    reported     \* the class and title the engine was told last, or <<>>

nvars == <<managed, focus, title, connected, reported>>

\* What the engine is told about window w.
Report(w) == <<WinClass[w], title[w]>>

\* The windows a report may be about.
Reportable == IF focus # None THEN {focus} ELSE managed

Init ==
    /\ managed \in SUBSET Win
    /\ focus \in managed \cup {None}
    /\ title \in [Win -> Titles]
    /\ connected = {}
    /\ reported = <<>>

\* A new window appears and is followed from then on.
Add(w, t) ==
    /\ w \notin managed
    /\ managed' = managed \cup {w}
    /\ title' = [title EXCEPT ![w] = t]
    /\ connected' = connected \cup {w}
    /\ UNCHANGED <<focus, reported>>

\* A window goes away; if it had the focus, no window has it.
Remove(w) ==
    /\ w \in managed
    /\ managed' = managed \ {w}
    /\ focus' = IF focus = w THEN None ELSE focus
    /\ connected' = connected \ {w}
    /\ UNCHANGED <<title, reported>>

\* The focus moves, and the engine is told at once.
Activate(w) ==
    /\ w \in managed \cup {None}
    /\ w # focus
    /\ focus' = w
    /\ reported' = IF w = None THEN reported ELSE Report(w)
    /\ UNCHANGED <<managed, title, connected>>

\* A caption changes; the engine is told if the window is the focused one
\* and is followed.
Retitle(w, t) ==
    /\ w \in managed
    /\ t # title[w]
    /\ title' = [title EXCEPT ![w] = t]
    /\ reported' = IF w \in connected /\ w = focus THEN <<WinClass[w], t>>
                                                  ELSE reported
    /\ UNCHANGED <<managed, focus, connected>>

\* The engine is told again about a window it may be told about.
Refresh ==
    /\ \E w \in Reportable : reported' = Report(w)
    /\ UNCHANGED <<managed, focus, title, connected>>

Next ==
    \/ \E w \in Win, t \in Titles : Add(w, t) \/ Retitle(w, t)
    \/ \E w \in Win : Remove(w)
    \/ \E w \in Win \cup {None} : Activate(w)
    \/ Refresh

Spec == Init /\ [][Next]_nvars

=============================================================================
