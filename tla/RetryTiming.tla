----------------------------- MODULE RetryTiming -----------------------------
(***************************************************************************)
(* ActiveClientEffect with a clock: `since` counts the milliseconds since  *)
(* the compositor last changed the focus, so that the moments at which the *)
(* retry lambda and pollWindowTitle re-read the title can be compared with *)
(* the schedule of the specification's second testable property (section  *)
(* 8) and its scenario A.                                                  *)
(***************************************************************************)
EXTENDS ActiveClientEffect

VARIABLE since   \* ms since the last windowActivated, capped at Horizon

\* The clock stops at Horizon, past the fifth check of the spec's schedule.
Horizon == 1100

\* The schedule of spec 8: checks 50, 200 (50 + 150) and 550 (200 + 350)
\* ms after the activation, then every 500 ms (scenario A also has the
\* second check at 200 ms).
SpecCheckTimes == {50, 200, 550} \cup {550 + 500 * k : k \in 1..2}

tvars == <<vars, since>>

TInit == Init /\ since = 0

\* The schedule is about one retry sequence: the focus moves only when no
\* check of an earlier activation is pending.
TNext ==
    \/ /\ RetryCallbacks = {}
       /\ \E w \in Win \cup {None} : ActivateWindow(w)
       /\ since' = 0
    \/ Tick /\ since' = IF since + TimeStep > Horizon THEN Horizon
                                                    ELSE since + TimeStep
    \/ /\ \/ \E w \in Win, t \in Titles : AddWindow(w, t) \/ SetCaption(w, t)
          \/ \E w \in Win : RemoveWindow(w)
          \/ \E i \in DOMAIN timers : Fire(i)
       /\ UNCHANGED since

TSpec == TInit /\ [][TNext]_tvars

\* Spec 8, second testable property: after an activation with a
\* problematic title, the title is re-checked 50, 200 and 550 ms later and
\* then every 500 ms.  So every pending retry lambda or pollWindowTitle
\* callback is due at one of those moments after the activation.  The
\* code's delay 50 * (1 << (attempt - 1)) gives delays of 50, 100 and 200
\* ms, i.e. checks at 50, 150 and 350 ms as its comment on line 90 and the
\* formula of spec 4.2 say; only the cumulative times of spec 8 differ.
ChecksOnSchedule ==
    \A i \in RetryCallbacks : since + timers[i].due \in SpecCheckTimes

=============================================================================
