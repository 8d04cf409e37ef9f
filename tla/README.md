# Formal models of ahk-wayland's KWin focus listener

This directory holds TLA+ models of the KDE part of ahk-wayland. That part has
two pieces:

- the KWin effect `ActiveClientEffect`
  (`src/src/client/kdeactiveeventlistener/activeclienteffect.cpp`; its class
  declaration is the header embedded in `default.nix`, lines 216-253);
- the scripts that build, install, enable and inspect the effect's plugin.

The directory also holds the TLC configurations that check the models, TLAPS
proofs, and `PROJECT.json`. `PROJECT.json` maps every definition to the source
lines it models and lists the runs, mutants, findings and hazards.

## 1. The system

### Components and how they interact

| Part | Source | State | Operations |
|------|--------|-------|------------|
| ActiveClientEffect: focus tracker, title classifier, retry sequencer, window tracker, D-Bus publisher | `activeclienteffect.cpp`, header in `default.nix` | `m_lastActiveWindow`, `m_polledWindows`, the pending `QTimer::singleShot` callbacks | slots `onActiveClientChanged`, `onWindowAdded` (and its `captionChanged` lambda), `onWindowRemoved`, `emitInitialState`, `retryActiveWindowTitle`, the retry lambda, `pollWindowTitle` |
| KWin (the compositor) | not in this repository | windows, the active window, captions; the loaded effects | `windowAdded`, `windowRemoved`, `windowActivated`, `captionChanged`; `reconfigure`, `loadEffect`, loading at login |
| Session bus and automation engine | `sendDBusSignal` (cpp 33-43); the engine is not in this repository | the engine's picture of the focus (`view` in the effect's model) | carries `Created`, `Changed`, `Destroyed`, `Initial`; not modelled beyond the send (see 6) |
| ahk-kwin-setup | `default.nix` 77-163 | kwinrc `Plugins/ahk-wayland-activeclientEnabled` | `enable`, `disable`, `status` |
| Dev-shell helpers | `kdeactiveeventlistener/shell.nix` 43-159 | `build/`, `~/.local/lib/qt-6/.../ahk-wayland-activeclient.so`, the shell's working directory, kwinrc | `clean`, `build`, `install`, `force-install`, `status`, `test` |
| Installer script | `src/unnamed/part_001` | the plugin files under `~/.local/lib/plugins/kwin`, kwinrc | one run of steps 1-5 |
| Nix packaging, flake, plugin-loader test program, `verify-kde-plugin.sh` | `default.nix` 1-75, 165-215, `flake.nix`, `shell.nix`, `Shell.nix`, `part_000`, `verify-kde-plugin.sh` | none at run time | not modelled (see 6) |

How the effect works:

- KWin runs the effect's slots one at a time on its main thread.
- Each compositor signal runs its slot to the end before the next event is
  handled.
- The effect defers work with `QTimer::singleShot`:
  - `emitInitialState` after 0 ms;
  - `onActiveClientChanged` after 0 ms, when a window is removed;
  - the retry lambda after 50, 100 and 200 ms;
  - `pollWindowTitle` every 500 ms.
- These callbacks are interleaved with the compositor's signals. That
  interleaving is where most of the effect's hazards are.

How the scripts interact: they share three pieces of state.

- The kwinrc key, which decides whether KWin loads the effect at login.
- The plugin files. KWin's loader finds the effect by its name in any of
  these locations.
- The running KWin, which the scripts drive over D-Bus (`reconfigure`,
  `loadEffect`, `loadedEffects`).

### Hard behaviours

These are the behaviours that a unit test would hardly reach. The hazards in
`PROJECT.json` list them at the line where each one bites.

- A callback reads `m_lastActiveWindow` when it fires, not when it was
  scheduled (cpp:94).
- A second activation overwrites that field while an earlier retry is still
  pending (cpp:62).
- `onWindowRemoved` re-evaluates the focus only after a 0 ms timer (cpp:179).
  Other callbacks can run before it.
- A removed window must be forgotten before any callback dereferences it
  (cpp:170).
- Polling re-arms itself without a bound (cpp:136).
- Windows that exist when the effect loads are never connected to
  `captionChanged` (cpp:149).
- The scripts report success on exit statuses that do not mean success
  (default.nix:102, shell.nix:88).
- The installer verifies a file that its cleanup never removes
  (part_001:53).
- `QDBusConnection::send` is fire-and-forget (cpp:42). A lost `Changed` is
  never resent.
- The retry delays are computed from the attempt each lambda captures
  (cpp:84-91). When each check happens depends on the sum of those delays.
- `install` skips `make install` whenever any plugin file is in `~/.local`
  (shell.nix:64). It says so, and the stale build stays loaded after an
  edit.

## 2. Modules

| Module | Models | Kind |
|--------|--------|------|
| `ActiveClientEffect` | the effect and the compositor events that drive it | component spec (CONSTANTS `Win`, `None`, `Titles`, `WinClass`, `TimeStep`, `MaxTimers`) |
| `MC_ActiveClientEffect` | two windows `w1`, `w2` with classes `"a"`, `"b"`; titles `""`, `"_"`, `"a"`, `"b"` | TLC instance |
| `ActiveClientEffect_proofs` | the TLAPS proofs of type correctness and of focus safety | proofs |
| `PluginLifecycle` | ahk-kwin-setup, the dev-shell helpers, the installer and KWin's side of them | component spec (CONSTANT `MaxVersion`) |
| `MC_PluginLifecycle` | two source versions | TLC instance |
| `FocusNotifier` | what the effect promises the engine, without timers | abstract spec |
| `ActiveClientEffect_refinement` | the TLAPS proof that the effect implements `FocusNotifier` | proofs |
| `RetryTiming`, `MC_RetryTiming` | the effect with a clock since the last activation; one window whose title stays empty | composition, TLC instance |
| `PluginLifecycle_proofs` | the TLAPS proofs of the lifecycle's type correctness and of `InstallPreservesEnabledState` | proofs |
| `EffectHost` | what KWin does with the plugin under the scripts, without the commands (CONSTANT `Builds`) | abstract spec |
| `PluginLifecycle_refinement` | the TLAPS proof that the lifecycle implements `EffectHost` | proofs |

### ActiveClientEffect

**State.**

| Variable | Meaning |
|----------|---------|
| `windows`, `active`, `caption` | the compositor |
| `subscribed` | the windows whose `captionChanged` lambda is connected |
| `lastActiveWindow`, `polledWindows` | the two members of the class |
| `timers` | the pending singleShot callbacks, each a record: callback, captured attempt, ms until due |
| `sent` | the D-Bus signal of the last step |
| `view` | the class and title of the last `Changed` or `Initial` signal, i.e. what the automation engine believes is focused |

**Titles.** A title is a sequence of characters, so `HasProblematicTitle` is
the code's test itself: the title is empty or starts with `"_"`. `Usable` adds
the code's `windowTitle != windowClass`.

**Actions.** Each action is a whole slot, including everything it calls.

| Action | Code |
|--------|------|
| `AddWindow` | `onWindowAdded` |
| `RemoveWindow` | `onWindowRemoved` |
| `ActivateWindow` | `windowActivated` → `onActiveClientChanged` |
| `SetCaption` | the `captionChanged` lambda, when connected |
| `Tick` | time passing by `TimeStep` while no callback is due |
| `Fire(i)` | the event loop runs the due callback `i` |

- `Fire(i)` dispatches to `EmitInitialState`, `OnActiveClientChanged`,
  `RetryLambda` (which calls `RetryActiveWindowTitle(attempt + 1)`) or
  `PollWindowTitle`.
- Callbacks that are due at the same time run in any order.
- `OnActiveClientChanged(a, tq)` inlines the call `retryActiveWindowTitle(1)`.
  At that point `m_lastActiveWindow` is the active window, so the call
  schedules the first retry after `RetryDelay(1)` = 50 ms.

**Bounds.**

- `MaxTimers` bounds the pending callbacks. It appears as a guard on the
  actions that schedule one. With 2 pending callbacks, the model reaches:
  - a retry pending with a 0 ms `onActiveClientChanged`;
  - two retry chains at once.
- `RetryDelay(n)` is `50 * 2^(n-1)`. That is the code's
  `50 * (1 << (attempt - 1))` for attempts 1..3, where the shift cannot
  overflow.

**Initial state.** When the plugin loads, the compositor may already manage
any set of windows, with any titles and any one of them active. None of them
is connected, and `emitInitialState` is pending.

### FocusNotifier and the refinement

`FocusNotifier` states what the effect promises the engine, with no timers.
Its variables are `managed`, `focus`, `title`, `connected` and `reported`.

- `Add`, `Remove`, `Activate` and `Retitle` are the compositor's events.
- `Activate` reports the new focus at once.
- `Retitle` reports the new title of the focused window, if it is connected.
- `Refresh` re-reports the current title of the focused window. When nothing
  is focused, it may report any managed window.

`ActiveClientEffect` defines the refinement mapping
`Notifier == INSTANCE FocusNotifier WITH managed <- windows, focus <- active,
title <- caption, connected <- subscribed, reported <- view`. It hides
`lastActiveWindow`, `polledWindows`, `timers` and `sent`.

- `Tick` and callbacks that send nothing are stutters.
- A callback that sends `Changed` or `Initial` is a `Refresh`.
- `ImplementsNotifier == Notifier!Spec`.

`Refresh` allows a report about a managed window while nothing is focused.
This is weaker than spec 4.2, and it is exactly finding 1.

### RetryTiming

This module adds one variable, `since`: the milliseconds since the last
`windowActivated`, capped at `Horizon` = 1100.

- The focus moves only while no check of an earlier activation is pending.
  That keeps the question to one retry sequence.
- `SpecCheckTimes` is the schedule of spec 8's second testable property
  (and scenario A): checks 50, 200 and 550 ms after the activation, then
  every 500 ms. The code's delays are 50, 100 and 200 ms, so its checks
  fall at 50, 150 and 350 ms. Those are the cumulative times that the
  comment on cpp:90 lists, and the formula of spec 4.2 gives the same
  delays. Only spec 8's schedule differs.

### PluginLifecycle

**State.**

| Variable | Meaning |
|----------|---------|
| `srcVersion` | the source in the working tree |
| `files` | the plugin file at each of four locations: `profile` (nix package), `qt6` (dev-shell install), `legacy` (the paths the installer's step 1 cleans), `effectsPlugins` (the path its step 3 checks) |
| `config` | the kwinrc key: absent file, unset key, `true`, `false` |
| `kwin`, `loaded` | whether KWin runs, and the version of the effect it has loaded |
| `buildExists` | whether `build/` exists |
| `cwd` | the shell's directory: project root, or inside `build/` |
| `said` | the outcome that the last command reported |

**Actions.** Each command is one action:

- `EnablePlugin`, `DisablePlugin`, `StatusPlugin`;
- `Clean`, `Build`, `Install`, `ForceInstall`, `Status`;
- `Installer`.

**Environment steps.** `EditSource`, `KWinStart` and `KWinStop`.

**KWin's side, written from how the scripts rely on it:**

- `Reconfigured`: reconfigure may load an enabled effect and may unload a
  disabled one.
- `LoadEffect`: loads the effect if a file is found. It replies true or false.
  qdbus exits 0 either way.
- `LoadedAtLogin`: the effect is loaded only when kwinrc enables it, because
  `enabledByDefault()` is false.

**Failures that are modelled:**

- `make install` in the dev shell may fail. It then stays in `build/`, because
  the `&& cd ..` is skipped.
- The installer's cargo build may fail.
- The build script behind `cargo build` is not in this repository. Whether it
  puts a fresh file where step 3 looks is left open (`CargoInstalled`).

### EffectHost and the lifecycle refinement

`EffectHost` keeps only what KWin sees:

- whether it runs (`running`);
- whether kwinrc enables the effect (`enabled`);
- the plugin versions its loader can find (`plugins`);
- the version it has loaded (`current`).

Its steps:

- `Start` loads a plugin file at login, and only when the key enables the
  effect.
- `Stop` unloads.
- `Change` is every other step. The files and the key may change. In the
  same step KWin keeps the loaded effect, or:
  - loads a file that exists after the step, but only while it runs, the key
    (as the step leaves it) enables the effect, and nothing is loaded;
  - or unloads the effect, but only when the key no longer enables it.

A loaded build is therefore never swapped for another one. The
"Reloading KWin..." of `install` and `force-install` does not bring a new
build into a running KWin, which already holds one.

`PluginLifecycle` defines the mapping:
`Host == INSTANCE EffectHost WITH running <- (kwin = "running"),
enabled <- EnabledInConfig(config), plugins <- Available(files),
current <- loaded`.

- `KWinStart` and `KWinStop` are `Start` and `Stop`.
- The commands that write kwinrc, install or reload KWin are `Change`.
- The rest are stutters.
- `ImplementsHost == Host!HSpec`.

## 3. Runs

All runs use the MC modules above.

| Run | cfg | Expect | Checks |
|-----|-----|--------|--------|
| effect_safety | `MC_ActiveClientEffect.cfg` | pass | `TypeOK`, `NoDanglingReference`, `FocusViewCurrent`, `ImplementsNotifier`, `SignalsOnlyForLiveWindows` |
| effect_retry_liveness | `MC_ActiveClientEffect_live.cfg` | pass | `RetryChainsStop` |
| changed_for_inactive | `MC_ChangedOnlyForActive.cfg` | violation | `ChangedOnlyForActive` |
| parallel_retry_chains | `MC_SingleRetrySequence.cfg` | violation | `SingleRetrySequence` |
| focus_never_reported | `MC_FocusEventuallyReported.cfg` | violation | `FocusEventuallyReported` |
| lifecycle_safety | `MC_PluginLifecycle.cfg` | pass | `TypeOK`, `InstallPreservesEnabledState`, `ImplementsHost` |
| false_load_report | `MC_LoadedReportTrue.cfg` | violation | `LoadedReportTrue` |
| false_install_report | `MC_InstalledReportTrue.cfg` | violation | `InstalledReportTrue` |
| stale_installer_verification | `MC_InstallerReportFresh.cfg` | violation | `InstallerReportFresh` |
| retry_schedule | `MC_ChecksOnSchedule.cfg` | violation | `ChecksOnSchedule` |

What the passing properties say:

- **`NoDanglingReference`**:
  - `m_lastActiveWindow`, every polled window and every connected window is
    still managed by the compositor;
  - so no pending retry lambda or poll can dereference a freed `Window*`;
  - this relies on `onWindowRemoved` clearing both members before its deferred
    `onActiveClientChanged` runs.
- **`FocusViewCurrent`**:
  - whenever the active window is connected, the last `Changed`/`Initial`
    signal carried its class and its current title;
  - it is broken if a late retry or poll sends another window's title, or if an
    activation leaves the view behind;
  - it needs the interplay of activation, retry lambdas, caption changes and
    removal.
- **`RetryChainsStop`** (liveness):
  - if the active window (if any) eventually keeps a usable title, all retry
    and poll callbacks eventually stop;
  - it is checked under the fairness of section 4.
- **`ImplementsNotifier`** (refinement):
  - every step of the effect is a `FocusNotifier` step or leaves the
    notifier's variables alone;
  - so no late callback tells the engine about a window other than the
    focused one while a window is focused;
  - it is checked as a temporal `PROPERTY` in the effect_safety run.
- **`SignalsOnlyForLiveWindows`** (action property):
  - `Destroyed` is sent only for the window that `onWindowRemoved` forgets;
  - every other signal, from a slot or from a late retry lambda,
    `pollWindowTitle` or deferred `onActiveClientChanged`, is about a window
    the compositor still manages;
  - so the engine never hears of a window after its `Destroyed` until the
    handle is added again;
  - to break it, a window must be activated with a loading title and
    removed, and its retry must fire afterwards.
- **`ImplementsHost`** (refinement of the lifecycle):
  - every command, edit and KWin restart is an `EffectHost` step or a
    stutter;
  - so the scripts write the kwinrc key before they ask KWin to reconfigure
    or load.
- **`InstallPreservesEnabledState`**:
  - `shell.nix` advertises that `install` "preserves enabled state";
  - whether it skips, refuses or installs, it never writes the kwinrc key and
    never unloads a loaded effect.
- Each passing property has a mutant in `PROJECT.json`. A mutant is a plausible
  bug in the code that TLC shows breaks the property:
  - four quick retries instead of three;
  - `onWindowRemoved` keeping `m_lastActiveWindow`;
  - `onActiveClientChanged` without the reset;
  - a poll that always re-arms;
  - an install that enables the plugin;
  - an installer that restores the value it read with kreadconfig6;
  - a `disable_plugin` that reconfigures KWin without writing false, which
    breaks `ImplementsHost`.
- `onActiveClientChanged` without the reset also breaks `ImplementsNotifier`.
- `onWindowRemoved` keeping `m_lastActiveWindow` also breaks
  `SignalsOnlyForLiveWindows`.

### Findings (the violation runs)

1. **changed_for_inactive** (cpp:94):
   - The retry lambda re-reads `m_lastActiveWindow` but never checks that the
     window is still active.
   - `windowActivated` with no active window returns early and does not clear
     `m_lastActiveWindow`.
   - So a title change of the old window is sent as `Changed` while nothing is
     active.
   - Spec 4.2 says such a check aborts silently.
2. **parallel_retry_chains** (cpp:62):
   - A second activation of a window with a placeholder title schedules a new
     retry without cancelling the pending one.
   - Both lambdas then work on the new `m_lastActiveWindow`, and each may end
     in its own 500 ms poll chain. With repeated activations, the poll chains
     accumulate.
   - `SingleRetrySequence` counts only retry lambdas and `pollWindowTitle`
     callbacks. The 0 ms `emitInitialState` and the deferred
     `onActiveClientChanged` are not counted, and one activation alone never
     breaks it. TLC's shortest trace starts right after load, because
     `emitInitialState` firing between the two activations is the quickest
     way there. The same violation appears when every check runs only after
     `emitInitialState` has fired.
3. **focus_never_reported** (cpp:149):
   - Windows that exist when the effect loads are never connected to
     `captionChanged`.
   - `emitInitialState` starts no polling.
   - Such a window can stay focused, with a good title that is never sent.
4. **false_load_report** (default.nix:102, also shell.nix:120):
   - The script tests qdbus's exit status, not loadEffect's boolean reply.
   - So "Plugin loaded successfully" is printed when no plugin was found.
5. **false_install_report** (shell.nix:88):
   - `cd build && make install && cd ..` is followed by an unconditional
     "Installed".
   - A failed `make install` also leaves the shell inside `build/`.
6. **stale_installer_verification** (part_001:53):
   - Step 1 cleans `.../kwin/effects` and `.../kwin/plugins`, but step 3
     checks `.../kwin/effects/plugins`.
   - So a file from an earlier install passes the verification.

7. **retry_schedule** (cpp:91):
   - The delay is `50 * (1 << (attempt - 1))`: 50, 100 and 200 ms.
   - So the checks fall 50, 150 and 350 ms after the activation, and the first
     poll at 850 ms.
   - These are the cumulative times that the comment on line 90 lists, and
     the formula `50 * 2^(attempt-1)` of spec 4.2 gives the same delays. The
     code agrees with both.
   - Spec 8's second testable property says the checks fall at 50, 200
     (50+150) and 550 (200+350) ms and then every 500 ms. Scenario A has
     the second check at 200 ms. Spec 4.2's list "50ms, 150ms, 350ms" reads
     the same way if it is taken as the delays.
   - TLC shows the second retry scheduled for 150 ms, which is off that
     schedule.

### Bounds and why they are enough

**Effect.**

- Two windows are enough for:
  - focus moving away while a retry is pending;
  - a removed window;
  - a handle reused by a new window (a removed window may be re-added).
- Four titles cover every branch of the title test: empty, `"_"`-prefixed,
  equal to the class, and usable.
  - The liveness run uses only `""` and `"c"` (`MCTitlesLive`). An empty
    caption keeps the retries going, and `"c"` is usable for both windows.
  - That keeps its graph at 0.3 M states, so the liveness check and its
    mutant each finish in about 20 s. Two callbacks may still be pending at
    once.
- `MaxTimers = 2` lets two callbacks be pending at once. That is the smallest
  bound at which the ordering hazards appear, and the safety run explores
  1.8 M distinct states.
- `TimeStep = 50` ms is the greatest common divisor of every delay in the
  code, so no firing order is lost by the discretisation.

**Retry timing.** One window whose title stays empty makes every check fail,
so the whole schedule runs.

**Lifecycle.**

- Two source versions are enough for a stale file.
- The initial state leaves any combination of earlier files, kwinrc states,
  `build/` and running KWin.

## 4. Fairness

The effect's liveness run assumes:

- `SF_vars(Tick)`: time passes however busy the compositor is.
- `WF_vars(Fire(i))` for each slot `i` of the timer queue: a due callback
  stays due until the event loop runs it.

This is what Qt's single-threaded event loop guarantees: timers are delivered
even while other events arrive. No fairness is assumed for the compositor's
events or the user. The lifecycle model states no liveness property.

## 5. Proofs (TLAPS)

`ActiveClientEffect_proofs` proves, for every value of the constants:

- **`TypeCorrect`**: `Spec => []TypeOK`.
  - Lemmas about the data:
    - `DropTimer` keeps a queue of `Timers` and shortens it by one;
    - `Append` below `MaxTimers` stays within it;
    - `RetryDelay(1..3)` is within 0..500;
    - signals and views built from a window are well formed.
  - Lemmas for each slot: `OnActiveClientChanged`, `RetryLambda`,
    `PollWindowTitle` and `EmitInitialState` each keep the part of `TypeOK`
    that they write.
  - Lemmas for each compositor event and for `Tick` and `Fire`.
  - `NextType` combines them, and the theorem follows by PTL.
- **`FocusSafety`**: `Spec => [](NoDanglingReference /\ FocusViewCurrent)`.
  - `FocusViewCurrent` alone is not inductive. A retry lambda sends `Changed`
    for `m_lastActiveWindow`, so the proof needs to know which window that is.
  - The inductive invariant is
    `IInv == TypeOK /\ NoDanglingReference /\ LastActiveIsFocus /\ FocusViewCurrent`,
    where `LastActiveIsFocus` says: whenever a window is active,
    `m_lastActiveWindow` is cleared or that window.
  - TLC checked `LastActiveIsFocus` as an invariant on the safety instance
    before the proof was written.
  - The lemma `CallbackSafe` covers every callback at once. A callback that
    - keeps or clears `m_lastActiveWindow`,
    - only shrinks `m_polledWindows`,
    - and sets the view either to the active window or to
      `m_lastActiveWindow`,

    preserves the invariant.
  - Each compositor event has its own lemma.

- **`NoDangling`**: `Spec => []NoDanglingReference`, a corollary of
  `FocusSafety`. The inductive step is split into the lemmas `IInvInit` and
  `IInvNext`, which the two proofs below reuse.

- **`LiveSignals`**: `Spec => SignalsOnlyForLiveWindows`.
  - It rests on `IInv`, because the retry lambda sends about
    `m_lastActiveWindow`, and only `NoDanglingReference` puts that window
    among the managed ones.
  - `FireLive`: every callback sends about `windows` or nothing.
  - `LiveNext`: from `IInv`, every step satisfies the property's step.
  - The temporal step combines this with `IInvInit` and `IInvNext` by PTL.

`ActiveClientEffect_refinement` proves **`Refinement`**:
`Spec => ImplementsNotifier`.

- `InitMaps`: an initial state of the effect is an initial state of the
  notifier.
- `NextMaps`: from a state of `IInv`, every step maps to the notifier step of
  the same name, or to a stutter for `Tick`.
- `FireReport`: every callback is a `ReportStep`. Its view either stays the
  same or becomes a window of `ReportableNow`.
  - For the retry lambda, this uses `LastActiveIsFocus` and
    `NoDanglingReference` from `IInv`: `m_lastActiveWindow` is the focus, or,
    with no focus, a managed window.
- `ReportStepMaps`: a `ReportStep` is a `Refresh` or a stutter.

**Assumptions.** The proofs use the module's named assumptions:

- `NoneAssumption`: `None` is not a window.
- `TitleAssumption`: titles and classes are strings.
- `BoundAssumption`: `TimeStep` and `MaxTimers` are positive naturals.

`PluginLifecycle_proofs` proves, for every `MaxVersion`:

- **`TypeCorrect`**: `Spec => []TypeOK`.
  - It rests on lemmas saying that reconfigure, loadEffect and login only
    ever load a version that some location holds.
- **`InstallPreserves`**: `Spec => InstallPreservesEnabledState`.
  - Only `Install` reports `skipped`, `noBuildDir` or `installed`
    (`OnlyInstallReportsInstall`).
  - `Install` writes no kwinrc key. It reconfigures KWin only when the key
    reads `true`, and a reconfigure with the effect enabled and loaded keeps
    it loaded (`InstallKeepsLoaded`).
  - No invariant is needed.
- It assumes only `VersionAssumption`: `MaxVersion` is a positive natural.

`PluginLifecycle_refinement` proves **`Refinement`**:
`Spec => ImplementsHost`, for every `MaxVersion`.

- No invariant is needed beyond `TypeOK` of the new state, which `NextType`
  gives. Every reconfigure and loadEffect in the scripts runs only while KWin
  answers, and after the command has written the key that KWin reads.
- `ReconfiguredChange`: a reconfigure while KWin runs is a `Change`.
- `ActivatedLoads`: reconfigure followed by loadEffect never replaces a
  loaded version, because loadEffect acts only on an empty slot and no file
  holds version 0.
- There is one lemma per command, `KWinStartMaps` and `KWinStopMaps`, then
  `InitMaps` and `NextMaps`.

**What stays with TLC:**

- The liveness property `RetryChainsStop` (it needs fairness and ENABLED).
- The timing run. Its clock `since` is reset only by `windowActivated`, so
  the schedule is only a TLC question for now (see section 7).
- The violations.

## 6. Not modelled

- **The automation engine and the session bus.** The engine is not in this
  repository. `sendDBusSignal` hands each signal to `QDBusConnection::send`
  and ignores the result (cpp:42). The model records the signal in `sent`,
  and takes `view` as what the engine was last told.
  - The bus is not modelled. On an in-order bus, "the engine's picture is
    current once the bus drains and nothing was lost" only restates
    `FocusViewCurrent`.
  - A lost signal is never resent, and spec 4.5 promises no resend
    (at most once). So no property about a loss would check anything the
    code does.
- **`supported()`** (cpp 28-31). It returns `true` to KWin, and changes no
  state.
- **Nix derivations, flake and package lists.** They are declarative and have
  no run-time state.
- **`part_000` and `verify-kde-plugin.sh`.** `part_000` is a QPluginLoader
  test program and `verify-kde-plugin.sh` is a read-only diagnostic. They
  change no state.
- **KWin's own code.** Only the behaviour the effect and the scripts rely on
  is modelled: signal delivery on the main thread, reconfigure, loadEffect,
  and loading at login.

## 7. Plan for further work

- A second abstract view of the lifecycle, "the installed build is the
  current source". The stale-verification finding would be one violation of
  that promise. `install`'s announced skip of an existing build would be
  another, and it is by design. `EffectHost` says nothing about
  freshness.
- A proof of the code's own retry schedule: checks at 50, 150 and 350 ms,
  then polls every 500 ms. It has to be stated per retry chain, because the
  deferred `onActiveClientChanged` of `onWindowRemoved` starts a chain
  without a new activation.
