------------------------------ MODULE EffectHost ------------------------------
(***************************************************************************)
(* What KWin does with the effect's plugin, as the lifecycle scripts and   *)
(* the session see it, without the commands themselves.                    *)
(*                                                                         *)
(*  - At session start KWin loads the effect if kwinrc enables it and a    *)
(*    plugin file is found; when KWin stops, nothing is loaded.            *)
(*  - Any other step may change the plugin files and the kwinrc key.  In   *)
(*    the same step KWin may load a plugin file that exists after it, but  *)
(*    only while it runs, the key enables the effect and nothing is        *)
(*    loaded; or unload the effect, but only when the key no longer        *)
(*    enables it.                                                          *)
(*  - A loaded version is never replaced by another one: a new build       *)
(*    reaches the running KWin only after an unload or a restart.          *)
(*                                                                         *)
(* PluginLifecycle implements this specification under the mapping Host.   *)
(***************************************************************************)
CONSTANT Builds   \* the versions a plugin file can hold (0: no file)

VARIABLES
    running,   \* KWin runs
    enabled,   \* kwinrc enables the effect
    plugins,   \* the versions of the plugin files KWin's loader can find
    current    \* the version KWin has loaded (0: none)

hvars == <<running, enabled, plugins, current>>

Plugins == SUBSET (Builds \ {0})

\* What KWin loads when a session starts.
AtLogin(en, ps) == IF en /\ ps # {} THEN ps ELSE {0}

HInit ==
    /\ running \in BOOLEAN
    /\ enabled \in BOOLEAN
    /\ plugins \in Plugins
    /\ current \in IF running THEN AtLogin(enabled, plugins) ELSE {0}

Start ==
    /\ ~running
    /\ running'
    /\ current' \in AtLogin(enabled, plugins)
    /\ UNCHANGED <<enabled, plugins>>

Stop ==
    /\ running
    /\ ~running'
    /\ current' = 0
    /\ UNCHANGED <<enabled, plugins>>

\* The files and the key change; KWin keeps, loads or unloads the effect.
Change ==
    /\ enabled' \in BOOLEAN
    /\ plugins' \in Plugins
    /\ \/ current' = current
       \/ running /\ enabled' /\ current = 0 /\ current' \in plugins'
       \/ running /\ ~enabled' /\ current' = 0
    /\ UNCHANGED running

HNext == Start \/ Stop \/ Change

HSpec == HInit /\ [][HNext]_hvars

=============================================================================
