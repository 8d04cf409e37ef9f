-------------------- MODULE PluginLifecycle_refinement --------------------
(***************************************************************************)
(* PluginLifecycle implements EffectHost under the mapping Host, for every *)
(* bound on the source versions.  A session start is Host's Start, a KWin  *)
(* stop its Stop; every command that writes kwinrc, installs or reloads    *)
(* KWin is a Change, and the rest leave Host's variables alone.  Each      *)
(* reload happens only while KWin answers (kwin = "running"), after the    *)
(* command has written the key it reads; the only fact needed besides that *)
(* is the type invariant of the new state.                                 *)
(***************************************************************************)
EXTENDS PluginLifecycle_proofs

\* Host's Change over PluginLifecycle's variables.
HostChange ==
    /\ EnabledInConfig(config') \in BOOLEAN
    /\ Available(files') \in Host!Plugins
    /\ \/ loaded' = loaded
       \/ /\ kwin = "running" /\ EnabledInConfig(config') /\ loaded = 0
          /\ loaded' \in Available(files')
       \/ kwin = "running" /\ ~EnabledInConfig(config') /\ loaded' = 0
    /\ (kwin' = "running") = (kwin = "running")

-----------------------------------------------------------------------------
(* KWin's loader.                                                          *)

\* The loader finds only files that exist: version 0 is never among them.
LEMMA AvailablePlugins ==
    ASSUME NEW fs \in [Locations -> Versions]
    PROVE  Available(fs) \in Host!Plugins
BY DEF Available, Host!Plugins, Versions

\* A reconfigure while KWin runs keeps the loaded effect, loads a plugin
\* file into an empty slot when the key enables the effect, or unloads it
\* when the key does not.
LEMMA ReconfiguredChange ==
    ASSUME NEW cfg, cfg = config', kwin = "running", kwin' = kwin,
           files' \in [Locations -> Versions],
           loaded' \in Reconfigured(cfg, files')
    PROVE  HostChange
<1>1. Available(files') \in Host!Plugins
  BY AvailablePlugins
<1>2. EnabledInConfig(config') \in BOOLEAN
  BY DEF EnabledInConfig
<1>3. CASE EnabledInConfig(cfg)
  <2>1. loaded' = loaded \/ (loaded = 0 /\ loaded' \in Available(files'))
    BY <1>3 DEF Reconfigured
  <2> QED  BY <1>1, <1>2, <1>3, <2>1 DEF HostChange
<1>4. CASE ~EnabledInConfig(cfg)
  <2>1. loaded' = loaded \/ loaded' = 0
    BY <1>4 DEF Reconfigured
  <2> QED  BY <1>1, <1>2, <1>4, <2>1 DEF HostChange
<1> QED  BY <1>3, <1>4

\* enable_plugin's reconfigure-then-loadEffect never replaces a loaded
\* version: loadEffect acts only on an empty slot.
LEMMA ActivatedLoads ==
    ASSUME NEW fs \in [Locations -> Versions]
    PROVE  Activated(fs) \subseteq {loaded} \cup
                                  (IF loaded = 0 THEN Available(fs) ELSE {})
<1>1. 0 \notin Available(fs)
  BY DEF Available
<1>2. ASSUME NEW l \in Reconfigured("true", fs)
      PROVE  LoadEffect(l, fs) \subseteq
                 {loaded} \cup (IF loaded = 0 THEN Available(fs) ELSE {})
  <2>1. l = loaded \/ (loaded = 0 /\ l \in Available(fs))
    BY DEF Reconfigured, EnabledInConfig
  <2>2. CASE l = loaded
    BY <2>2 DEF LoadEffect
  <2>3. CASE loaded = 0 /\ l \in Available(fs)
    BY <1>1, <2>3 DEF LoadEffect
  <2> QED  BY <2>1, <2>2, <2>3
<1> QED  BY <1>2 DEF Activated

\* enable_plugin and force-install, with the key written true, reload KWin
\* as a Change.
LEMMA ActivatedChange ==
    ASSUME config' = "true", kwin = "running", kwin' = kwin,
           files' \in [Locations -> Versions],
           loaded' \in Activated(files')
    PROVE  HostChange
<1>1. loaded' \in {loaded} \cup (IF loaded = 0 THEN Available(files') ELSE {})
  BY ActivatedLoads
<1>2. Available(files') \in Host!Plugins
  BY AvailablePlugins
<1>3. EnabledInConfig(config') = TRUE
  BY DEF EnabledInConfig
<1>4. loaded' = loaded \/ (loaded = 0 /\ loaded' \in Available(files'))
  BY <1>1
<1> QED  BY <1>2, <1>3, <1>4 DEF HostChange

\* A command that touches neither KWin's slot nor whether KWin runs is a
\* Change that keeps the loaded effect.
LEMMA KeepsLoadedChange ==
    ASSUME loaded' = loaded, kwin' = kwin, files' \in [Locations -> Versions]
    PROVE  HostChange
<1>1. Available(files') \in Host!Plugins
  BY AvailablePlugins
<1>2. EnabledInConfig(config') \in BOOLEAN
  BY DEF EnabledInConfig
<1> QED  BY <1>1, <1>2 DEF HostChange

\* HostChange is Host's Change.
LEMMA HostChangeIsChange ==
    ASSUME HostChange PROVE [Host!HNext]_Host!hvars
<1>1. Host!Change
  BY DEF HostChange, Host!Change, Available, EnabledInConfig
<1> QED  BY <1>1 DEF Host!HNext

-----------------------------------------------------------------------------
(* The commands.  Each lemma takes the type of the new plugin files, which  *)
(* NextType gives.                                                          *)

\* enable_plugin writes true, then reconfigures and calls loadEffect if
\* KWin answers.
LEMMA EnablePluginMaps ==
    ASSUME files' \in [Locations -> Versions], EnablePlugin
    PROVE  HostChange
<1>1. CASE kwin = "running"
  BY <1>1, ActivatedChange DEF EnablePlugin
<1>2. CASE kwin # "running"
  BY <1>2, KeepsLoadedChange DEF EnablePlugin
<1> QED  BY <1>1, <1>2

\* disable_plugin writes false, then reconfigures if KWin answers.
LEMMA DisablePluginMaps ==
    ASSUME files' \in [Locations -> Versions], DisablePlugin
    PROVE  HostChange
<1>1. CASE kwin = "running"
  <2>1. config' = "false" /\ kwin' = kwin /\ loaded' \in Reconfigured("false", files')
    BY <1>1 DEF DisablePlugin
  <2> QED  BY <1>1, <2>1, ReconfiguredChange
<1>2. CASE kwin # "running"
  BY <1>2, KeepsLoadedChange DEF DisablePlugin
<1> QED  BY <1>1, <1>2

\* install reconfigures with the key it leaves as it found it, and only
\* when that key reads true and KWin answers.
LEMMA InstallMaps ==
    ASSUME files' \in [Locations -> Versions], Install
    PROVE  HostChange
<1>1. config' = config /\ kwin' = kwin
  BY DEF Install
<1>2. CASE ReadEnabled(config) = "true" /\ kwin = "running"
  <2>1. loaded' = loaded \/ loaded' \in Reconfigured(config, files')
    BY <1>2 DEF Install
  <2>2. CASE loaded' = loaded
    BY <1>1, <2>2, KeepsLoadedChange
  <2>3. CASE loaded' \in Reconfigured(config, files')
    BY <1>1, <1>2, <2>3, ReconfiguredChange
  <2> QED  BY <2>1, <2>2, <2>3
<1>3. CASE ~(ReadEnabled(config) = "true" /\ kwin = "running")
  BY <1>1, <1>3, KeepsLoadedChange DEF Install
<1> QED  BY <1>2, <1>3

\* force-install writes true after its make install, then reconfigures
\* and calls loadEffect on the new files if KWin answers.
LEMMA ForceInstallMaps ==
    ASSUME files' \in [Locations -> Versions], ForceInstall
    PROVE  HostChange
<1>1. CASE kwin = "running"
  BY <1>1, ActivatedChange DEF ForceInstall
<1>2. CASE kwin # "running"
  BY <1>2, KeepsLoadedChange DEF ForceInstall
<1> QED  BY <1>1, <1>2

\* The installer leaves KWin alone unless its verification passes; then it
\* writes true and reconfigures KWin if it answers.
LEMMA InstallerMaps ==
    ASSUME files' \in [Locations -> Versions], Installer
    PROVE  HostChange
<1>1. kwin' = kwin
  BY DEF Installer
<1>2. CASE config' = "true" /\ kwin = "running"
  <2>1. loaded' \in Reconfigured("true", files')
    BY <1>2 DEF Installer
  <2> QED  BY <1>1, <1>2, <2>1, ReconfiguredChange
<1>3. CASE ~(config' = "true" /\ kwin = "running")
  <2>1. loaded' = loaded
    BY <1>3 DEF Installer
  <2> QED  BY <1>1, <2>1, KeepsLoadedChange
<1> QED  BY <1>2, <1>3

\* A session start loads what Host's Start loads.
LEMMA KWinStartMaps ==
    ASSUME KWinStart PROVE Host!Start
BY DEF KWinStart, Host!Start, Host!AtLogin, LoadedAtLogin, Available,
       EnabledInConfig

\* KWin stopping is Host's Stop.
LEMMA KWinStopMaps ==
    ASSUME KWinStop PROVE Host!Stop
BY DEF KWinStop, Host!Stop, Available, EnabledInConfig

-----------------------------------------------------------------------------

\* A fresh dev shell, with whatever an earlier session left behind, is an
\* initial state of the host.
LEMMA InitMaps == Init => Host!HInit
<1> SUFFICES ASSUME Init PROVE Host!HInit  OBVIOUS
<1>1. files \in [Locations -> Versions]
  BY VersionAssumption DEF Init, Versions
<1>2. Available(files) \in Host!Plugins
  BY <1>1, AvailablePlugins
<1>3. EnabledInConfig(config) \in BOOLEAN
  BY DEF EnabledInConfig
<1> QED
  BY <1>2, <1>3 DEF Init, Host!HInit, Host!AtLogin, LoadedAtLogin

\* Every step of the scripts, the developer and KWin is a step of the host
\* or leaves its variables alone.
LEMMA NextMaps == TypeOK' /\ [Next]_vars => [Host!HNext]_Host!hvars
<1> SUFFICES ASSUME TypeOK', [Next]_vars PROVE [Host!HNext]_Host!hvars
  OBVIOUS
<1>1. files' \in [Locations -> Versions]
  BY DEF TypeOK
<1>2. CASE EnablePlugin \/ DisablePlugin \/ Install \/ ForceInstall \/ Installer
  BY <1>1, <1>2, EnablePluginMaps, DisablePluginMaps, InstallMaps,
     ForceInstallMaps, InstallerMaps, HostChangeIsChange
<1>3. CASE StatusPlugin \/ Clean \/ Build \/ Status \/ EditSource
  BY <1>3 DEF StatusPlugin, Clean, Build, Status, EditSource, Host!hvars
<1>4. CASE KWinStart
  BY <1>4, KWinStartMaps DEF Host!HNext
<1>5. CASE KWinStop
  BY <1>5, KWinStopMaps DEF Host!HNext
<1>6. CASE UNCHANGED vars
  BY <1>6 DEF vars, Host!hvars
<1> QED
  BY <1>2, <1>3, <1>4, <1>5, <1>6 DEF Next, Commands

\* The lifecycle scripts drive KWin only as EffectHost allows, for every
\* bound on the source versions: the effect is loaded only while kwinrc
\* enables it and from a plugin file that exists, a loaded build is never
\* swapped for a newer one by enable, install, force-install or the
\* installer, and only disable_plugin's reconfigure or a KWin stop unloads
\* it.
THEOREM Refinement == Spec => ImplementsHost
<1>1. Init => Host!HInit
  BY InitMaps
<1>2. TypeOK' /\ [Next]_vars => [Host!HNext]_Host!hvars
  BY NextMaps
<1>3. Init => TypeOK
  BY InitType
<1>4. TypeOK /\ [Next]_vars => TypeOK'
  BY NextType
<1> QED
  BY <1>1, <1>2, <1>3, <1>4, PTL DEF Spec, ImplementsHost, Host!HSpec


=============================================================================
