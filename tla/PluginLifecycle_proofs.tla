----------------------- MODULE PluginLifecycle_proofs -----------------------
(***************************************************************************)
(* Proofs about PluginLifecycle, for every bound on the source versions.  *)
(***************************************************************************)
EXTENDS PluginLifecycle, TLAPS

USE VersionAssumption

\* KWin only ever loads a version some location holds, or nothing.
LEMMA AvailableType ==
    ASSUME NEW fs \in [Locations -> Versions]
    PROVE  Available(fs) \subseteq Versions
BY DEF Available

\* A KWin reconfigure leaves a loaded version or nothing.
LEMMA ReconfiguredType ==
    ASSUME NEW cfg, NEW fs \in [Locations -> Versions], loaded \in Versions
    PROVE  Reconfigured(cfg, fs) \subseteq Versions
BY AvailableType DEF Reconfigured, Versions

\* reconfigure followed by loadEffect leaves a loaded version or nothing.
LEMMA ActivatedType ==
    ASSUME NEW fs \in [Locations -> Versions], loaded \in Versions
    PROVE  Activated(fs) \subseteq Versions
<1>1. \A l \in Reconfigured("true", fs) : LoadEffect(l, fs) \subseteq Versions
  BY ReconfiguredType, AvailableType DEF LoadEffect
<1> QED
  BY <1>1 DEF Activated

\* A login loads a version found in some location, or nothing.
LEMMA LoadedAtLoginType ==
    ASSUME NEW cfg, NEW fs \in [Locations -> Versions]
    PROVE  LoadedAtLogin(cfg, fs) \subseteq Versions
BY AvailableType DEF LoadedAtLogin, Versions

\* The dev shell's make install keeps the files typed and the shell in one
\* of its two directories.
LEMMA MakeInstallType ==
    ASSUME TypeOK, MakeInstall
    PROVE  files' \in [Locations -> Versions] /\ cwd' \in {"root", "nested"}
BY DEF MakeInstall, TypeOK, Versions, Locations

\* Whatever an earlier session left behind is a well-formed state.
LEMMA InitType == Init => TypeOK
<1> SUFFICES ASSUME Init PROVE TypeOK  OBVIOUS
<1>1. files \in [Locations -> Versions]
  BY DEF Init, Versions
<1>2. loaded \in Versions
  BY <1>1, LoadedAtLoginType DEF Init, Versions
<1> QED
  BY <1>1, <1>2 DEF Init, TypeOK, ConfigStates, Outcomes, Versions

\* Every command, source edit and KWin restart keeps the state well formed.
LEMMA NextType == TypeOK /\ [Next]_vars => TypeOK'
<1> SUFFICES ASSUME TypeOK, [Next]_vars PROVE TypeOK'  OBVIOUS
<1> USE DEF TypeOK
<1>1. CASE EnablePlugin
  <2>1. loaded' \in Versions
    BY <1>1, ActivatedType DEF EnablePlugin
  <2> QED  BY <1>1, <2>1 DEF EnablePlugin, ConfigStates, Outcomes
<1>2. CASE DisablePlugin
  <2>1. loaded' \in Versions
    BY <1>2, ReconfiguredType DEF DisablePlugin
  <2> QED  BY <1>2, <2>1 DEF DisablePlugin, ConfigStates, Outcomes
<1>3. CASE StatusPlugin
  BY <1>3 DEF StatusPlugin, Outcomes
<1>4. CASE Clean
  BY <1>4 DEF Clean, Outcomes
<1>5. CASE Build
  BY <1>5 DEF Build, Outcomes
<1>6. CASE Install
  <2>1. files' \in [Locations -> Versions] /\ cwd' \in {"root", "nested"}
    BY <1>6, MakeInstallType DEF Install
  <2>2. loaded' \in Versions
    BY <1>6, <2>1, ReconfiguredType DEF Install
  <2> QED  BY <1>6, <2>1, <2>2 DEF Install, Outcomes
<1>7. CASE ForceInstall
  <2>1. files' \in [Locations -> Versions] /\ cwd' \in {"root", "nested"}
        /\ buildExists' \in BOOLEAN
    BY <1>7, MakeInstallType DEF ForceInstall
  <2>2. loaded' \in Versions
    BY <1>7, <2>1, ActivatedType DEF ForceInstall
  <2> QED  BY <1>7, <2>1, <2>2 DEF ForceInstall, ConfigStates, Outcomes
<1>8. CASE Status
  BY <1>8 DEF Status, Outcomes
<1>9. CASE Installer
  <2> DEFINE cleaned == [files EXCEPT !["legacy"] = 0]
  <2>1. cleaned \in [Locations -> Versions]
    BY DEF Versions, Locations
  <2>2. files' \in [Locations -> Versions]
    <3>1. CargoInstalled(cleaned) \subseteq [Locations -> Versions]
      BY <2>1 DEF CargoInstalled, Versions, Locations
    <3> QED  BY <1>9, <2>1, <3>1 DEF Installer
  <2>3. loaded' \in Versions
    BY <1>9, <2>2, ReconfiguredType DEF Installer
  <2> QED  BY <1>9, <2>2, <2>3 DEF Installer, ConfigStates, Outcomes
<1>10. CASE EditSource
  BY <1>10 DEF EditSource, Outcomes
<1>11. CASE KWinStart
  <2>1. loaded' \in Versions
    BY <1>11, LoadedAtLoginType DEF KWinStart
  <2> QED  BY <1>11, <2>1 DEF KWinStart, Outcomes
<1>12. CASE KWinStop
  BY <1>12 DEF KWinStop, Outcomes, Versions
<1>13. CASE UNCHANGED vars
  BY <1>13 DEF vars
<1> QED
  BY <1>1, <1>2, <1>3, <1>4, <1>5, <1>6, <1>7, <1>8, <1>9, <1>10, <1>11,
     <1>12, <1>13 DEF Next, Commands

\* Type correctness of the scripts' shared state: the plugin files, the
\* kwinrc key, KWin's loaded effect and the dev shell's directory keep
\* their types over every sequence of commands and KWin restarts.
THEOREM TypeCorrect == Spec => []TypeOK
BY InitType, NextType, PTL DEF Spec

\* The outcomes only the dev shell's install reports.
InstallOutcomes == {"skipped", "noBuildDir", "installed"}

\* The step the property constrains.
InstallStep ==
    said' \in InstallOutcomes =>
        /\ config' = config
        /\ (loaded # 0 => loaded' = loaded)

\* Install reloads KWin only for an enabled plugin, and reconfigure keeps an
\* enabled effect that is loaded.
LEMMA InstallKeepsLoaded ==
    ASSUME Install PROVE config' = config /\ (loaded # 0 => loaded' = loaded)
<1>1. config' = config
  BY DEF Install
<1>2. ASSUME loaded # 0 PROVE loaded' = loaded
  <2>1. CASE ReadEnabled(config) = "true" /\ kwin = "running"
    <3>1. config = "true"
      BY <2>1 DEF ReadEnabled
    <3>2. Reconfigured(config, files') = {loaded}
      BY <1>2, <3>1 DEF Reconfigured, EnabledInConfig
    <3> QED  BY <3>2 DEF Install
  <2>2. CASE ~(ReadEnabled(config) = "true" /\ kwin = "running")
    BY <2>2 DEF Install
  <2> QED  BY <2>1, <2>2
<1> QED
  BY <1>1, <1>2

\* No command but install reports an install outcome.
LEMMA OnlyInstallReportsInstall ==
    ASSUME [Next]_vars, said' \in InstallOutcomes
    PROVE  Install \/ UNCHANGED vars
BY DEF Next, Commands, InstallOutcomes, EnablePlugin, DisablePlugin,
       StatusPlugin, Clean, Build, ForceInstall, Status, Installer,
       EditSource, KWinStart, KWinStop

\* shell.nix's install "preserves enabled state": in every behaviour, a
\* step that reports skipped, no build directory or installed leaves the
\* kwinrc key as it was and keeps a loaded effect loaded.
THEOREM InstallPreserves == Spec => InstallPreservesEnabledState
<1>1. [Next]_vars => InstallStep
  <2> SUFFICES ASSUME [Next]_vars, said' \in InstallOutcomes
               PROVE  config' = config /\ (loaded # 0 => loaded' = loaded)
    BY DEF InstallStep
  <2>1. Install \/ UNCHANGED vars
    BY OnlyInstallReportsInstall
  <2> QED
    BY <2>1, InstallKeepsLoaded DEF vars
<1> QED
  BY <1>1, PTL DEF Spec, InstallPreservesEnabledState, InstallStep,
     InstallOutcomes

=============================================================================
