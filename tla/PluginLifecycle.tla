--------------------------- MODULE PluginLifecycle ---------------------------
(***************************************************************************)
(* The life of the effect's plugin outside the compositor: the developer   *)
(* shell's helpers (clean, build, install, force-install, status in        *)
(* shell.nix), the ahk-kwin-setup script (enable, disable, status in       *)
(* default.nix) and the stand-alone installer script.  They share the      *)
(* plugin files under ~/.local, the Plugins/ahk-wayland-activeclientEnabled *)
(* key of kwinrc and the running KWin, which loads the effect at login, on *)
(* reconfigure and on loadEffect.                                          *)
(*                                                                         *)
(* Every command runs to its end before the next one starts (the user      *)
(* types them one after the other); KWin may start or stop in between.     *)
(* What a command prints is kept only as the outcome the user relies on.   *)
(***************************************************************************)
EXTENDS Naturals, FiniteSets

CONSTANT MaxVersion   \* how many times the developer edits the source

ASSUME VersionAssumption == MaxVersion \in Nat \ {0}

(* Where a plugin file can be:                                             *)
(*   profile        the nix package's plugin, in the user's profile;       *)
(*   qt6            ~/.local/lib/qt-6/plugins/.../plugins, where the dev    *)
(*                  shell's make install puts it;                          *)
(*   legacy         ~/.local/lib/plugins/kwin/{effects,plugins}, which the *)
(*                  installer removes;                                     *)
(*   effectsPlugins ~/.local/lib/plugins/kwin/effects/plugins, which the   *)
(*                  installer checks after its build.                      *)
Locations == {"profile", "qt6", "legacy", "effectsPlugins"}

\* Version 0 is "no file"; a build of the source at version v yields v.
Versions == 0..MaxVersion

\* The kwinrc key: no kwinrc at all, kwinrc without the key, or its value.
ConfigStates == {"absent", "unset", "true", "false"}

VARIABLES
    srcVersion,   \* the source the developer has in the working tree
    files,        \* the plugin file at each location (0: none)
    config,       \* Plugins/ahk-wayland-activeclientEnabled in kwinrc
    kwin,         \* "running" or "stopped"
    loaded,       \* the version of the effect KWin has loaded (0: none)
    buildExists,  \* ./build exists, seen from the project root
    cwd,          \* the dev shell's directory: "root" or "nested" in build/
    said          \* the outcome the last command reported

vars == <<srcVersion, files, config, kwin, loaded, buildExists, cwd, said>>

-----------------------------------------------------------------------------
(* KWin, as the scripts drive it.                                          *)

\* The versions KWin's loader can find by the plugin's name.
Available(fs) == {fs[l] : l \in {l \in Locations : fs[l] # 0}}

\* The effect declares enabledByDefault() false: KWin loads it only when
\* the kwinrc key is "true".
EnabledInConfig(cfg) == cfg = "true"

\* qdbus org.kde.KWin /KWin reconfigure: KWin re-reads kwinrc; it may load
\* the effect if it is enabled and not loaded, and may unload it if it is
\* disabled.
Reconfigured(cfg, fs) ==
    IF EnabledInConfig(cfg)
    THEN {loaded} \cup (IF loaded = 0 THEN Available(fs) ELSE {})
    ELSE {loaded, 0}

\* qdbus ... org.kde.kwin.Effects.loadEffect on an effect in state l: it
\* loads the effect if it is not loaded and a plugin file is found.  It
\* replies true or false; qdbus exits 0 either way.
LoadEffect(l, fs) == IF l # 0 \/ Available(fs) = {} THEN {l} ELSE Available(fs)

\* Reconfigure, then loadEffect, as enable_plugin and force-install do.
Activated(fs) == UNION {LoadEffect(l, fs) : l \in Reconfigured("true", fs)}

\* check_enabled / kreadconfig6 ... || echo "false": the value the scripts
\* read; kreadconfig6 prints nothing for a missing key or a missing kwinrc.
ReadEnabled(cfg) == IF cfg \in {"true", "false"} THEN cfg ELSE ""

-----------------------------------------------------------------------------
(* Faults of the kind these scripts could have, each checked to break a    *)
(* property.                                                               *)

\* make install that always succeeds and never leaves the shell in build/.
MakeInstallNeverFails ==
    /\ files' = [files EXCEPT !["qt6"] = srcVersion]
    /\ cwd' = "root"

\* install that, like force-install, writes Enabled=true before it reloads
\* KWin.
InstallEnablesPlugin ==
    /\ UNCHANGED <<srcVersion, kwin, buildExists>>
    /\ config' = "true"
    /\ IF files["qt6"] # 0
          THEN /\ UNCHANGED <<files, cwd>>
               /\ loaded' \in IF kwin = "running"
                                 THEN Reconfigured("true", files') ELSE {loaded}
               /\ said' = "skipped"
          ELSE \/ /\ cwd = "nested" \/ ~buildExists
                  /\ UNCHANGED <<files, cwd, loaded>>
                  /\ said' = "noBuildDir"
               \/ /\ cwd = "nested" \/ buildExists
                  /\ MakeInstallNeverFails
                  /\ loaded' \in IF kwin = "running"
                                    THEN Reconfigured("true", files') ELSE {loaded}
                  /\ said' = "installed"

\* The installer restoring the value it read with kreadconfig6 instead of
\* writing false: kreadconfig6 prints nothing for a missing key.
InstallerRestoresRead ==
    LET cleaned == [files EXCEPT !["legacy"] = 0] IN
    /\ UNCHANGED <<srcVersion, kwin, buildExists, cwd, loaded>>
    /\ files' = cleaned
    /\ config' = ReadEnabled(config)
    /\ said' = "buildFailed"

\* disable_plugin without its kwriteconfig6: KWin is told to drop the
\* effect while kwinrc still enables it.
DisablePluginKeepsKey ==
    /\ UNCHANGED config
    /\ IF kwin = "running"
          THEN loaded' \in {loaded, 0} /\ said' = "disabled"
          ELSE UNCHANGED loaded /\ said' = "none"
    /\ UNCHANGED <<srcVersion, files, kwin, buildExists, cwd>>

-----------------------------------------------------------------------------
(* The dev shell's `cd build && make install && cd ..`.  make install      *)
(* rebuilds the current source first; if it fails, the `cd ..` is skipped  *)
(* and the shell stays in build/.  From inside build/ (cwd "nested") it    *)
(* always fails: there is no build tree below.                             *)
MakeInstall ==
    \/ /\ cwd = "root"
       /\ buildExists'
       /\ files' = [files EXCEPT !["qt6"] = srcVersion]
       /\ cwd' = "root"
    \/ /\ cwd = "root"
       /\ buildExists'
       /\ cwd' = "nested"
       /\ UNCHANGED files
    \/ /\ cwd = "nested"
       /\ UNCHANGED <<files, cwd>>

-----------------------------------------------------------------------------
(* ahk-kwin-setup (default.nix).                                           *)

\* enable_plugin: write true; if KWin answers, reconfigure it and call
\* loadEffect, and report success when qdbus exits 0.
EnablePlugin ==
    /\ config' = "true"
    /\ IF kwin = "running"
          THEN /\ loaded' \in Activated(files)
               /\ said' = "loaded"
          ELSE /\ UNCHANGED loaded
               /\ said' = "nextLogin"
    /\ UNCHANGED <<srcVersion, files, kwin, buildExists, cwd>>

\* disable_plugin: write false and reconfigure KWin if it answers.
DisablePlugin ==
    /\ config' = "false"
    /\ IF kwin = "running"
          THEN loaded' \in Reconfigured("false", files) /\ said' = "disabled"
          ELSE UNCHANGED loaded /\ said' = "none"
    /\ UNCHANGED <<srcVersion, files, kwin, buildExists, cwd>>

\* status_plugin: the config value, and for an enabled plugin whether
\* KWin's loadedEffects lists it.
StatusPlugin ==
    /\ said' = IF ReadEnabled(config) # "true" THEN "none"
               ELSE IF loaded # 0 THEN "runtimeLoaded" ELSE "runtimeNotLoaded"
    /\ UNCHANGED <<srcVersion, files, config, kwin, loaded, buildExists, cwd>>

-----------------------------------------------------------------------------
(* The dev shell's helpers (shell.nix).                                    *)

\* clean: rm -rf build, relative to the shell's directory.
Clean ==
    /\ buildExists' = IF cwd = "root" THEN FALSE ELSE buildExists
    /\ said' = "none"
    /\ UNCHANGED <<srcVersion, files, config, kwin, loaded, cwd>>

\* build: clean, then mkdir -p build && cd build, cmake, make, cd ..; from
\* inside build/ this configures nothing and stays there.
Build ==
    /\ buildExists' = (cwd = "root" \/ buildExists)
    /\ said' = "none"
    /\ UNCHANGED <<srcVersion, files, config, kwin, loaded, cwd>>

\* install: skip if the plugin is already in ~/.local; otherwise refuse
\* without a build directory, else make install and report it installed,
\* reloading KWin if the plugin was enabled.
Install ==
    /\ UNCHANGED <<srcVersion, config, kwin, buildExists>>
    /\ IF files["qt6"] # 0
          THEN /\ UNCHANGED <<files, cwd>>
               /\ loaded' \in IF ReadEnabled(config) = "true" /\ kwin = "running"
                                 THEN Reconfigured(config, files') ELSE {loaded}
               /\ said' = "skipped"
          ELSE \/ /\ cwd = "nested" \/ ~buildExists
                  /\ UNCHANGED <<files, cwd, loaded>>
                  /\ said' = "noBuildDir"
               \/ /\ cwd = "nested" \/ buildExists
                  /\ MakeInstall
                  /\ loaded' \in IF ReadEnabled(config) = "true" /\ kwin = "running"
                                    THEN Reconfigured(config, files') ELSE {loaded}
                  /\ said' = "installed"

\* force-install: unless the plugin is already in ~/.local, build if there
\* is no build directory and make install; then enable the plugin and, if
\* KWin answers, reconfigure it and call loadEffect.
ForceInstall ==
    /\ UNCHANGED <<srcVersion, kwin>>
    /\ IF files["qt6"] # 0
          THEN UNCHANGED <<files, cwd, buildExists>>
          ELSE /\ buildExists' = (cwd = "root" \/ buildExists)
               /\ MakeInstall
    /\ config' = "true"
    /\ IF kwin = "running"
          THEN /\ loaded' \in Activated(files')
               /\ said' = "loaded"
          ELSE /\ UNCHANGED loaded
               /\ said' = "nextLogin"

\* status: the config value and whether KWin's loadedEffects lists it.
Status ==
    /\ said' = IF loaded # 0 THEN "runtimeLoaded" ELSE "runtimeNotLoaded"
    /\ UNCHANGED <<srcVersion, files, config, kwin, loaded, buildExists, cwd>>

-----------------------------------------------------------------------------
(* The installer script (set -e).                                          *)

\* cargo build --release --features kde: its build script, not part of this
\* repository, may or may not put the fresh plugin where step 3 looks.
CargoInstalled(fs) == {fs, [fs EXCEPT !["effectsPlugins"] = srcVersion]}

\* Step 1 removes the plugin files of the old layout and disables the
\* plugin; step 2 builds (a failure stops the script); step 3 stops unless
\* the plugin file is where it expects it; step 4 enables the plugin and
\* step 5 reconfigures KWin.
Installer ==
    LET cleaned == [files EXCEPT !["legacy"] = 0] IN
    /\ UNCHANGED <<srcVersion, kwin, buildExists, cwd>>
    /\ \/ /\ files' = cleaned
          /\ config' = "false"
          /\ UNCHANGED loaded
          /\ said' = "buildFailed"
       \/ /\ files' \in CargoInstalled(cleaned)
          /\ files'["effectsPlugins"] = 0
          /\ config' = "false"
          /\ UNCHANGED loaded
          /\ said' = "notFound"
       \/ /\ files' \in CargoInstalled(cleaned)
          /\ files'["effectsPlugins"] # 0
          /\ config' = "true"
          /\ loaded' \in IF kwin = "running" THEN Reconfigured("true", files')
                                             ELSE {loaded}
          /\ said' = "complete"

-----------------------------------------------------------------------------
(* The environment: the developer edits the source, KWin starts (at login, *)
(* loading the effect if it is enabled) and stops.                         *)

EditSource ==
    /\ srcVersion < MaxVersion
    /\ srcVersion' = srcVersion + 1
    /\ said' = "none"
    /\ UNCHANGED <<files, config, kwin, loaded, buildExists, cwd>>

\* Session start: KWin loads the effect when kwinrc enables it.
LoadedAtLogin(cfg, fs) ==
    IF EnabledInConfig(cfg) /\ Available(fs) # {} THEN Available(fs) ELSE {0}

KWinStart ==
    /\ kwin = "stopped"
    /\ kwin' = "running"
    /\ loaded' \in LoadedAtLogin(config, files)
    /\ said' = "none"
    /\ UNCHANGED <<srcVersion, files, config, buildExists, cwd>>

KWinStop ==
    /\ kwin = "running"
    /\ kwin' = "stopped"
    /\ loaded' = 0
    /\ said' = "none"
    /\ UNCHANGED <<srcVersion, files, config, buildExists, cwd>>

-----------------------------------------------------------------------------

\* A fresh dev shell at the project root, with whatever an earlier session
\* left in ~/.local, kwinrc and build/.
Init ==
    /\ srcVersion = 1
    /\ files \in [Locations -> 0..1]
    /\ config \in ConfigStates
    /\ kwin \in {"running", "stopped"}
    /\ loaded \in IF kwin = "running" THEN LoadedAtLogin(config, files) ELSE {0}
    /\ buildExists \in BOOLEAN
    /\ cwd = "root"
    /\ said = "none"

Commands ==
    \/ EnablePlugin \/ DisablePlugin \/ StatusPlugin
    \/ Clean \/ Build \/ Install \/ ForceInstall \/ Status
    \/ Installer

Next == Commands \/ EditSource \/ KWinStart \/ KWinStop

Spec == Init /\ [][Next]_vars

\* KWin as the abstract EffectHost sees it: whether it runs, whether kwinrc
\* enables the effect, the plugin versions its loader can find, and the
\* version it has loaded.
Host == INSTANCE EffectHost
        WITH Builds <- Versions, running <- (kwin = "running"),
             enabled <- EnabledInConfig(config), plugins <- Available(files),
             current <- loaded

-----------------------------------------------------------------------------
(* Properties                                                              *)

Outcomes == {"none", "loaded", "nextLogin", "disabled", "runtimeLoaded",
             "runtimeNotLoaded", "skipped", "noBuildDir", "installed",
             "buildFailed", "notFound", "complete"}

TypeOK ==
    /\ srcVersion \in 1..MaxVersion
    /\ files \in [Locations -> Versions]
    /\ config \in ConfigStates
    /\ kwin \in {"running", "stopped"}
    /\ loaded \in Versions
    /\ buildExists \in BOOLEAN
    /\ cwd \in {"root", "nested"}
    /\ said \in Outcomes

\* shell.nix says install preserves the enabled state: the dev shell's
\* install never changes the kwinrc key, and never unloads an effect KWin
\* has loaded, whether it skips, refuses or installs.
InstallPreservesEnabledState ==
    [][said' \in {"skipped", "noBuildDir", "installed"} =>
         /\ config' = config
         /\ (loaded # 0 => loaded' = loaded)]_vars

\* The scripts drive KWin only as EffectHost allows: whatever ahk-kwin-setup,
\* the dev shell or the installer do, KWin loads the effect only while
\* kwinrc enables it and only a plugin file it finds, never swaps a loaded
\* build for a newer one, and unloads it only once the key no longer
\* enables it.
ImplementsHost == Host!HSpec

-----------------------------------------------------------------------------
(* What the scripts report and what is true (checked as violations).       *)

\* enable_plugin prints "Plugin loaded successfully! ... now active" and
\* force-install "Plugin loaded!" when qdbus ... loadEffect exits 0; the
\* effect should then be loaded in KWin.
LoadedReportTrue == said = "loaded" => loaded # 0

\* install prints "Installed" after `cd build && make install && cd ..`;
\* ~/.local should then hold a build of the current source.
InstalledReportTrue == said = "installed" => files["qt6"] = srcVersion

\* The installer's step 3 verifies the installation and it ends with "The
\* KWin plugin is now installed and enabled": the file it checked should be
\* the build of the current source.
InstallerReportFresh ==
    said = "complete" => files["effectsPlugins"] = srcVersion

=============================================================================
