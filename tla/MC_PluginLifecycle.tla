------------------------- MODULE MC_PluginLifecycle -------------------------
(* The scripts with two edits of the source.                               *)
EXTENDS PluginLifecycle

\* Two versions: enough for a stale build (version 1 installed while the
\* source is at version 2).
MCMaxVersion == 2

=============================================================================
