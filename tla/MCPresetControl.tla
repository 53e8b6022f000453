--------------------------- MODULE MCPresetControl ---------------------------
(* Small instances of PresetControl for TLC. *)
EXTENDS PresetControl

Workload(commands, commandsLeft, edits, graphChangesLeft) ==
  [commands |-> commands, commandsLeft |-> commandsLeft, edits |-> edits,
   graphChangesLeft |-> graphChangesLeft]

\* A file that is edited again and again; two commands of any kind; two that build
\* pipelines, with a change of the graph or with an edit; and one command with an
\* edit, and with a change of the graph if it is none of the rate.
MCCommands ==
  {Workload({"bypass"}, 1, 3, 0),
   Workload({"loadPreset", "setDspBackend", "bypass", "setRate", "setOutput"}, 2, 0, 0),
   Workload({"setRate", "setDspBackend"}, 2, 0, 1),
   Workload({"loadPreset", "setDspBackend", "bypass"}, 2, 1, 0),
   Workload({"loadPreset", "setDspBackend", "bypass", "setOutput"}, 1, 1, 1),
   Workload({"setRate"}, 1, 1, 0)}

\* An edit and a backend switch.
MCSuperseded == {Workload({"setDspBackend"}, 1, 1, 0)}

\* A rate request while the graph changes its rate.
MCGranted == {Workload({"setRate"}, 1, 0, 1)}
=============================================================================
