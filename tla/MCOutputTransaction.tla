------------------------- MODULE MCOutputTransaction -------------------------
(* Two outputs that differ in width, and a third that only renames one. *)
EXTENDS OutputTransaction, TLC

CONSTANTS stereo, renamed, surround, quad

MCWidth == [o \in Outputs |-> IF o = surround THEN 4 ELSE 2]
MCArguments == [o \in Outputs |-> IF o = renamed THEN stereo ELSE o]
MCPresetWidth == [p \in Presets \cup {None} |-> IF p = quad THEN 4 ELSE 2]

OutputSymmetry == Permutations(Clients)
=============================================================================
