----------------------------- MODULE MCUserSetup -----------------------------
(* A small instance of UserSetup for TLC. *)
EXTENDS UserSetup

Happens(launches, failures, kills, upgrades, edits, disturbances) ==
  [launches |-> launches, failures |-> failures, kills |-> kills,
   upgrades |-> upgrades, edits |-> edits, disturbances |-> disturbances]

\* Two commands, one of which fails or dies; one whose undoing fails too or is
\* cut short; two with an upgrade of the package and an edit of the autostart
\* file, and two that others interfere with.
MCBounds == {Happens(2, 1, 0, 0, 0, 0), Happens(2, 0, 1, 0, 0, 0),
             Happens(1, 2, 0, 0, 0, 0), Happens(1, 1, 1, 0, 0, 0),
             Happens(2, 0, 0, 1, 1, 0), Happens(2, 0, 0, 0, 0, 1)}
=============================================================================
