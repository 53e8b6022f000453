------------------------ MODULE MCSettingsTransaction ------------------------
(***************************************************************************)
(* A small instance of SettingsTransaction for TLC.                        *)
(***************************************************************************)
EXTENDS SettingsTransaction

MCScalars == <<"rate">>

Bound(sessions, edits, foreign, rejections, losses, restarts) ==
  [sessions |-> sessions, edits |-> edits, foreign |-> foreign,
   rejections |-> rejections, losses |-> losses, restarts |-> restarts]

\* What one behaviour may meet: every kind of disturbance comes together with
\* the edits and the windows it can disturb, and not with all the others.
MCDisturbances ==
  {Bound(2, 1, 0, 0, 1, 0),    \* a connection ends, the window opens again
   Bound(1, 1, 0, 1, 1, 0),    \* the same, and a request is refused
   Bound(2, 1, 0, 0, 0, 1),    \* the daemon restarts
   Bound(1, 2, 1, 0, 0, 0),    \* another client changes a setting
   Bound(1, 1, 1, 1, 0, 0),
   Bound(1, 2, 0, 1, 0, 0),
   Bound(2, 2, 0, 0, 0, 0)}

\* One lost connection and two edits.
MCLoss == {Bound(1, 2, 0, 0, 1, 0)}
=============================================================================
