--------------------------- MODULE MCControlService ---------------------------
(***************************************************************************)
(* What the control socket sets going, for TLC: the connections of the     *)
(* server and the commands the daemon executes share no variable, so one   *)
(* behaviour exercises one of them while the other rests.                  *)
(***************************************************************************)
EXTENDS MCPresetControl, ControlServer, TLC

CONSTANTS s1, s2, s3

VARIABLE exercised

MCSessions == {s1, s2, s3}

Plan(first, second, third, hangUps, changes, failures, stops) ==
  [request |-> s1 :> first @@ s2 :> second @@ s3 :> third,
   hangUps |-> hangUps, changes |-> changes, failures |-> failures, stops |-> stops]

\* The first client may stop reading.
MCPlans ==
  {Plan("subscribe", "command", "none", 0, 1, 0, TRUE),     \* a command is published
   Plan("none", "subscribe", "command", 0, 2, 0, FALSE),    \* changes of every origin
   Plan("status", "status", "status", 1, 0, 0, FALSE),      \* more than are served at once
   Plan("subscribe", "subscribe", "none", 1, 0, 0, TRUE),   \* too many subscribers, a stop
   Plan("status", "subscribe", "none", 0, 0, 1, TRUE)}      \* no more connections

\* Which initial state the part that rests is in does not matter.
ControlRests ==
  /\ activePreset = None /\ policy = Automatic
  /\ backend = CHOOSE b \in Backends : TRUE
  /\ dspRate = CHOOSE r \in Rates : TRUE
  /\ workload = CHOOSE w \in Workloads : TRUE

ServerRests == remaining = CHOOSE plan \in ServerWorkloads : TRUE

ServiceInit ==
  /\ exercised \in {"control", "server"}
  /\ Init /\ ServerInit
  /\ exercised = "control" => ServerRests
  /\ exercised = "server" => ControlRests

ServiceNext ==
  /\ UNCHANGED exercised
  /\ \/ exercised = "control" /\ Next /\ UNCHANGED serverVars
     \/ exercised = "server" /\ ServerNext /\ UNCHANGED vars

\* At rest neither of them has anything to do that is due.
ServiceSpec ==
  /\ ServiceInit /\ [][ServiceNext]_<<exercised, vars, serverVars>>
  /\ ControlFairness /\ ServerFairness
=============================================================================
