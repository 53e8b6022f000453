--------------------------- MODULE MCHostPrograms ---------------------------
(***************************************************************************)
(* The change of the daemon's outputs, the commands that change and save   *)
(* the configuration, and the setup of the user's session side by side,    *)
(* for TLC: they share no variable, so one behaviour exercises one of them *)
(* while the others rest.                                                  *)
(***************************************************************************)
EXTENDS MCOutputTransaction, MCUserSetup, MCPersistentCommands

VARIABLE exercised

OutputsRest == active.preset = None
CommandsRest ==
  saved["rate"] = usual /\ \E c \in Commands : wish[c].field = "rate"
SetupRests ==
  home.target = "absent" /\ remaining = CHOOSE b \in SetupBounds : TRUE

HostInit ==
  /\ exercised \in {"outputs", "setup", "commands"}
  /\ Init /\ SetupInit /\ CommandsInit
  /\ exercised # "outputs" => OutputsRest
  /\ exercised # "commands" => CommandsRest
  /\ exercised # "setup" => SetupRests

HostNext ==
  /\ UNCHANGED exercised
  /\ \/ exercised = "outputs" /\ Next /\ UNCHANGED <<setupVars, commandVars>>
     \/ exercised = "setup" /\ SetupNext /\ UNCHANGED <<vars, commandVars>>
     \/ exercised = "commands" /\ CommandsNext /\ UNCHANGED <<vars, setupVars>>

Output(step) == exercised = "outputs" /\ step

\* The fairness of OutputTransaction; nothing else is promised to go on.
HostSpec ==
  /\ HostInit
  /\ [][HostNext]_<<exercised, vars, setupVars, commandVars>>
  /\ WF_vars(Output(OutputChangeRequested)) /\ WF_vars(Output(DeadlineExpires))
  /\ WF_vars(Output(\E c \in Clients : TakeAnswer(c)))

HostTypeOK == TypeOK /\ UserSetupTypeOK /\ CommandsTypeOK
=============================================================================
