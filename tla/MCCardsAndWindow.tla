-------------------------- MODULE MCCardsAndWindow --------------------------
(***************************************************************************)
(* The two ends of a device change side by side, for TLC: the daemon's     *)
(* profile transitions and the settings window share no variable, so one   *)
(* behaviour exercises one of them while the other rests.                  *)
(***************************************************************************)
EXTENDS MCCardProfiles, MCSettingsTransaction

VARIABLE exercised

CardsRest == commandsLeft = 1 /\ disturbances = 0
WindowRests == left = Bound(2, 2, 0, 0, 0, 0)

CardsAndWindowInit ==
  /\ exercised \in {"cards", "window"}
  /\ Init /\ SettingsInit
  /\ exercised # "cards" => CardsRest
  /\ exercised # "window" => WindowRests

\* The daemon may have nothing left to do; the window always has.
CardsAndWindowNext ==
  /\ UNCHANGED exercised
  /\ \/ exercised = "cards" /\ Next /\ UNCHANGED settingsVars
     \/ exercised = "window" /\ SettingsNext /\ UNCHANGED vars
     \/ exercised = "cards" /\ UNCHANGED <<vars, settingsVars>>

Card(step) == exercised = "cards" /\ step
Window(step) == exercised = "window" /\ step

\* The fairness of CardProfiles for the one, of SettingsTransaction for the other.
CardsAndWindowSpec ==
  /\ CardsAndWindowInit
  /\ [][CardsAndWindowNext]_<<exercised, vars, settingsVars>>
  /\ WF_vars(Card(MainLoop)) /\ WF_vars(Card(TimerFires)) /\ WF_vars(Card(Resume))
  /\ WF_settingsVars(Window(SubscriptionMessage))
  /\ WF_settingsVars(Window(SubscriptionEnds))
  /\ WF_settingsVars(Window(Reconnect)) /\ WF_settingsVars(Window(Publish))
  /\ \A c \in Connections : WF_settingsVars(Window(Reply(c)))
                         /\ WF_settingsVars(Window(Execute(c) \/ Reject(c)))

CardsAndWindowTypeOK == TypeOK /\ SettingsTypeOK
=============================================================================
