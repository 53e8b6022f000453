------------------------ MODULE CardsAndWindowProofs ------------------------
(***************************************************************************)
(* The profiles of sound cards and the settings window side by side: what  *)
(* is proved of each of them holds while the other rests.                  *)
(***************************************************************************)
EXTENDS MCCardsAndWindow, CardProfilesProofs, SettingsTransactionProofs

LEMMA InitCardsAndWindow == CardsAndWindowInit => Inv /\ SettingsInv
  BY InitInv, SettingsInitInv DEF CardsAndWindowInit

LEMMA NextCardsAndWindow ==
  ASSUME ~RequestDuringStart, Inv, SettingsInv,
         [CardsAndWindowNext]_<<exercised, vars, settingsVars>>
  PROVE  Inv' /\ SettingsInv'
<1>1. [Next]_vars /\ [SettingsNext]_settingsVars
  BY DEF CardsAndWindowNext
<1> QED
  BY <1>1, NextInv, SettingsNextInv

\* The invariants of the two do not disturb each other, so the variables of both
\* keep their types: the runtime of the cards with its phases and pending
\* restorations, and the window with its draft and its requests.
THEOREM CardsAndWindowAreTypeCorrect ==
  ~RequestDuringStart => (CardsAndWindowSpec => []CardsAndWindowTypeOK)
<1> SUFFICES ASSUME ~RequestDuringStart
             PROVE  CardsAndWindowSpec => []CardsAndWindowTypeOK
  OBVIOUS
<1>1. /\ Inv /\ SettingsInv
      /\ [CardsAndWindowNext]_<<exercised, vars, settingsVars>>
      => Inv' /\ SettingsInv'
  BY NextCardsAndWindow
<1>2. Inv /\ SettingsInv => CardsAndWindowTypeOK
  BY DEF Inv, SettingsInv, CardsAndWindowTypeOK
<1> QED
  BY <1>1, <1>2, InitCardsAndWindow, PTL DEF CardsAndWindowSpec
=============================================================================
