------------------------------- MODULE MCAudio -------------------------------
(***************************************************************************)
(* The three data structures of the audio path side by side, for TLC: the  *)
(* pipelines of the slot, its idle state and the ring of the bridge share  *)
(* no variable, so one behaviour exercises one of them while the others    *)
(* rest.                                                                   *)
(***************************************************************************)
EXTENDS DspPipelineSlot, DspIdle, PlanarAudioRing

VARIABLE exercised

SlotRests == current = CHOOSE p \in Pipelines : TRUE
IdleRests == word.policy = Ignore /\ pipeline.rate = 1000 /\ mode = "bypass"

AudioInit ==
  /\ exercised \in {"slot", "idle", "ring"}
  /\ SlotInit /\ Init /\ RingInit
  /\ exercised # "slot" => SlotRests
  /\ exercised # "idle" => IdleRests

AudioNext ==
  /\ UNCHANGED exercised
  /\ \/ exercised = "slot" /\ SlotNext /\ UNCHANGED <<vars, ringVars>>
     \/ exercised = "idle" /\ Next /\ UNCHANGED <<allVars, ringVars>>
     \/ exercised = "ring" /\ RingNext /\ UNCHANGED <<allVars, vars>>

Slot(step) == exercised = "slot" /\ step

\* Only the slot promises that a call comes to its end.
AudioSpec ==
  /\ AudioInit /\ [][AudioNext]_<<exercised, allVars, vars, ringVars>>
  /\ WF_allVars(Slot(AudioStep)) /\ WF_allVars(Slot(MutationStep))

AudioTypeOK == SlotTypeOK /\ TypeOK /\ RingTypeOK
=============================================================================
