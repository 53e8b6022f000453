-------------------------- MODULE MCDspPipelineSlot --------------------------
(* Small instances of DspPipelineSlot for TLC. *)
EXTENDS DspPipelineSlot, TLC

\* Addresses are interchangeable, so are the threads that only lock and mutate.
AddressSymmetry == Permutations(Pipelines)
=============================================================================
