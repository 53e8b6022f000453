------------------------ MODULE PipelineSlotContract ------------------------
(***************************************************************************)
(* What the hazard-protected pipeline slot promises to the audio callback, *)
(* without saying how: activations are numbered, and a processing call     *)
(* works on one complete pipeline that was the active one at some moment   *)
(* of the call and that is not destroyed before the call returns.          *)
(***************************************************************************)
EXTENDS Integers

CONSTANTS Pipelines,       \* addresses a pipeline object can occupy
          NoPipeline,      \* the null pointer
          MaxActivations   \* bound on the number of activations

VARIABLES generation,      \* number of the latest activation
          installed,       \* installed[g]: the pipeline of activation g, NoPipeline
                           \* before g happens and after its object is destroyed
          call             \* the processing call of the audio callback

vars == <<generation, installed, call>>

ActivationNumbers == 0 .. MaxActivations

NoCall == [state |-> "idle", floor |-> 0, generation |-> 0]

TypeOK ==
  /\ generation \in ActivationNumbers
  /\ installed \in [ActivationNumbers -> Pipelines \cup {NoPipeline}]
  /\ call \in [state : {"idle", "pending", "using"},
               floor : ActivationNumbers, generation : ActivationNumbers]

Init ==
  /\ generation = 0
  /\ \E p \in Pipelines :
       installed = [g \in ActivationNumbers |-> IF g = 0 THEN p ELSE NoPipeline]
  /\ call = NoCall

\* A new pipeline, or the one a rollback returns to, becomes the active one.
Activate(p) ==
  /\ generation < MaxActivations
  /\ generation' = generation + 1
  /\ installed' = [installed EXCEPT ![generation + 1] = p]
  /\ UNCHANGED call

\* Objects are destroyed, never the active one and never the one in use.
Reclaim(S) ==
  /\ installed[generation] \notin S
  /\ call.state = "using" => installed[call.generation] \notin S
  /\ installed' = [g \in ActivationNumbers |->
                     IF installed[g] \in S THEN NoPipeline ELSE installed[g]]
  /\ UNCHANGED <<generation, call>>

Invoke ==
  /\ call.state = "idle"
  /\ call' = [state |-> "pending", floor |-> generation, generation |-> 0]
  /\ UNCHANGED <<generation, installed>>

\* The call may be served by any activation not older than the call itself.
Select(g) ==
  /\ call.state = "pending"
  /\ call.floor <= g
  /\ g <= generation
  /\ installed[g] # NoPipeline
  /\ call' = [state |-> "using", floor |-> call.floor, generation |-> g]
  /\ UNCHANGED <<generation, installed>>

Return ==
  /\ call.state = "using"
  /\ call' = NoCall
  /\ UNCHANGED <<generation, installed>>

Next ==
  \/ \E p \in Pipelines : Activate(p)
  \/ \E S \in SUBSET Pipelines : Reclaim(S)
  \/ Invoke
  \/ \E g \in ActivationNumbers : Select(g)
  \/ Return

Spec == Init /\ [][Next]_vars
=============================================================================
