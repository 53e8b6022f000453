----------------------------- MODULE AudioProofs -----------------------------
(***************************************************************************)
(* Proofs about the three data structures of the audio path, for every set *)
(* of addresses, threads, rates, timeouts, block sizes and capacities.     *)
(*                                                                         *)
(* The slot: the pipeline a block uses is alive and no pipeline is lost,   *)
(* because what a reader publishes and what a mutation may free are        *)
(* related at every instruction between (SlotInv), and the slot implements *)
(* PipelineSlotContract.                                                   *)
(*                                                                         *)
(* The idle state: a silent run fades out by positions, whatever blocks it *)
(* comes in, sleeps clean, and reports what is current (IdleInv).          *)
(*                                                                         *)
(* The ring: the two sides never share a cell, since the frames a write    *)
(* was promised and those queued fit into the ring together (RingInv), and *)
(* the ring implements AudioFrameQueue: the queue is read off the cells    *)
(* between the indices, a call's frames off what it saw when it began      *)
(* (QueueInv).                                                             *)
(***************************************************************************)
EXTENDS MCAudio, SequenceTheorems, TLAPS

-----------------------------------------------------------------------------
(* The pipeline slot. *)

\* What holds of the mutation in progress and of the pipelines it moves.
MutationInv ==
  /\ mutPc # "idle" => mutex # NoThread
  /\ (mutPc \in {"store", "even"}) <=> ~Stable(activationSequence)
  /\ mutPc = "odd" => GenerationOf(activationSequence) < MaxActivations
  /\ mutPc \in {"idle", "commit", "erase"} => retiring = NoPipeline
  /\ mutPc = "retire" => retiring # NoPipeline
  /\ mutPc = "commit" => committing
  /\ committing => /\ mutPc \in {"odd", "store", "even", "commit"}
                   /\ stagedPrevious # NoPipeline
                   /\ retiring = NoPipeline

\* Who owns the active pipeline, before and after the store of activate().
ActiveInv ==
  /\ mutPc \in {"odd", "store"} => active \in {stagedPrevious, retiring}
  /\ mutPc \notin {"odd", "store"} => active = current
  /\ mutPc # "even" => installed[GenerationOf(activationSequence)] = active

SupersededInv == mutPc # "erase" => \A p, q \in superseded : p = q

\* What holds of the audio thread's locals at each step of protectActive.
CallInv ==
  /\ rtPc \notin {"idle", "sequence", "select"} => rtSelected \in Pipelines
  /\ rtPc \in {"verifySequence", "verifyActive", "using"} => hazard = rtSelected
  /\ rtPc \notin {"idle", "sequence"} =>
       /\ Stable(rtSequence)
       /\ rtSequence <= activationSequence
       /\ rtFloor <= GenerationOf(rtSequence)
  /\ rtPc = "sequence" => rtFloor <= GenerationOf(activationSequence)
  /\ rtPc = "idle" => rtFloor = 0
  /\ rtPc \in {"publish", "verifySequence"} /\ rtSequence = activationSequence =>
       rtSelected = active
  /\ rtPc \in {"verifyActive", "using"} =>
       /\ rtSelected \in heap
       /\ installed[GenerationOf(rtSequence)] = rtSelected
       /\ mutPc = "erase" /\ rtSelected \in superseded =>
            protectedPipeline = rtSelected

SlotInv ==
  /\ SlotTypeOK
  /\ MutationInv
  /\ EachPipelineHasOneOwner
  /\ ActiveInv
  /\ SupersededInv
  /\ CallInv
-----------------------------------------------------------------------------
(* Arithmetic of the activation sequence. *)

\* Adding one to a sequence flips its parity; the generation grows exactly
\* when an odd sequence becomes even (activate() adds one twice).
LEMMA StepOfSequence ==
  ASSUME NEW n \in Nat
  PROVE  /\ Stable(n) => ~Stable(n + 1) /\ GenerationOf(n + 1) = GenerationOf(n)
         /\ ~Stable(n) => /\ Stable(n + 1)
                          /\ GenerationOf(n + 1) = GenerationOf(n) + 1
BY SMT DEF Stable, GenerationOf

\* A later sequence never names an earlier generation.
LEMMA GenerationMonotone ==
  ASSUME NEW m \in Nat, NEW n \in Nat, m <= n
  PROVE  GenerationOf(m) <= GenerationOf(n)
BY SMT DEF GenerationOf

\* Sequences within the bound name generations within the bound.
LEMMA GenerationInRange ==
  ASSUME NEW n \in 0 .. 2 * MaxActivations
  PROVE  /\ GenerationOf(n) \in SlotGenerations
         /\ ~Stable(n) => /\ n + 1 \in 0 .. 2 * MaxActivations
                          /\ GenerationOf(n) < MaxActivations
         /\ GenerationOf(n) < MaxActivations => n + 1 \in 0 .. 2 * MaxActivations
BY SlotAssumption, SMT DEF Stable, GenerationOf, SlotGenerations

-----------------------------------------------------------------------------
(* The invariant. *)

LEMMA InvariantInitially == SlotInit => SlotInv
<1> SUFFICES ASSUME SlotInit PROVE SlotInv
  OBVIOUS
<1> USE SlotAssumption DEF SlotInit
<1>1. Stable(0) /\ GenerationOf(0) = 0
  BY SMT DEF Stable, GenerationOf
<1>2. SlotTypeOK
  <2>1. 0 \in SlotGenerations /\ 0 \in 0 .. 2 * MaxActivations
    BY DEF SlotAssumption, SlotGenerations
  <2>2. /\ installed \in [SlotGenerations -> MaybePipeline]
        /\ unlocked \in [UnlockedReaders -> MaybePipeline]
    BY DEF MaybePipeline
  <2> QED
    BY <2>1, <2>2 DEF SlotTypeOK, MaybePipeline, MutSteps, RtSteps
<1>3. MutationInv
  BY <1>1 DEF MutationInv
<1>4. EachPipelineHasOneOwner
  BY DEF SlotAssumption, EachPipelineHasOneOwner
<1>5. ActiveInv
  BY <1>1 DEF SlotAssumption, ActiveInv, SlotGenerations
<1>6. SupersededInv
  BY DEF SupersededInv
<1>7. CallInv
  BY <1>1 DEF CallInv
<1> QED
  BY <1>2, <1>3, <1>4, <1>5, <1>6, <1>7 DEF SlotInv

LEMMA NextSlot == SlotInv /\ [SlotNext]_allVars => SlotInv'
<1> SUFFICES ASSUME SlotInv, [SlotNext]_allVars PROVE SlotInv'
  OBVIOUS
<1> USE SlotAssumption DEF SlotInv, SlotTypeOK, MutationInv, EachPipelineHasOneOwner,
                           ActiveInv, SupersededInv, CallInv, rtVars
<1>0. /\ activationSequence \in Nat
      /\ rtSequence \in Nat
      /\ GenerationOf(activationSequence) \in SlotGenerations
      /\ GenerationOf(rtSequence) \in SlotGenerations
  BY GenerationInRange
\* Taking or releasing the mutex moves no pipeline.
<1>1. ASSUME NEW t \in Mutators, LockMutation(t) \/ UnlockMutation(t)
      PROVE  SlotInv'
  BY <1>1 DEF LockMutation, UnlockMutation, slotVars
\* A new object enters the heap at a free address; the one that was current,
\* still the active one, moves to stagedPrevious_ or to the local pointer.
<1>2. ASSUME NEW p \in Pipelines, NEW c \in BOOLEAN, Stage(p, c)
      PROVE  SlotInv'
  BY <1>2, <1>0 DEF Stage, Adopt, MayActivate, HasStagedReplacement,
                    MutSteps, MaybePipeline
<1>3. ASSUME NEW p \in Pipelines, ReviseStaged(p)
      PROVE  SlotInv'
  BY <1>3, <1>0 DEF ReviseStaged, Adopt, MayActivate, HasStagedReplacement,
                    MutSteps, MaybePipeline
<1>4. ASSUME CommitStaged
      PROVE  SlotInv'
  BY <1>4, <1>0 DEF CommitStaged, HasStagedReplacement, MutSteps, MaybePipeline
<1>5. ASSUME RollbackStaged
      PROVE  SlotInv'
  BY <1>5, <1>0 DEF RollbackStaged, MayActivate, HasStagedReplacement,
                    MutSteps, MaybePipeline
\* Any sequence the audio thread has read is now an older one, so what it
\* selected under that sequence need not be the active pipeline any more.
<1>6. ASSUME ActivateOdd
      PROVE  SlotInv'
  BY <1>6, <1>0, StepOfSequence, GenerationInRange DEF ActivateOdd, MutSteps
<1>7. ASSUME ActivateStore
      PROVE  SlotInv'
  BY <1>7, <1>0 DEF ActivateStore, MutSteps
<1>8. ASSUME ActivateEven
      PROVE  SlotInv'
  <2>1. /\ Stable(activationSequence + 1)
        /\ GenerationOf(activationSequence + 1) = GenerationOf(activationSequence) + 1
        /\ GenerationOf(activationSequence + 1) \in SlotGenerations
        /\ activationSequence' \in 0 .. 2 * MaxActivations
    BY <1>8, <1>0, StepOfSequence, GenerationInRange DEF ActivateEven
  <2>2. SlotTypeOK'
    BY <1>8, <2>1 DEF ActivateEven, AfterActivation, MutSteps, MaybePipeline
  <2>3. MutationInv' /\ EachPipelineHasOneOwner' /\ SupersededInv'
    BY <1>8, <2>1 DEF ActivateEven, AfterActivation
  <2>4. ActiveInv'
    BY <1>8, <2>1 DEF ActivateEven, AfterActivation
  <2>5. rtPc \notin {"idle", "sequence"} =>
          GenerationOf(rtSequence) # GenerationOf(activationSequence + 1)
    <3>1. ASSUME rtSequence <= activationSequence
          PROVE  GenerationOf(rtSequence) <= GenerationOf(activationSequence)
      BY <3>1, <1>0, GenerationMonotone
    <3>2. /\ GenerationOf(rtSequence) \in Int
          /\ GenerationOf(activationSequence) \in Int
      BY <1>0 DEF SlotAssumption, SlotGenerations
    <3> QED
      BY <3>1, <3>2, <2>1
  <2>6. CallInv'
    <3> USE <1>8 DEF ActivateEven, AfterActivation
    <3>1. rtPc \notin {"idle", "sequence"} =>
            installed'[GenerationOf(rtSequence)] = installed[GenerationOf(rtSequence)]
      BY <2>5, <2>1, <1>0
    <3>2. rtPc = "sequence" => rtFloor <= GenerationOf(activationSequence + 1)
      BY <2>1, <1>0 DEF SlotAssumption, SlotGenerations
    <3>3. rtPc \notin {"idle", "sequence"} =>
            /\ rtSequence <= activationSequence + 1
            /\ rtSequence # activationSequence + 1
      BY <1>0
    <3>4. mutPc' # "erase"
      OBVIOUS
    <3> QED
      BY <3>1, <3>2, <3>3, <3>4
  <2> QED
    BY <2>2, <2>3, <2>4, <2>6
\* The hazard is read after the push_back: a verified selection that is among
\* the superseded pipelines is the one remembered as protected.
<1>9. ASSUME RetireSuperseded
      PROVE  SlotInv'
  BY <1>9, <1>0 DEF RetireSuperseded, MutSteps, MaybePipeline
<1>10. ASSUME ReclaimSuperseded
       PROVE  SlotInv'
  BY <1>10, <1>0 DEF ReclaimSuperseded, Reclaimable, MutSteps, MaybePipeline
\* protectActive, step by step.
<1>11. ASSUME BeginCall \/ LoadSequence \/ LoadActive
       PROVE  SlotInv'
  BY <1>11, <1>0, GenerationMonotone
     DEF BeginCall, LoadSequence, LoadActive, RtSteps, MaybePipeline,
         slotVars, mutVars
<1>12. ASSUME PublishHazard
       PROVE  SlotInv'
  BY <1>12, <1>0 DEF PublishHazard, RtSteps, MaybePipeline, mutVars
\* With an unchanged even sequence the selection is still the active pipeline,
\* which nobody has superseded; from here on every reclamation sees the hazard.
<1>13. ASSUME VerifySequence
       PROVE  SlotInv'
  BY <1>13, <1>0 DEF VerifySequence, RtSteps, MaybePipeline, slotVars, mutVars
<1>14. ASSUME VerifyActive
       PROVE  SlotInv'
  BY <1>14, <1>0 DEF VerifyActive, RtSteps, slotVars, mutVars
<1>15. ASSUME ClearHazard \/ ReleaseActive
       PROVE  SlotInv'
  BY <1>15, <1>0, GenerationMonotone
     DEF ClearHazard, ReleaseActive, RetryFrom, RtSteps, MaybePipeline,
         SlotGenerations, mutVars
<1>16. ASSUME NEW t \in UnlockedReaders,
              LoadActiveUnlocked(t) \/ ReadLatencyUnlocked(t)
       PROVE  SlotInv'
  BY <1>16 DEF LoadActiveUnlocked, ReadLatencyUnlocked, MaybePipeline,
               slotVars, mutVars
<1>17. ASSUME UNCHANGED allVars
       PROVE  SlotInv'
  BY <1>17 DEF allVars, slotVars, mutVars
<1> QED
  BY <1>1, <1>2, <1>3, <1>4, <1>5, <1>6, <1>7, <1>8, <1>9, <1>10, <1>11, <1>12,
     <1>13, <1>14, <1>15, <1>16, <1>17
     DEF SlotNext, StageReplacement, ReplacePipeline, MutationStep, AudioStep

\* The slot never leaves the states its code is written for.
THEOREM SlotInvariant == SlotSpec => []SlotInv
<1>1. SlotInit => SlotInv
  BY InvariantInitially
<1>2. SlotInv /\ [SlotNext]_allVars => SlotInv'
  BY NextSlot
<1> QED
  BY <1>1, <1>2, PTL DEF SlotSpec

\* Every variable keeps its type.
THEOREM SlotTypeIsInvariant == SlotSpec => []SlotTypeOK
<1>1. SlotInv => SlotTypeOK
  BY DEF SlotInv
<1> QED
  BY <1>1, SlotInvariant, PTL

\* The pipeline that processes a block is never destroyed under it, and the
\* generation reported with the block is one of that pipeline.
THEOREM SlotSelectedPipelineIsLive == SlotSpec => []SelectedPipelineIsLive
<1>1. SlotInv => SelectedPipelineIsLive
  BY DEF SlotInv, CallInv, SelectedPipelineIsLive
<1> QED
  BY <1>1, SlotInvariant, PTL

\* No pipeline object is leaked, none has two owners, and between mutations at
\* most one superseded pipeline waits for reclamation.
THEOREM SlotPipelinesAreAccounted == SlotSpec => []PipelinesAreAccounted
<1>1. SlotInv => PipelinesAreAccounted
  BY DEF SlotInv, SupersededInv, PipelinesAreAccounted
<1> QED
  BY <1>1, SlotInvariant, PTL

-----------------------------------------------------------------------------
(* The rollback target. *)

\* Only a stage, a commit and a rollback assign stagedPrevious_; the first finds
\* it empty, the others empty it and pass its pipeline on.
LEMMA TargetStep ==
  ASSUME [SlotNext]_allVars,
         stagedPrevious # NoPipeline, stagedPrevious' # stagedPrevious
  PROVE  stagedPrevious' = NoPipeline /\ stagedPrevious \in {retiring', current'}
<1>1. ASSUME NEW p \in Pipelines, NEW c \in BOOLEAN, Stage(p, c)
      PROVE  FALSE
  BY <1>1 DEF Stage, HasStagedReplacement
<1>2. ASSUME CommitStaged \/ RollbackStaged
      PROVE  stagedPrevious' = NoPipeline /\ stagedPrevious \in {retiring', current'}
  BY <1>2 DEF CommitStaged, RollbackStaged
<1>3. ASSUME \/ \E t \in Mutators : LockMutation(t) \/ UnlockMutation(t)
             \/ \E p \in Pipelines : ReviseStaged(p)
             \/ ActivateOdd \/ ActivateStore \/ ActivateEven
             \/ RetireSuperseded \/ ReclaimSuperseded
             \/ AudioStep
             \/ \E t \in UnlockedReaders : LoadActiveUnlocked(t) \/ ReadLatencyUnlocked(t)
             \/ UNCHANGED allVars
      PROVE  FALSE
  BY <1>3 DEF LockMutation, UnlockMutation, ReviseStaged, ActivateOdd, ActivateStore,
              ActivateEven, RetireSuperseded, ReclaimSuperseded, AudioStep, BeginCall,
              LoadSequence, LoadActive, PublishHazard, VerifySequence, VerifyActive,
              ClearHazard, ReleaseActive, LoadActiveUnlocked, ReadLatencyUnlocked,
              slotVars, allVars
<1> QED
  BY <1>1, <1>2, <1>3 DEF SlotNext, StageReplacement, ReplacePipeline, MutationStep

\* Whatever is staged, revised and replaced in between, the pipeline that a
\* rollback returns to stays put until a commit retires it or a rollback takes it.
THEOREM SlotRollbackTargetKept == SlotSpec => RollbackTargetKept
<1>1. [SlotNext]_allVars =>
        [stagedPrevious # NoPipeline /\ stagedPrevious' # stagedPrevious =>
           /\ stagedPrevious' = NoPipeline
           /\ stagedPrevious \in {retiring', current'}]_allVars
  BY TargetStep
<1> QED
  BY <1>1, PTL DEF SlotSpec, RollbackTargetKept

-----------------------------------------------------------------------------
(* The slot implements PipelineSlotContract. *)

LEMMA ContractInitially == SlotInit => SlotContract!Init
BY SMT DEF SlotInit, SlotContract!Init, SlotContract!NoCall, SlotContract!ActivationNumbers,
           SlotGenerations, GenerationOf

LEMMA ContractStep ==
  SlotInv /\ SlotInv' /\ [SlotNext]_allVars => [SlotContract!Next]_(SlotContract!vars)
<1> SUFFICES ASSUME SlotInv, SlotInv', [SlotNext]_allVars
             PROVE  [SlotContract!Next]_(SlotContract!vars)
  OBVIOUS
<1> USE SlotAssumption DEF SlotInv, SlotTypeOK, rtVars
<1>0. /\ activationSequence \in Nat
      /\ rtSequence \in Nat
      /\ GenerationOf(activationSequence) \in SlotGenerations
      /\ GenerationOf(rtSequence) \in SlotGenerations
  BY GenerationInRange
<1> DEFINE Same == UNCHANGED <<GenerationOf(activationSequence), installed,
                               rtPc, rtSequence, rtFloor>>
\* All but five actions change nothing the contract speaks about.
<1>1. Same => UNCHANGED SlotContract!vars
  BY DEF SlotContract!vars
<1>2. ASSUME NEW t \in Mutators, LockMutation(t) \/ UnlockMutation(t)
      PROVE  Same
  BY <1>2 DEF LockMutation, UnlockMutation, slotVars
<1>3. ASSUME NEW p \in Pipelines, NEW c \in BOOLEAN,
             Stage(p, c) \/ ReviseStaged(p)
      PROVE  Same
  BY <1>3 DEF Stage, ReviseStaged
<1>4. ASSUME CommitStaged \/ RollbackStaged \/ ActivateStore \/ RetireSuperseded
      PROVE  Same
  BY <1>4 DEF CommitStaged, RollbackStaged, ActivateStore, RetireSuperseded
<1>5. ASSUME ActivateOdd
      PROVE  Same
  BY <1>5, <1>0, StepOfSequence DEF ActivateOdd, MutationInv
<1>6. ASSUME ActivateEven
      PROVE  SlotContract!Activate(active)
  <2>1. /\ GenerationOf(activationSequence + 1) = GenerationOf(activationSequence) + 1
        /\ GenerationOf(activationSequence) < MaxActivations
    BY <1>6, <1>0, StepOfSequence, GenerationInRange DEF ActivateEven, MutationInv
  <2> QED
    BY <1>6, <2>1 DEF ActivateEven, SlotContract!Activate
<1>7. ASSUME ReclaimSuperseded
      PROVE  SlotContract!Reclaim(Reclaimable)
  <2>1. installed[GenerationOf(activationSequence)] \notin Reclaimable
    BY <1>7 DEF ReclaimSuperseded, Reclaimable, ActiveInv, EachPipelineHasOneOwner
  <2>2. rtPc = "using" => installed[GenerationOf(rtSequence)] \notin Reclaimable
    BY <1>7 DEF ReclaimSuperseded, Reclaimable, CallInv
  <2> QED
    BY <1>7, <2>1, <2>2
       DEF ReclaimSuperseded, SlotContract!Reclaim, SlotContract!ActivationNumbers, SlotGenerations
<1>8. ASSUME BeginCall
      PROVE  SlotContract!Invoke
  BY <1>8 DEF BeginCall, SlotContract!Invoke, slotVars
<1>9. ASSUME LoadSequence \/ LoadActive \/ PublishHazard \/ VerifySequence
             \/ ClearHazard
      PROVE  UNCHANGED SlotContract!vars
  BY <1>9 DEF LoadSequence, LoadActive, PublishHazard, VerifySequence,
              ClearHazard, RetryFrom, SlotContract!vars, slotVars
<1>10. ASSUME VerifyActive, active = rtSelected
       PROVE  SlotContract!Select(GenerationOf(rtSequence))
  <2>1. /\ rtFloor <= GenerationOf(rtSequence)
        /\ GenerationOf(rtSequence) <= GenerationOf(activationSequence)
        /\ installed[GenerationOf(rtSequence)] # NoPipeline
    BY <1>10, <1>0, GenerationMonotone DEF VerifyActive, CallInv, SlotAssumption
  <2>2. /\ rtPc = "verifyActive" /\ rtPc' = "using"
        /\ UNCHANGED <<rtFloor, rtSequence, activationSequence, installed>>
    BY <1>10 DEF VerifyActive, slotVars
  <2> QED
    BY <2>1, <2>2 DEF SlotContract!Select
<1>11. ASSUME VerifyActive, active # rtSelected
       PROVE  UNCHANGED SlotContract!vars
  BY <1>11 DEF VerifyActive, SlotContract!vars, slotVars
<1>12. ASSUME ReleaseActive
       PROVE  SlotContract!Return
  BY <1>12 DEF ReleaseActive, SlotContract!Return, SlotContract!NoCall
<1>13. ASSUME NEW t \in UnlockedReaders,
              LoadActiveUnlocked(t) \/ ReadLatencyUnlocked(t)
       PROVE  Same
  BY <1>13 DEF LoadActiveUnlocked, ReadLatencyUnlocked, slotVars
<1>14. ASSUME UNCHANGED allVars
       PROVE  Same
  BY <1>14 DEF allVars, slotVars
<1>15. Reclaimable \in SUBSET Pipelines
  BY DEF Reclaimable
<1> QED
  BY <1>0, <1>1, <1>2, <1>3, <1>4, <1>5, <1>6, <1>7, <1>8, <1>9, <1>10, <1>11,
     <1>12, <1>13, <1>14, <1>15
     DEF SlotNext, StageReplacement, ReplacePipeline, MutationStep, AudioStep,
         SlotContract!Next, SlotContract!ActivationNumbers, SlotGenerations

\* What the callback sees is a sequence of whole activations: the lock-free
\* protocol adds nothing to the contract's behaviours.
THEOREM SlotImplementsContract == SlotSpec => ImplementsContract
<1>1. SlotInit => SlotContract!Init
  BY ContractInitially
<1>2. SlotInv /\ SlotInv' /\ [SlotNext]_allVars => [SlotContract!Next]_(SlotContract!vars)
  BY ContractStep
<1> QED
  BY <1>1, <1>2, SlotInvariant, PTL DEF SlotSpec, ImplementsContract, SlotContract!Spec

-----------------------------------------------------------------------------
(* The idle state. *)

Quiet == \A t \in Threads : mutator[t] = "idle"

\* The run length is the detector's counter, and the counter says whether the
\* detector sleeps.
DetectorInv ==
  /\ idle.configured =>
       /\ Len(gains) = idle.silent
       /\ idle.sleeping <=> idle.silent >= Timeout + Fade
  /\ idle.configured /\ idle.sleeping /\ idle.generation = pipeline.generation => ~tail

\* A pending result agrees with what will be published, unless the word moved.
PublicationInv ==
  /\ mode = IF pipeline.native THEN "preset" ELSE "bypass"
  /\ pc # "idle" /\ unchanged => snapshot = word.policy
  /\ pc = "processed" /\ result = "sleeping" =>
       idle.configured /\ idle.sleeping /\ idle.policy = snapshot
  /\ pc = "processed" /\ unchanged /\ Quiet => (result = "bypassed" <=> ~pipeline.native)
  /\ pc # "idle" /\ ~unchanged => word.activity # "sleeping"
  /\ Quiet => (word.activity = "bypassed" <=> ~pipeline.native)
  /\ pc # "processed" /\ word.activity = "sleeping" =>
       ~idle.configured \/ (idle.sleeping /\ idle.policy = word.policy)

IdleInv == TypeOK /\ FadeIgnoresBlocks /\ DetectorInv /\ PublicationInv

-----------------------------------------------------------------------------
LEMMA FramesPositive ==
  ASSUME NEW rate \in Nat \ {0}, NEW ms \in Nat
  PROVE  /\ FramesForMilliseconds(rate, ms) \in Nat
         /\ ms # 0 => FramesForMilliseconds(rate, ms) # 0
<1>1. rate * ms \in Nat
  OBVIOUS
<1>2. ms # 0 => rate * ms # 0
  OBVIOUS
<1> QED
  BY <1>1, <1>2 DEF FramesForMilliseconds

LEMMA FadeGainType ==
  ASSUME NEW progress \in Nat, NEW fade \in Nat
  PROVE  /\ FadeGain(progress, fade) \in Gain
         /\ progress >= fade - 1 => FadeGain(progress, fade)[1] = 0
  BY DEF FadeGain, Gain

\* A block gives its frames the gains of their positions in the silent run.
LEMMA BlockGainsByPosition ==
  ASSUME NEW previous \in Nat, NEW timeout \in Nat, NEW fade \in Nat, NEW frames \in Nat \ {0},
         NEW i \in 1 .. frames
  PROVE  BlockGains(previous, timeout, fade, frames)[i] = GainAt(previous + i, timeout, fade)
<1> DEFINE start == FadeStart(previous, timeout, frames)
<1>1. start \in Nat
  BY DEF FadeStart
<1>2. BlockGains(previous, timeout, fade, frames)[i] =
        IF i - 1 < start THEN Full
        ELSE FadeGain(FadeProgress(previous, timeout) + (i - 1) - start, fade)
  BY DEF BlockGains
<1>3. i - 1 < start <=> previous + i <= timeout
  BY DEF FadeStart
<1>4. ~(i - 1 < start) =>
        FadeProgress(previous, timeout) + (i - 1) - start = previous + i - 1 - timeout
  BY DEF FadeStart, FadeProgress
<1> QED
  BY <1>1, <1>2, <1>3, <1>4 DEF GainAt

LEMMA GainAtType ==
  ASSUME NEW position \in Nat, NEW timeout \in Nat, NEW fade \in Nat
  PROVE  GainAt(position, timeout, fade) \in Gain
<1>1. CASE position <= timeout
  BY <1>1 DEF GainAt, Full, Gain
<1>2. CASE ~(position <= timeout)
  <2>1. position - 1 - timeout \in Nat
    BY <1>2
  <2> QED
    BY <1>2, <2>1, FadeGainType DEF GainAt
<1> QED
  BY <1>1, <1>2

LEMMA BlockGainsType ==
  ASSUME NEW previous \in Nat, NEW timeout \in Nat, NEW fade \in Nat, NEW frames \in Nat \ {0}
  PROVE  /\ BlockGains(previous, timeout, fade, frames) \in Seq(Gain)
         /\ Len(BlockGains(previous, timeout, fade, frames)) = frames
<1>1. ASSUME NEW i \in 1 .. frames
      PROVE  BlockGains(previous, timeout, fade, frames)[i] \in Gain
  <2>1. BlockGains(previous, timeout, fade, frames)[i] = GainAt(previous + i, timeout, fade)
    BY <1>1, BlockGainsByPosition
  <2>2. GainAt(previous + i, timeout, fade) \in Gain
    BY <1>1, GainAtType
  <2> QED
    BY <2>1, <2>2
<1> QED
  BY <1>1 DEF BlockGains

\* A silent run whose gains are those of their positions.
Faded(run, length, timeout, fade) ==
  /\ run \in Seq(Gain) /\ Len(run) = length
  /\ \A i \in 1 .. length : run[i] = GainAt(i, timeout, fade)

\* It stays faded by position when a block is appended.
LEMMA RunExtended ==
  ASSUME NEW timeout \in Nat, NEW fade \in Nat, NEW frames \in Nat \ {0}, NEW previous \in Nat,
         NEW run, Faded(run, previous, timeout, fade),
         NEW longer, longer = run \o BlockGains(previous, timeout, fade, frames)
  PROVE  Faded(longer, previous + frames, timeout, fade)
<1> DEFINE block == BlockGains(previous, timeout, fade, frames)
<1>1. /\ run \in Seq(Gain) /\ Len(run) = previous
      /\ \A i \in 1 .. previous : run[i] = GainAt(i, timeout, fade)
  BY DEF Faded
<1>2. /\ block \in Seq(Gain) /\ Len(block) = frames
  BY BlockGainsType
<1>3. ASSUME NEW k \in 1 .. frames PROVE block[k] = GainAt(previous + k, timeout, fade)
  BY <1>3, BlockGainsByPosition
<1> HIDE DEF block
<1>4. /\ run \o block \in Seq(Gain) /\ Len(run \o block) = previous + frames
      /\ \A i \in 1 .. previous + frames :
           (run \o block)[i] = IF i <= previous THEN run[i] ELSE block[i - previous]
  BY <1>1, <1>2, ConcatProperties
<1>5. ASSUME NEW i \in 1 .. previous + frames
      PROVE  (run \o block)[i] = GainAt(i, timeout, fade)
  <2>1. CASE i <= previous
    <3>1. i \in 1 .. previous
      BY <1>5, <2>1
    <3> QED
      BY <1>1, <1>4, <1>5, <2>1, <3>1
  <2>2. CASE ~(i <= previous)
    <3> DEFINE k == i - previous
    <3>1. k \in 1 .. frames /\ previous + k = i
      BY <1>5, <2>2
    <3>2. (run \o block)[i] = block[k]
      BY <1>4, <1>5, <2>2
    <3> HIDE DEF k
    <3> QED
      BY <1>3, <3>1, <3>2
  <2> QED
    BY <2>1, <2>2
<1>6. longer = run \o block
  BY DEF block
<1> QED
  BY <1>4, <1>5, <1>6 DEF Faded

-----------------------------------------------------------------------------
LEMMA DetectorFacts ==
  ASSUME IdleInv
  PROVE  /\ Detector \in DetectorState
         /\ Detector.configured /\ Detector.policy = snapshot
         /\ Detector.generation = pipeline.generation /\ Detector.rate = pipeline.rate
         /\ Len(GainsSoFar) = Detector.silent
         /\ GainsSoFar \in Seq(Gain)
         /\ Detector.sleeping => Detector = idle
         /\ Detector.sleeping => ~tail
         /\ \A i \in DOMAIN GainsSoFar :
              GainsSoFar[i] = GainAt(i, FramesForMilliseconds(pipeline.rate, snapshot),
                                     FramesForMilliseconds(pipeline.rate, FadeMilliseconds))
  BY DEF IdleInv, TypeOK, DetectorInv, FadeIgnoresBlocks, Detector, DetectorState, GainsSoFar, Timeout, Fade

LEMMA IdleInit == ASSUME IdleAssumption, Init PROVE IdleInv
<1> PICK p \in Timeouts, r \in SampleRates, native \in BOOLEAN :
      /\ mode = IF native THEN "preset" ELSE "bypass"
      /\ word = [policy |-> p, activity |-> ModeActivity(mode)]
      /\ snapshot = p
      /\ unchanged = FALSE
      /\ pc = "idle"
      /\ result = word.activity
      /\ pipeline = [generation |-> 0, native |-> native, rate |-> r]
      /\ mutator = [t \in Threads |-> "idle"]
      /\ idle = [configured |-> FALSE, policy |-> Ignore, generation |-> 0,
                 rate |-> r, silent |-> 0, sleeping |-> FALSE]
      /\ gains = <<>>
      /\ tail = FALSE
  BY DEF Init
<1>1. TypeOK
  <2>1. /\ word \in [policy : Timeouts, activity : Activities]
        /\ snapshot \in Timeouts /\ result \in Activities
    BY DEF ModeActivity, Activities
  <2>2. /\ pipeline \in [generation : 0 .. MaxGeneration, native : BOOLEAN, rate : SampleRates]
        /\ idle \in DetectorState
    BY DEF IdleAssumption, DetectorState
  <2>3. /\ unchanged \in BOOLEAN /\ pc \in {"idle", "loaded", "processed"}
        /\ mode \in {"preset", "bypass"} /\ tail \in BOOLEAN
        /\ mutator \in [Threads -> {"idle", "locked", "unlocked"}]
    BY DEF ModeActivity
  <2>4. gains \in Seq(Gain)
    OBVIOUS
  <2> QED
    BY <2>1, <2>2, <2>3, <2>4 DEF TypeOK
<1>2. FadeIgnoresBlocks /\ DetectorInv /\ PublicationInv
  BY DEF FadeIgnoresBlocks, DetectorInv, PublicationInv, ModeActivity, Quiet, Threads
<1> QED
  BY <1>1, <1>2 DEF IdleInv

\* Steps that leave the detector, its history and the pipeline alone.
LEMMA DetectorUntouched ==
  ASSUME IdleInv, UNCHANGED <<idle, gains, pipeline>>, tail' => tail
  PROVE  FadeIgnoresBlocks' /\ DetectorInv'
  BY DEF IdleInv, FadeIgnoresBlocks, DetectorInv, Timeout, Fade

LEMMA SilentStep ==
  ASSUME IdleAssumption, IdleInv, NEW frames \in BlockSizes,
         NEW processed \in BOOLEAN, NEW reset \in BOOLEAN,
         ProcessSilent(frames, processed, reset)
  PROVE  IdleInv'
<1>1. /\ pipeline.rate \in Nat \ {0} /\ snapshot \in Nat /\ FadeMilliseconds \in Nat \ {0}
      /\ frames \in Nat \ {0} /\ pipeline.rate \in SampleRates /\ snapshot \in Timeouts
  BY DEF IdleInv, TypeOK, IdleAssumption
<1>2. PICK timeout, fade :
        /\ timeout \in Nat /\ fade \in Nat \ {0}
        /\ timeout = FramesForMilliseconds(pipeline.rate, snapshot)
        /\ fade = FramesForMilliseconds(pipeline.rate, FadeMilliseconds)
  BY <1>1, FramesPositive
<1>3. PICK d \in DetectorState :
        /\ d = Detector
        /\ d.configured /\ d.policy = snapshot
        /\ d.generation = pipeline.generation /\ d.rate = pipeline.rate
  BY DetectorFacts
<1>4. PICK run : run = GainsSoFar /\ Faded(run, d.silent, timeout, fade)
  BY <1>2, <1>3, DetectorFacts DEF Faded
<1>a. PICK faded : faded = run \o BlockGains(d.silent, timeout, fade, frames)
  OBVIOUS
<1>5. /\ faded \in Seq(Gain) /\ Len(faded) = d.silent + frames
      /\ \A i \in DOMAIN faded : faded[i] = GainAt(i, timeout, fade)
  <2>1. frames \in Nat \ {0} /\ timeout \in Nat /\ fade \in Nat /\ d.silent \in Nat
    BY <1>1, <1>2, <1>3 DEF DetectorState
  <2>2. Faded(run, d.silent, timeout, fade)
    BY <1>4
  <2>3. Faded(faded, d.silent + frames, timeout, fade)
    BY <1>a, <2>1, <2>2, RunExtended, Zenon
  <2>4. faded \in Seq(Gain) /\ Len(faded) = d.silent + frames
    BY <2>3 DEF Faded
  <2>5. DOMAIN faded = 1 .. d.silent + frames
    BY <2>4
  <2> QED
    BY <2>3, <2>4, <2>5 DEF Faded
<1>6. PICK silent \in Nat : silent = d.silent + frames
  BY <1>1, <1>3 DEF DetectorState
<1>7. /\ pipeline.native /\ snapshot # Ignore /\ ~d.sleeping
      /\ pc = "loaded" /\ pc' = "processed"
      /\ UNCHANGED <<word, unchanged, snapshot, pipeline, mode, mutator>>
  BY <1>3 DEF ProcessSilent, Process, mutatorVars
<1>8. \/ /\ result' = "active" /\ idle' = Awake(d) /\ gains' = <<>> /\ tail' = tail
      \/ /\ Suspends(silent, timeout, fade)
         /\ result' = "sleeping"
         /\ idle' = [d EXCEPT !.silent = silent, !.sleeping = TRUE]
         /\ gains' = faded /\ tail' = FALSE
      \/ /\ ~Suspends(silent, timeout, fade)
         /\ result' = "draining"
         /\ idle' = [d EXCEPT !.silent = silent]
         /\ gains' = faded /\ tail' = tail
  BY <1>2, <1>3, <1>4, <1>a, <1>6 DEF ProcessSilent, Process
<1>9. CASE /\ result' = "active" /\ idle' = Awake(d) /\ gains' = <<>> /\ tail' = tail
  <2>1. idle' \in DetectorState /\ idle'.configured /\ idle'.silent = 0 /\ ~idle'.sleeping
        /\ idle'.policy = snapshot /\ idle'.rate = pipeline.rate
    BY <1>3, <1>9 DEF Awake, DetectorState
  <2>2. TypeOK'
    BY <1>7, <1>9, <2>1 DEF IdleInv, TypeOK, Activities
  <2>3. Timeout' = timeout /\ Fade' = fade
    BY <1>2, <2>1 DEF Timeout, Fade
  <2>4. FadeIgnoresBlocks' /\ DetectorInv'
    BY <1>2, <1>9, <2>1, <2>3 DEF FadeIgnoresBlocks, DetectorInv
  <2>5. PublicationInv'
    BY <1>7, <1>9 DEF IdleInv, PublicationInv, Quiet
  <2> QED
    BY <2>2, <2>4, <2>5 DEF IdleInv
<1>10. CASE /\ Suspends(silent, timeout, fade)
            /\ result' = "sleeping"
            /\ idle' = [d EXCEPT !.silent = silent, !.sleeping = TRUE]
            /\ gains' = faded /\ tail' = FALSE
  <2>1. idle' \in DetectorState /\ idle'.configured /\ idle'.silent = silent /\ idle'.sleeping
        /\ idle'.policy = snapshot /\ idle'.rate = pipeline.rate
    BY <1>3, <1>10 DEF DetectorState
  <2>2. TypeOK'
    BY <1>5, <1>7, <1>10, <2>1 DEF IdleInv, TypeOK, Activities
  <2>3. Timeout' = timeout /\ Fade' = fade
    BY <1>2, <2>1 DEF Timeout, Fade
  <2>4. FadeIgnoresBlocks' /\ DetectorInv'
    BY <1>2, <1>5, <1>6, <1>10, <2>1, <2>3 DEF FadeIgnoresBlocks, DetectorInv, Suspends
  <2>5. PublicationInv'
    BY <1>7, <1>10, <2>1 DEF IdleInv, PublicationInv, Quiet
  <2> QED
    BY <2>2, <2>4, <2>5 DEF IdleInv
<1>11. CASE /\ ~Suspends(silent, timeout, fade)
            /\ result' = "draining"
            /\ idle' = [d EXCEPT !.silent = silent]
            /\ gains' = faded /\ tail' = tail
  <2>1. idle' \in DetectorState /\ idle'.configured /\ idle'.silent = silent /\ ~idle'.sleeping
        /\ idle'.policy = snapshot /\ idle'.rate = pipeline.rate
    BY <1>3, <1>7, <1>11 DEF DetectorState
  <2>2. TypeOK'
    BY <1>5, <1>7, <1>11, <2>1 DEF IdleInv, TypeOK, Activities
  <2>3. Timeout' = timeout /\ Fade' = fade
    BY <1>2, <2>1 DEF Timeout, Fade
  <2>4. FadeIgnoresBlocks' /\ DetectorInv'
    BY <1>2, <1>5, <1>6, <1>11, <2>1, <2>3 DEF FadeIgnoresBlocks, DetectorInv, Suspends
  <2>5. PublicationInv'
    BY <1>7, <1>11 DEF IdleInv, PublicationInv, Quiet
  <2> QED
    BY <2>2, <2>4, <2>5 DEF IdleInv
<1> QED
  BY <1>8, <1>9, <1>10, <1>11

-----------------------------------------------------------------------------
\* The steps of the audio thread other than ProcessSilent.
LEMMA ActiveStep ==
  ASSUME IdleAssumption, IdleInv, NEW silent \in BOOLEAN, ProcessActive(silent)
  PROVE  IdleInv'
<1>1. /\ pipeline.rate \in Nat \ {0} /\ snapshot \in Nat /\ FadeMilliseconds \in Nat \ {0}
  BY DEF IdleInv, TypeOK, IdleAssumption
<1>2. PICK d \in DetectorState :
        d = Detector /\ d.configured /\ d.policy = snapshot /\ d.rate = pipeline.rate
  BY DetectorFacts
<1>3. /\ idle' \in DetectorState /\ idle'.configured /\ idle'.silent = 0 /\ ~idle'.sleeping
      /\ idle'.policy = snapshot /\ idle'.rate = pipeline.rate
  BY <1>2 DEF ProcessActive, Awake, DetectorState
<1>4. /\ pipeline.native /\ pc = "loaded" /\ pc' = "processed" /\ result' = "active"
      /\ gains' = <<>> /\ tail' = (tail \/ ~silent)
      /\ UNCHANGED <<word, unchanged, snapshot, pipeline, mode, mutator>>
  BY DEF ProcessActive, Process, mutatorVars
<1>5. TypeOK'
  <2>1. tail' \in BOOLEAN
    BY <1>4
  <2> QED
    BY <1>3, <1>4, <2>1 DEF IdleInv, TypeOK, Activities
<1>6. Timeout' \in Nat /\ Fade' \in Nat /\ Fade' # 0
  BY <1>1, <1>3, FramesPositive DEF Timeout, Fade
<1>7. FadeIgnoresBlocks' /\ DetectorInv'
  <2>1. FadeIgnoresBlocks'
    BY <1>4 DEF FadeIgnoresBlocks
  <2>2. ~(0 >= Timeout' + Fade') /\ Len(gains') = 0
    <3>1. ASSUME NEW t \in Nat, NEW f \in Nat, f # 0 PROVE ~(0 >= t + f)
      BY <3>1
    <3>2. ~(0 >= Timeout' + Fade')
      BY <1>6, <3>1
    <3>3. Len(gains') = 0
      BY <1>4
    <3> QED
      BY <3>2, <3>3
  <2>3. DetectorInv'
    BY <1>3, <2>2 DEF DetectorInv
  <2> QED
    BY <2>1, <2>3
<1>8. PublicationInv'
  BY <1>4 DEF IdleInv, PublicationInv, Quiet
<1> QED
  BY <1>5, <1>7, <1>8 DEF IdleInv

LEMMA IdleAudioStep ==
  ASSUME IdleAssumption, IdleInv,
         \/ LoadIdleState \/ ProcessBypassed \/ ProcessSleeping \/ TryReplaceActivity
         \/ \E reset \in BOOLEAN : ResetProcessingState(reset)
  PROVE  IdleInv'
<1>1. CASE LoadIdleState
  <2>1. TypeOK'
    BY <1>1 DEF LoadIdleState, mutatorVars, IdleInv, TypeOK
  <2>2. FadeIgnoresBlocks' /\ DetectorInv'
    BY <1>1, DetectorUntouched DEF LoadIdleState, mutatorVars
  <2>3. PublicationInv'
    BY <1>1 DEF LoadIdleState, mutatorVars, IdleInv, PublicationInv, Quiet
  <2> QED
    BY <2>1, <2>2, <2>3 DEF IdleInv
<1>2. CASE ProcessBypassed
  <2>1. TypeOK'
    BY <1>2 DEF ProcessBypassed, Process, mutatorVars, IdleInv, TypeOK, DetectorState, Activities
  <2>2. FadeIgnoresBlocks' /\ DetectorInv'
    BY <1>2 DEF ProcessBypassed, IdleInv, TypeOK, DetectorState, FadeIgnoresBlocks, DetectorInv
  <2>3. PublicationInv'
    BY <1>2 DEF ProcessBypassed, Process, mutatorVars, IdleInv, TypeOK, PublicationInv, Quiet, DetectorState
  <2> QED
    BY <2>1, <2>2, <2>3 DEF IdleInv
<1>3. CASE ProcessSleeping
  <2>1. TypeOK'
    BY <1>3, DetectorFacts DEF ProcessSleeping, Process, mutatorVars, IdleInv, TypeOK, Activities
  <2>2. FadeIgnoresBlocks' /\ DetectorInv'
    BY <1>3, DetectorFacts, DetectorUntouched DEF ProcessSleeping, Process, mutatorVars
  <2>3. PublicationInv'
    BY <1>3, DetectorFacts DEF ProcessSleeping, Process, mutatorVars, IdleInv, PublicationInv, Quiet
  <2> QED
    BY <2>1, <2>2, <2>3 DEF IdleInv
<1>4. CASE TryReplaceActivity
  <2>1. TypeOK'
    BY <1>4 DEF TryReplaceActivity, mutatorVars, IdleInv, TypeOK
  <2>2. FadeIgnoresBlocks' /\ DetectorInv'
    BY <1>4, DetectorUntouched DEF TryReplaceActivity, mutatorVars
  <2>3. PublicationInv'
    BY <1>4 DEF TryReplaceActivity, TryReplace, mutatorVars, IdleInv, PublicationInv, Quiet
  <2> QED
    BY <2>1, <2>2, <2>3 DEF IdleInv
<1>5. CASE \E reset \in BOOLEAN : ResetProcessingState(reset)
  <2> PICK reset \in BOOLEAN : ResetProcessingState(reset)
    BY <1>5
  <2>a. /\ idle' \in DetectorState /\ ~idle'.configured
        /\ gains' = <<>> /\ tail' \in BOOLEAN /\ pc = "idle"
        /\ UNCHANGED <<word, unchanged, snapshot, pc, result, pipeline, mode, mutator>>
    BY DEF ResetProcessingState, mutatorVars, IdleInv, TypeOK, DetectorState, Awake
  <2>1. TypeOK'
    BY <2>a DEF IdleInv, TypeOK
  <2>2. FadeIgnoresBlocks' /\ DetectorInv'
    BY <2>a DEF FadeIgnoresBlocks, DetectorInv
  <2>3. PublicationInv'
    BY <2>a DEF IdleInv, PublicationInv, Quiet
  <2> QED
    BY <2>1, <2>2, <2>3 DEF IdleInv
<1> QED
  BY <1>1, <1>2, <1>3, <1>4, <1>5

\* The steps of the control thread and the main loop.
LEMMA ReplaceStep ==
  ASSUME IdleAssumption, IdleInv, NEW t \in Threads, NEW native \in BOOLEAN,
         NEW rate \in SampleRates, Replace(t, native, rate)
  PROVE  IdleInv'
<1>1. /\ pipeline' = [generation |-> pipeline.generation + 1, native |-> native, rate |-> rate]
      /\ pipeline.generation + 1 \in 0 .. MaxGeneration
      /\ mode' = IF native THEN "preset" ELSE "bypass"
      /\ mutator' = [mutator EXCEPT ![t] = "locked"] /\ mutator'[t] = "locked"
      /\ tail' = FALSE
      /\ UNCHANGED <<word, unchanged, snapshot, pc, result, idle, gains>>
  BY DEF Replace, audioVars, IdleInv, TypeOK, IdleAssumption
<1>2. TypeOK'
  BY <1>1 DEF IdleInv, TypeOK
<1>3. FadeIgnoresBlocks' /\ DetectorInv'
  BY <1>1 DEF IdleInv, FadeIgnoresBlocks, DetectorInv, Timeout, Fade
<1>4. PublicationInv'
  BY <1>1 DEF IdleInv, PublicationInv, Quiet
<1> QED
  BY <1>2, <1>3, <1>4 DEF IdleInv

LEMMA MutatorStep ==
  ASSUME IdleAssumption, IdleInv,
         \/ LoadPreset \/ Bypass \/ ChangeRate \/ SetDspBackend
         \/ \E t \in Threads : ReplaceActivity(t)
         \/ \E p \in Timeouts : ReplacePolicy(p)
  PROVE  IdleInv'
<1>a. pipeline.native \in BOOLEAN /\ pipeline.rate \in SampleRates
  BY DEF IdleInv, TypeOK
<1>b. "control" \in Threads /\ "mainLoop" \in Threads
  BY DEF Threads
<1>1. CASE LoadPreset
  BY <1>1, <1>a, <1>b, ReplaceStep DEF LoadPreset
<1>2. CASE Bypass
  BY <1>2, <1>a, <1>b, ReplaceStep DEF Bypass
<1>3. CASE ChangeRate
  BY <1>3, <1>a, <1>b, ReplaceStep DEF ChangeRate
<1>4. CASE SetDspBackend
  <2>1. /\ pipeline' \in [generation : 0 .. MaxGeneration, native : BOOLEAN, rate : SampleRates]
        /\ pipeline'.native = pipeline.native
        /\ mutator' = [mutator EXCEPT !["control"] = "unlocked"] /\ mutator'["control"] = "unlocked"
        /\ (tail' = FALSE) \/ (tail' = tail /\ pipeline' = pipeline)
        /\ UNCHANGED <<word, unchanged, snapshot, pc, result, idle, gains, mode>>
    <3>1. CASE UNCHANGED pipeline
      BY <1>4, <1>b, <3>1 DEF SetDspBackend, audioVars, IdleInv, TypeOK, IdleAssumption
    <3>2. CASE /\ pipeline.generation < MaxGeneration
               /\ pipeline' = [pipeline EXCEPT !.generation = pipeline.generation + 1]
      <4>1. pipeline' \in [generation : 0 .. MaxGeneration, native : BOOLEAN, rate : SampleRates]
            /\ pipeline'.native = pipeline.native /\ pipeline'.generation # pipeline.generation
        BY <3>2 DEF IdleInv, TypeOK, IdleAssumption
      <4>2. /\ mutator' = [mutator EXCEPT !["control"] = "unlocked"] /\ tail' = FALSE
            /\ UNCHANGED <<word, unchanged, snapshot, pc, result, idle, gains, mode>>
        BY <1>4, <4>1 DEF SetDspBackend, audioVars
      <4>3. mutator'["control"] = "unlocked"
        BY <1>b, <4>2 DEF IdleInv, TypeOK
      <4> QED
        BY <4>1, <4>2, <4>3
    <3> QED
      BY <1>4, <3>1, <3>2 DEF SetDspBackend
  <2>2. TypeOK'
    BY <2>1 DEF IdleInv, TypeOK
  <2>3. FadeIgnoresBlocks' /\ DetectorInv'
    BY <2>1 DEF IdleInv, FadeIgnoresBlocks, DetectorInv, Timeout, Fade
  <2>4. PublicationInv'
    BY <1>b, <2>1 DEF IdleInv, PublicationInv, Quiet
  <2> QED
    BY <2>2, <2>3, <2>4 DEF IdleInv
<1>5. ASSUME NEW t \in Threads, ReplaceActivity(t) PROVE IdleInv'
  <2>1. /\ mutator' = [mutator EXCEPT ![t] = "idle"]
        /\ word' = [word EXCEPT !.activity = ModeActivity(mode)]
        /\ unchanged' = FALSE
        /\ UNCHANGED <<tail, snapshot, pc, result, idle, gains, pipeline, mode>>
    BY <1>5 DEF ReplaceActivity, audioVars
  <2>2. ModeActivity(mode) \in {"active", "bypassed"}
        /\ (ModeActivity(mode) = "bypassed" <=> ~pipeline.native)
    BY DEF ModeActivity, IdleInv, PublicationInv
  <2>3. TypeOK'
    BY <2>1, <2>2 DEF IdleInv, TypeOK, Activities
  <2>4. FadeIgnoresBlocks' /\ DetectorInv'
    BY <2>1, DetectorUntouched
  <2>5. word'.activity = ModeActivity(mode) /\ word'.policy = word.policy
    BY <2>1 DEF IdleInv, TypeOK
  <2>6. PublicationInv'
    BY <2>1, <2>2, <2>5 DEF IdleInv, PublicationInv
  <2> QED
    BY <2>3, <2>4, <2>6 DEF IdleInv
<1>6. ASSUME NEW p \in Timeouts, ReplacePolicy(p) PROVE IdleInv'
  <2>1. /\ word' = [policy |-> p, activity |-> ModeActivity(mode)]
        /\ unchanged' = FALSE
        /\ UNCHANGED <<tail, snapshot, pc, result, idle, gains, pipeline, mode, mutator>>
    BY <1>6 DEF ReplacePolicy, audioVars, mutatorVars
  <2>2. ModeActivity(mode) \in {"active", "bypassed"}
        /\ (ModeActivity(mode) = "bypassed" <=> ~pipeline.native)
    BY DEF ModeActivity, IdleInv, PublicationInv
  <2>3. TypeOK'
    BY <2>1, <2>2 DEF IdleInv, TypeOK, Activities
  <2>4. FadeIgnoresBlocks' /\ DetectorInv'
    BY <2>1, DetectorUntouched
  <2>5. PublicationInv'
    BY <2>1, <2>2 DEF IdleInv, PublicationInv
  <2> QED
    BY <2>3, <2>4, <2>5 DEF IdleInv
<1> QED
  BY <1>1, <1>2, <1>3, <1>4, <1>5, <1>6

LEMMA IdleNext == ASSUME IdleAssumption, IdleInv, [Next]_vars PROVE IdleInv'
<1>1. CASE Next
  BY <1>1, IdleAudioStep, ActiveStep, SilentStep, MutatorStep DEF Next
<1>2. CASE UNCHANGED vars
  BY <1>2 DEF vars, audioVars, mutatorVars, IdleInv, TypeOK, FadeIgnoresBlocks, DetectorInv,
              PublicationInv, Quiet, Timeout, Fade
<1> QED
  BY <1>1, <1>2

LEMMA IdleInvariant == Spec => []IdleInv
<1>1. Init => IdleInv
  BY IdleInit, IdleAssumption
<1>2. IdleInv /\ [Next]_vars => IdleInv'
  BY IdleNext, IdleAssumption
<1> QED
  BY <1>1, <1>2, PTL DEF Spec

-----------------------------------------------------------------------------
\* Every variable of DspIdle stays within its range: the detector's counter
\* never goes negative and no gain has a zero denominator.
THEOREM IdleTypeOK == Spec => []TypeOK
<1>1. IdleInv => TypeOK
  BY DEF IdleInv
<1> QED
  BY <1>1, IdleInvariant, PTL

\* applyIdleFade gives every frame of a silent run the gain of its position,
\* for every policy, rate and division of the run into blocks.
THEOREM IdleFadeIgnoresBlocks == Spec => []FadeIgnoresBlocks
<1>1. IdleInv => FadeIgnoresBlocks
  BY DEF IdleInv
<1> QED
  BY <1>1, IdleInvariant, PTL

\* processWithIdle suspends the pipeline exactly after timeout and fade, with
\* the output at zero and no sound left in the pipeline.
THEOREM IdleSleepsCleanAfterFade == Spec => []SleepsCleanAfterFade
<1>1. ASSUME IdleInv PROVE SleepsCleanAfterFade
  <2>1. idle \in DetectorState /\ gains \in Seq(Gain) /\ FadeMilliseconds \in Nat \ {0}
        /\ (idle.configured => idle.rate \in Nat \ {0} /\ idle.policy \in Nat)
    BY <1>1, IdleAssumption DEF IdleInv, TypeOK, DetectorState, IdleAssumption
  <2>2. CASE idle.configured /\ idle.sleeping
    <3>1. Timeout \in Nat /\ Fade \in Nat /\ Fade # 0
      BY <2>1, <2>2, FramesPositive DEF Timeout, Fade
    <3>2. Len(gains) \in Nat /\ Len(gains) >= Timeout + Fade
      BY <1>1, <2>1, <2>2 DEF IdleInv, DetectorInv
    <3>3. gains[Len(gains)] = GainAt(Len(gains), Timeout, Fade)
      <4>1. Len(gains) \in DOMAIN gains
        BY <2>1, <3>1, <3>2
      <4> QED
        BY <1>1, <2>2, <4>1 DEF IdleInv, FadeIgnoresBlocks
    <3>4. GainAt(Len(gains), Timeout, Fade)[1] = 0
      <4>1. PICK n \in Nat, timeout \in Nat, fade \in Nat :
              n = Len(gains) /\ timeout = Timeout /\ fade = Fade
        BY <3>1, <3>2
      <4>2. n >= timeout + fade /\ fade # 0
        BY <3>1, <3>2, <4>1
      <4>3. GainAt(n, timeout, fade) = FadeGain(n - 1 - timeout, fade)
        BY <4>2 DEF GainAt
      <4>4. n - 1 - timeout \in Nat /\ n - 1 - timeout >= fade - 1
        BY <4>2
      <4> QED
        BY <4>1, <4>3, <4>4, FadeGainType
    <3>5. idle.generation = pipeline.generation => ~tail
      BY <1>1, <2>2 DEF IdleInv, DetectorInv
    <3> QED
      BY <2>2, <3>2, <3>3, <3>4, <3>5 DEF SleepsCleanAfterFade
  <2>3. CASE idle.configured /\ ~idle.sleeping
    <3>1. Timeout \in Nat /\ Fade \in Nat
      BY <2>1, <2>3, FramesPositive DEF Timeout, Fade
    <3>2. Len(gains) < Timeout + Fade
      BY <1>1, <2>1, <2>3, <3>1 DEF IdleInv, DetectorInv
    <3> QED
      BY <2>3, <3>2 DEF SleepsCleanAfterFade
  <2>4. CASE ~idle.configured
    BY <2>4 DEF SleepsCleanAfterFade
  <2> QED
    BY <2>2, <2>3, <2>4
<1> QED
  BY <1>1, IdleInvariant, PTL

\* The compare-and-swap of tryReplaceActivity keeps the reported activity that
\* of the active pipeline and the current policy.
THEOREM IdleReportedActivityIsCurrent == Spec => []ReportedActivityIsCurrent
<1>1. IdleInv => ReportedActivityIsCurrent
  BY DEF IdleInv, PublicationInv, ReportedActivityIsCurrent, Quiet
<1> QED
  BY <1>1, IdleInvariant, PTL

\* A block never brings an old policy back, however the audio thread and
\* setDspIdle interleave.
THEOREM IdlePolicyIsOnlyCommanded == Spec => PolicyIsOnlyCommanded
<1>1. ASSUME IdleInv, [Next]_vars PROVE [word'.policy # word.policy => pc' = pc]_vars
  <2>1. CASE TryReplaceActivity
    BY <1>1, <2>1 DEF TryReplaceActivity, TryReplace, IdleInv, PublicationInv
  <2>2. CASE UNCHANGED vars
    BY <2>2
  <2>3. CASE UNCHANGED word
    BY <2>3
  <2>4. CASE UNCHANGED pc
    BY <2>4
  <2> QED
    BY <1>1, <2>1, <2>2, <2>3, <2>4 DEF Next, LoadIdleState, ProcessBypassed, ProcessSleeping,
       ProcessActive, ProcessSilent, Process, ResetProcessingState, LoadPreset, Bypass, ChangeRate,
       Replace, SetDspBackend, ReplaceActivity, ReplacePolicy, audioVars
<1> QED
  BY <1>1, IdleInvariant, PTL DEF Spec, PolicyIsOnlyCommanded

-----------------------------------------------------------------------------
(* The ring. *)

\* CellsHaveOneOwner needs that the frames a write was promised and those already
\* queued fit into the ring together, which only holds because the consumer
\* never lowers readFrame.
RingInv ==
  /\ RingTypeOK
  /\ writeFrame - readFrame + producer.accepted <= Capacity
  /\ producer.accepted <= producer.frames
  /\ readFrame + consumer.copied <= writeFrame
  /\ consumer.prefix + consumer.copied <= consumer.frames \/ consumer.pc \in {"idle", "discard"}
  /\ consumer.pc = "check" => Len(delivered) = consumer.frames

\* Frames closer together than the capacity are kept in different cells.
LEMMA NearFramesDiffer ==
  ASSUME NEW m \in Nat, NEW n \in Nat, m < n, n - m < Capacity
  PROVE  CellOf(m) # CellOf(n)
<1>1. Capacity \in Nat \ {0}
  BY RingAssumption DEF RingAssumption
<1> SUFFICES ASSUME m % Capacity = n % Capacity
             PROVE  FALSE
  BY DEF CellOf
<1>2. /\ m \div Capacity \in Int /\ n \div Capacity \in Int
      /\ m = Capacity * (m \div Capacity) + (m % Capacity)
      /\ n = Capacity * (n \div Capacity) + (n % Capacity)
  BY <1>1
<1>3. (n \div Capacity) - (m \div Capacity) \in Int
  BY <1>2
<1>4. n - m = Capacity * ((n \div Capacity) - (m \div Capacity))
  BY <1>1, <1>2
<1>5. \A k \in Int : Capacity * k > 0 => Capacity * k >= Capacity
  BY <1>1
<1> QED
  <2>1. Capacity * ((n \div Capacity) - (m \div Capacity)) > 0
    BY <1>4
  <2>2. Capacity * ((n \div Capacity) - (m \div Capacity)) >= Capacity
    BY <1>3, <1>5, <2>1
  <2> QED
    BY <1>1, <1>4, <2>2

LEMMA CellsExist ==
  ASSUME NEW frame \in Nat
  PROVE  CellOf(frame) \in Cells
BY RingAssumption DEF RingAssumption, CellOf, Cells

\* The invariant gives the exclusion.
LEMMA RoomMeansOwnership == RingInv => CellsHaveOneOwner
<1> SUFFICES ASSUME RingInv,
                    NEW i \in 0 .. producer.accepted - 1,
                    NEW frame \in readFrame .. writeFrame - 1
             PROVE  CellOf(writeFrame + i) # CellOf(frame)
  BY DEF CellsHaveOneOwner
<1>1. /\ writeFrame \in Nat /\ readFrame \in Nat
      /\ producer.accepted \in Nat /\ Capacity \in Nat
  BY RingAssumption DEF RingInv, RingTypeOK, Producers, RingAssumption
<1>2. writeFrame - readFrame + producer.accepted <= Capacity
  BY DEF RingInv
<1>3. /\ writeFrame + i \in Nat /\ frame \in Nat
      /\ frame < writeFrame + i /\ (writeFrame + i) - frame < Capacity
  BY <1>1, <1>2
<1> QED
  BY <1>3, NearFramesDiffer

\* What a write or a read is promised is limited by both arguments.
LEMMA LeastLimits ==
  ASSUME NEW m \in Nat, NEW n \in Nat
  PROVE  Least(m, n) \in Nat /\ Least(m, n) <= m /\ Least(m, n) <= n
BY DEF Least

LEMMA InitRing == RingInit => RingInv
<1> SUFFICES ASSUME RingInit
             PROVE  RingInv
  OBVIOUS
<1>1. Capacity \in Nat \ {0} /\ MaxBlock \in Nat \ {0}
  BY RingAssumption DEF RingAssumption
<1>2. RingTypeOK
  BY <1>1 DEF RingInit, RingTypeOK, IdleProducer, IdleConsumer, Producers, Consumers, Silence,
              NoGeneration
<1> QED
  BY <1>1, <1>2 DEF RingInit, RingInv, IdleProducer, IdleConsumer

\* Filling cells from a block leaves a function on the cells.
LEMMA FilledType ==
  ASSUME NEW S, NEW cells \in [Cells -> S], NEW block,
         writeFrame \in Nat, producer.accepted \in Nat,
         \A i \in 1 .. producer.accepted : block[i] \in S
  PROVE  Filled(cells, block) \in [Cells -> S]
<1>1. SUFFICES ASSUME NEW c \in Cells, CellOf(c - writeFrame) < producer.accepted
              PROVE  block[CellOf(c - writeFrame) + 1] \in S
  BY DEF Filled
<1>2. CellOf(c - writeFrame) \in Nat
  BY RingAssumption DEF RingAssumption, CellOf, Cells
<1> QED
  BY <1>1, <1>2

\* Each step of the producer keeps the invariant.
LEMMA ProducerKeepsRing ==
  ASSUME RingInv
  PROVE  /\ \A frames \in 1 .. MaxBlock, g \in Generations :
              BeginWrite(frames, g) => RingInv'
         /\ CopyIntoRing => RingInv'
         /\ MarkGenerations => RingInv'
         /\ PublishWrite => RingInv'
<1> USE DEF RingInv
<1>0. /\ Capacity \in Nat \ {0} /\ MaxBlock \in Nat \ {0}
      /\ RingTypeOK
      /\ writeFrame \in Nat /\ readFrame \in Nat /\ readFrame <= writeFrame
      /\ producer.accepted \in Nat /\ producer.accepted <= MaxBlock
      /\ producer.frames \in Nat /\ offered \in Nat
      /\ consumer.copied \in Nat
  BY RingAssumption DEF RingAssumption, RingTypeOK, Producers, Consumers
<1>1. ASSUME NEW frames \in 1 .. MaxBlock, NEW g \in Generations, BeginWrite(frames, g)
      PROVE  RingInv'
  <2>1. /\ QueuedFrames \in Nat /\ AvailableFrames \in Nat
        /\ AvailableFrames <= Capacity - (writeFrame - readFrame)
    BY <1>0 DEF QueuedFrames, AvailableFrames, Least
  <2>2. /\ Least(frames, AvailableFrames) \in 0 .. MaxBlock
        /\ Least(frames, AvailableFrames) <= Capacity - (writeFrame - readFrame)
    BY <1>0, <1>1, <2>1 DEF Least
  <2>2a. Least(frames, AvailableFrames) <= frames
    BY <1>1, <2>1 DEF Least
  <2>3. /\ producer' = [pc |-> "samples", frames |-> frames,
                        accepted |-> Least(frames, AvailableFrames), generation |-> g]
        /\ UNCHANGED <<writeFrame, samples, generations, offered, readFrame, consumer,
                       delivered>>
    BY <1>1 DEF BeginWrite, consumerVars
  <2>4. producer' \in Producers
    BY <1>1, <2>2, <2>3 DEF Producers
  <2> QED
    BY <1>0, <2>2, <2>2a, <2>3, <2>4 DEF RingTypeOK
<1>2. CASE CopyIntoRing
  <2>1. samples' \in [Cells -> Nat]
    <3>1. \A i \in 1 .. producer.accepted :
            [j \in 1 .. producer.frames |-> offered + j][i] \in Nat
      BY <1>0
    <3>2. samples \in [Cells -> Nat]
      BY DEF RingTypeOK
    <3> QED
      BY <1>0, <1>2, <3>1, <3>2, FilledType DEF CopyIntoRing
  <2>2. producer' \in Producers /\ producer'.accepted = producer.accepted
        /\ producer'.frames = producer.frames
    BY <1>0, <1>2 DEF CopyIntoRing, RingTypeOK, Producers
  <2> QED
    BY <1>0, <1>2, <2>1, <2>2 DEF CopyIntoRing, RingTypeOK, consumerVars
<1>3. CASE MarkGenerations
  <2>1. generations' \in [Cells -> Generations \cup {NoGeneration}]
    <3>1. \A i \in 1 .. producer.accepted :
            [j \in 1 .. producer.frames |-> producer.generation][i]
              \in Generations \cup {NoGeneration}
      BY <1>0 DEF RingTypeOK, Producers
    <3>2. generations \in [Cells -> Generations \cup {NoGeneration}]
      BY DEF RingTypeOK
    <3> QED
      BY <1>0, <1>3, <3>1, <3>2, FilledType DEF MarkGenerations
  <2>2. producer' \in Producers /\ producer'.accepted = producer.accepted
        /\ producer'.frames = producer.frames
    BY <1>0, <1>3 DEF MarkGenerations, RingTypeOK, Producers
  <2> QED
    BY <1>0, <1>3, <2>1, <2>2 DEF MarkGenerations, RingTypeOK, consumerVars
<1>4. CASE PublishWrite
  <2>1. producer' \in Producers /\ producer'.accepted = 0 /\ producer'.frames = 0
    BY <1>0, <1>4 DEF PublishWrite, IdleProducer, Producers, NoGeneration
  <2>2. /\ writeFrame' = writeFrame + producer.accepted
        /\ offered' \in Nat
        /\ UNCHANGED <<samples, generations, readFrame, consumer, delivered>>
    BY <1>0, <1>4 DEF PublishWrite, consumerVars
  <2>3. RingTypeOK'
    <3>1. readFrame' \in 0 .. writeFrame' /\ writeFrame' \in Nat
      BY <1>0, <2>2
    <3> QED
      BY <1>0, <2>1, <2>2, <3>1 DEF RingTypeOK
  <2>4. /\ writeFrame' - readFrame' + producer'.accepted <= Capacity
        /\ readFrame' + consumer'.copied <= writeFrame'
    BY <1>0, <2>1, <2>2
  <2> QED
    BY <2>1, <2>2, <2>3, <2>4
<1> QED
  BY <1>1, <1>2, <1>3, <1>4

\* A buffer that is filled frame by frame is a block of that length.
LEMMA BlockType ==
  ASSUME NEW S, NEW n \in Nat, NEW block \in [1 .. n -> S]
  PROVE  block \in Seq(S) /\ Len(block) = n
OBVIOUS

\* Each step of the consumer keeps the invariant.
LEMMA ConsumerKeepsRing ==
  ASSUME RingInv
  PROVE  /\ \A frames \in 1 .. MaxBlock, g \in Generations : \A prefix \in 0 .. frames :
              BeginRead(frames, prefix, g) => RingInv'
         /\ CopyFromRing => RingInv'
         /\ SilenceForeignFrames => RingInv'
         /\ PublishRead => RingInv'
         /\ BeginDiscard => RingInv'
         /\ Discard => RingInv'
<1> USE DEF RingInv
<1>0. /\ Capacity \in Nat \ {0} /\ MaxBlock \in Nat \ {0}
      /\ RingTypeOK
      /\ writeFrame \in Nat /\ readFrame \in Nat /\ readFrame <= writeFrame
      /\ producer.accepted \in Nat
      /\ writeFrame - readFrame <= Capacity
      /\ consumer.copied \in Nat /\ consumer.prefix \in Nat /\ consumer.frames \in Nat
  BY RingAssumption DEF RingAssumption, RingTypeOK, Producers, Consumers
<1>1. ASSUME NEW frames \in 1 .. MaxBlock, NEW g \in Generations, NEW prefix \in 0 .. frames,
             BeginRead(frames, prefix, g)
      PROVE  RingInv'
  <2>1. QueuedFrames = writeFrame - readFrame
    BY <1>0 DEF QueuedFrames, Least
  <2>2. /\ CopiedFrames(frames - prefix) \in 0 .. Capacity
        /\ CopiedFrames(frames - prefix) <= writeFrame - readFrame
        /\ prefix + CopiedFrames(frames - prefix) <= frames
    BY <1>0, <1>1, <2>1 DEF CopiedFrames, Least
  <2>3. /\ consumer' = [pc |-> "copy", frames |-> frames, prefix |-> prefix,
                        copied |-> CopiedFrames(frames - prefix), generation |-> g]
        /\ UNCHANGED <<writeFrame, samples, generations, producer, offered, readFrame,
                       delivered>>
    BY <1>1 DEF BeginRead, producerVars
  <2>4. consumer' \in Consumers
    <3>1. frames \in 0 .. MaxBlock /\ prefix \in 0 .. MaxBlock
      BY <1>0, <1>1
    <3> QED
      BY <1>1, <2>2, <2>3, <3>1 DEF Consumers
  <2>5. /\ consumer'.pc = "copy" /\ consumer'.copied = CopiedFrames(frames - prefix)
        /\ consumer'.prefix = prefix /\ consumer'.frames = frames
    BY <2>3
  <2>6. RingTypeOK'
    BY <1>0, <2>3, <2>4 DEF RingTypeOK
  <2>7. /\ readFrame' + consumer'.copied <= writeFrame'
        /\ consumer'.prefix + consumer'.copied <= consumer'.frames
    BY <1>0, <2>2, <2>3, <2>5
  <2>8. /\ writeFrame' - readFrame' + producer'.accepted <= Capacity
        /\ producer'.accepted <= producer'.frames
    BY <2>3
  <2> QED
    BY <2>5, <2>6, <2>7, <2>8
<1>2. CASE CopyFromRing
  <2>1. \A i \in 1 .. consumer.frames :
          i > consumer.prefix => readFrame + i - consumer.prefix - 1 \in Nat
    BY <1>0
  <2>2. delivered' \in [1 .. consumer.frames -> Nat]
    BY <1>0, <1>2, <2>1, CellsExist DEF CopyFromRing, RingTypeOK, Silence
  <2>3. delivered' \in Seq(Nat) /\ Len(delivered') = consumer.frames
    BY <1>0, <2>2, BlockType
  <2>4. /\ consumer' \in Consumers
        /\ consumer'.pc = "check" /\ consumer'.frames = consumer.frames
        /\ consumer'.prefix = consumer.prefix /\ consumer'.copied = consumer.copied
    BY <1>0, <1>2 DEF CopyFromRing, RingTypeOK, Consumers
  <2> QED
    BY <1>0, <1>2, <2>3, <2>4 DEF CopyFromRing, RingTypeOK, producerVars
<1>3. CASE SilenceForeignFrames
  <2>1. \A i \in 1 .. consumer.frames : delivered[i] \in Nat
    <3>1. delivered \in Seq(Nat) /\ Len(delivered) = consumer.frames
      BY <1>3 DEF SilenceForeignFrames, RingTypeOK
    <3> QED
      BY <3>1, ElementOfSeq
  <2>2a. delivered' \in [1 .. consumer.frames -> Nat]
    BY <1>0, <1>3, <2>1 DEF SilenceForeignFrames, Silence
  <2>2. delivered' \in Seq(Nat)
    BY <1>0, <2>2a, BlockType
  <2>3. /\ consumer' \in Consumers
        /\ consumer'.pc = "publish" /\ consumer'.frames = consumer.frames
        /\ consumer'.prefix = consumer.prefix /\ consumer'.copied = consumer.copied
    BY <1>0, <1>3 DEF SilenceForeignFrames, RingTypeOK, Consumers
  <2> QED
    BY <1>0, <1>3, <2>2, <2>3 DEF SilenceForeignFrames, RingTypeOK, producerVars
<1>4. ASSUME PublishRead \/ Discard
      PROVE  RingInv'
  <2>1. /\ consumer' \in Consumers /\ consumer'.copied = 0 /\ consumer'.pc = "idle"
    BY <1>0, <1>4 DEF PublishRead, Discard, IdleConsumer, Consumers, NoGeneration
  <2>2. /\ readFrame' = readFrame + consumer.copied
        /\ UNCHANGED <<writeFrame, samples, generations, producer, offered, delivered>>
    BY <1>4 DEF PublishRead, Discard, DiscardTarget, producerVars
  <2>3. RingTypeOK'
    <3>1. readFrame' \in 0 .. writeFrame' /\ writeFrame' \in Nat
      BY <1>0, <2>2
    <3> QED
      BY <1>0, <2>1, <2>2, <3>1 DEF RingTypeOK
  <2>4. /\ writeFrame' - readFrame' + producer'.accepted <= Capacity
        /\ readFrame' + consumer'.copied <= writeFrame'
    BY <1>0, <2>1, <2>2
  <2> QED
    BY <2>1, <2>2, <2>3, <2>4
<1>5. CASE BeginDiscard
  <2>1. QueuedFrames \in 0 .. Capacity /\ QueuedFrames <= writeFrame - readFrame
    BY <1>0 DEF QueuedFrames, Least
  <2>2. consumer' = [pc |-> "discard", frames |-> 0, prefix |-> 0,
                     copied |-> QueuedFrames, generation |-> NoGeneration]
    BY <1>5 DEF BeginDiscard, IdleConsumer
  <2>3. consumer' \in Consumers
    BY <1>0, <2>1, <2>2 DEF Consumers
  <2>4. UNCHANGED <<writeFrame, samples, generations, producer, offered, readFrame,
                    delivered>>
    BY <1>5 DEF BeginDiscard, producerVars
  <2>5. consumer'.pc = "discard" /\ consumer'.copied = QueuedFrames
    BY <2>2
  <2>6. RingTypeOK'
    BY <1>0, <2>3, <2>4 DEF RingTypeOK
  <2>7. readFrame' + consumer'.copied <= writeFrame'
    BY <1>0, <2>1, <2>4, <2>5
  <2>8. /\ writeFrame' - readFrame' + producer'.accepted <= Capacity
        /\ producer'.accepted <= producer'.frames
    BY <2>4
  <2> QED
    BY <2>5, <2>6, <2>7, <2>8
<1> QED
  BY <1>1, <1>2, <1>3, <1>4, <1>5

LEMMA NextRing == RingInv /\ [RingNext]_ringVars => RingInv'
<1> SUFFICES ASSUME RingInv, [RingNext]_ringVars
             PROVE  RingInv'
  OBVIOUS
<1>1. CASE RingNext
  BY <1>1, ProducerKeepsRing, ConsumerKeepsRing DEF RingNext
<1>2. CASE UNCHANGED ringVars
  BY <1>2 DEF RingInv, RingTypeOK, ringVars, producerVars, consumerVars
<1> QED
  BY <1>1, <1>2

\* All variables of the ring and its two sides stay in their ranges.
THEOREM RingIsTypeCorrect == RingSpec => []RingTypeOK
<1>1. RingInv => RingTypeOK
  BY DEF RingInv
<1> QED
  BY InitRing, NextRing, <1>1, PTL DEF RingSpec

\* The producer and the consumer never touch the same cell, whatever the size
\* of the ring and of the blocks: write may fill cells without a lock.
THEOREM RingCellsHaveOneOwner == RingSpec => []CellsHaveOneOwner
BY InitRing, NextRing, RoomMeansOwnership, PTL DEF RingSpec

-----------------------------------------------------------------------------
(* The ring implements AudioFrameQueue.  The cells of the queued frames keep *)
(* their contents whatever a write in progress fills, and a call in progress *)
(* has done what the contract does in one step when it publishes its index.  *)

\* The cells a write in progress has filled so far.
WrittenInv ==
  /\ producer.pc # "idle" => producer.frames \in 1 .. MaxBlock
                             /\ producer.generation \in Generations
  /\ producer.pc \in {"generations", "publish"} =>
       \A i \in 1 .. producer.accepted : samples[CellOf(writeFrame + i - 1)] = offered + i
  /\ producer.pc = "publish" =>
       \A i \in 1 .. producer.accepted :
         generations[CellOf(writeFrame + i - 1)] = producer.generation

\* The frames of its block that a read in progress takes from the ring.
IsCopied(i) == i > consumer.prefix /\ i <= consumer.prefix + consumer.copied
SourceOf(i) == CellOf(readFrame + i - consumer.prefix - 1)

\* The block a read in progress has assembled so far.
CopiedInv ==
  /\ consumer.pc \in {"copy", "check", "publish"} =>
       consumer.frames \in 1 .. MaxBlock /\ consumer.generation \in Generations
  /\ consumer.pc = "check" =>
       delivered = [i \in 1 .. consumer.frames |->
                      IF IsCopied(i) THEN samples[SourceOf(i)] ELSE Silence]
  /\ consumer.pc = "publish" =>
       delivered = [i \in 1 .. consumer.frames |->
                      IF IsCopied(i) /\ generations[SourceOf(i)] = consumer.generation
                      THEN samples[SourceOf(i)] ELSE Silence]

QueueInv == RingInv /\ WrittenInv /\ CopiedInv

-----------------------------------------------------------------------------
(* What filling the cells does. *)

\* A number that differs from a cell by a multiple of the capacity is kept there.
LEMMA CellOfMultiple ==
  ASSUME NEW k \in Int, NEW c \in Cells
  PROVE  CellOf(Capacity * k + c) = c
<1> DEFINE x == Capacity * k + c
           q == x \div Capacity
           r == x % Capacity
<1>1. Capacity \in Nat \ {0} /\ c \in 0 .. Capacity - 1
  BY RingAssumption DEF RingAssumption, Cells
<1>2. x \in Int
  BY <1>1
<1>3. q \in Int /\ r \in 0 .. Capacity - 1 /\ x = Capacity * q + r
  <2> HIDE DEF x
  <2> QED
    BY <1>1, <1>2
<1>4. k - q \in Int /\ Capacity * (k - q) = r - c
  BY <1>1, <1>3
<1>5. r - c < Capacity /\ r - c > -Capacity
  BY <1>1, <1>3
<1>6. \A n \in Int : n < 1 \/ Capacity * n >= Capacity
  BY <1>1
<1>6a. \A n \in Int : n > -1 \/ Capacity * n <= -Capacity
  BY <1>1
<1>7. k - q = 0
  <2> HIDE DEF q, r
  <2>1. k - q < 1 /\ k - q > -1
    BY <1>1, <1>3, <1>4, <1>5, <1>6, <1>6a
  <2> QED
    BY <1>4, <2>1
<1>8. r = c
  <2> HIDE DEF q, r
  <2>1. Capacity * (k - q) = 0
    BY <1>1, <1>7
  <2> QED
    BY <1>1, <1>3, <1>4, <2>1
<1> QED
  BY <1>8 DEF CellOf

\* A number and its cell differ by a multiple of the capacity.
LEMMA CellIsNear ==
  ASSUME NEW n \in Int
  PROVE  CellOf(n) \in Cells /\ \E k \in Int : n = Capacity * k + CellOf(n)
<1>1. Capacity \in Nat \ {0}
  BY RingAssumption DEF RingAssumption
<1>2. /\ n \div Capacity \in Int
      /\ n = Capacity * (n \div Capacity) + (n % Capacity)
      /\ n % Capacity \in 0 .. Capacity - 1
  BY <1>1
<1> QED
  BY <1>2 DEF CellOf, Cells

\* The cell of a frame at some distance after writeFrame is at that distance.
LEMMA DistanceOfCell ==
  ASSUME NEW w \in Nat, NEW i \in Cells
  PROVE  CellOf(CellOf(w + i) - w) = i
<1>1. Capacity \in Nat \ {0} /\ i \in Nat
  BY RingAssumption DEF RingAssumption, Cells
<1>2. w + i \in Int
  BY <1>1
<1>3. PICK k \in Int : w + i = Capacity * k + CellOf(w + i)
  BY <1>2, CellIsNear, Zenon
<1>4. CellOf(w + i) \in Nat
  <2>1. CellOf(w + i) \in Cells
    BY <1>2, CellIsNear, Zenon
  <2> QED
    BY <1>1, <2>1 DEF Cells
<1>5. CellOf(w + i) - w = Capacity * (-k) + i /\ -k \in Int
  BY <1>1, <1>3, <1>4
<1> QED
  BY <1>5, CellOfMultiple

\* And a cell is that of the frame at its distance after writeFrame.
LEMMA CellAtDistance ==
  ASSUME NEW w \in Nat, NEW c \in Cells
  PROVE  CellOf(w + CellOf(c - w)) = c
<1>1. Capacity \in Nat \ {0} /\ c \in Nat
  BY RingAssumption DEF RingAssumption, Cells
<1>2. c - w \in Int
  BY <1>1
<1>3. PICK k \in Int : c - w = Capacity * k + CellOf(c - w)
  BY <1>2, CellIsNear, Zenon
<1>4. CellOf(c - w) \in Nat
  <2>1. CellOf(c - w) \in Cells
    BY <1>2, CellIsNear, Zenon
  <2> QED
    BY <1>1, <2>1 DEF Cells
<1>5. w + CellOf(c - w) = Capacity * (-k) + c /\ -k \in Int
  BY <1>1, <1>3, <1>4
<1> QED
  BY <1>5, CellOfMultiple

\* A write puts the accepted head of its block behind the queued frames.
LEMMA FilledCells ==
  ASSUME RingInv, NEW cells, NEW block, NEW i \in 1 .. producer.accepted
  PROVE  Filled(cells, block)[CellOf(writeFrame + i - 1)] = block[i]
<1>1. /\ writeFrame \in Nat /\ readFrame \in Nat /\ readFrame <= writeFrame
      /\ producer.accepted \in Nat /\ Capacity \in Nat
      /\ writeFrame - readFrame + producer.accepted <= Capacity
  BY RingAssumption DEF RingInv, RingTypeOK, Producers, RingAssumption
<1>2. i - 1 \in Cells /\ i - 1 < producer.accepted /\ writeFrame + i - 1 = writeFrame + (i - 1)
  BY <1>1 DEF Cells
<1>3. CellOf(CellOf(writeFrame + i - 1) - writeFrame) = i - 1
  BY <1>1, <1>2, DistanceOfCell
<1>4. CellOf(writeFrame + i - 1) \in Cells
  BY <1>1, <1>2, CellsExist
<1> QED
  BY <1>1, <1>2, <1>3, <1>4 DEF Filled

\* It leaves the cells of the queued frames alone.
LEMMA KeptCells ==
  ASSUME RingInv, NEW cells, NEW block, NEW frame \in readFrame .. writeFrame - 1
  PROVE  Filled(cells, block)[CellOf(frame)] = cells[CellOf(frame)]
<1>1. /\ writeFrame \in Nat /\ readFrame \in Nat /\ producer.accepted \in Nat
  BY DEF RingInv, RingTypeOK, Producers
<1>2. frame \in Nat /\ CellOf(frame) \in Cells
  BY <1>1, CellsExist
<1> DEFINE at == CellOf(CellOf(frame) - writeFrame)
<1>3. at \in Nat
  <2>1. Capacity \in Nat
    BY RingAssumption DEF RingAssumption
  <2>2. CellOf(frame) - writeFrame \in Int
    BY <1>1, <1>2, <2>1 DEF Cells
  <2>3. at \in Cells
    BY <2>2, CellIsNear, Zenon
  <2> QED
    BY <2>1, <2>3 DEF Cells
<1>4. CellOf(writeFrame + at) = CellOf(frame)
  BY <1>1, <1>2, CellAtDistance
<1>5. ~(at < producer.accepted)
  <2>1. ASSUME at < producer.accepted
        PROVE  FALSE
    <3>1. at \in 0 .. producer.accepted - 1
      BY <1>1, <1>3, <2>1
    <3> QED
      BY <1>4, <3>1, RoomMeansOwnership DEF CellsHaveOneOwner
  <2> QED
    BY <2>1
<1> QED
  BY <1>2, <1>5 DEF Filled

-----------------------------------------------------------------------------
(* The strengthened invariant. *)

LEMMA InitQueueInv == RingInit => QueueInv
BY InitRing DEF RingInit, QueueInv, WrittenInv, CopiedInv, IdleProducer, IdleConsumer

\* What a block assembled by a read was copied from is still queued.
LEMMA SourcesAreQueued ==
  ASSUME RingInv, NEW i \in 1 .. consumer.frames, IsCopied(i)
  PROVE  readFrame + i - consumer.prefix - 1 \in readFrame .. writeFrame - 1
<1>1. /\ readFrame \in Nat /\ writeFrame \in Nat /\ consumer.prefix \in Nat
      /\ consumer.copied \in Nat /\ consumer.frames \in Nat
      /\ readFrame + consumer.copied <= writeFrame
  BY DEF RingInv, RingTypeOK, Consumers
<1> QED
  BY <1>1 DEF IsCopied

\* The producer writes the cells of its own frames only.
LEMMA ProducerKeepsContents ==
  ASSUME QueueInv,
         \/ \E frames \in 1 .. MaxBlock, g \in Generations : BeginWrite(frames, g)
         \/ CopyIntoRing \/ MarkGenerations \/ PublishWrite
  PROVE  WrittenInv' /\ CopiedInv'
<1>0. /\ RingInv /\ WrittenInv /\ CopiedInv
      /\ writeFrame \in Nat /\ producer.accepted \in Nat /\ producer.frames \in Nat
      /\ producer.accepted <= producer.frames
      /\ producer \in Producers /\ consumer.frames \in Nat
  BY DEF QueueInv, RingInv, RingTypeOK, Producers, Consumers
<1>1. ASSUME NEW frames \in 1 .. MaxBlock, NEW g \in Generations, BeginWrite(frames, g)
      PROVE  WrittenInv' /\ CopiedInv'
  BY <1>0, <1>1 DEF BeginWrite, WrittenInv, CopiedInv, IsCopied, SourceOf, consumerVars
<1>2. CASE CopyIntoRing
  <2>1. /\ producer' = [producer EXCEPT !.pc = "generations"]
        /\ producer.pc = "samples"
        /\ UNCHANGED <<writeFrame, generations, offered, readFrame, consumer, delivered>>
    BY <1>2 DEF CopyIntoRing, consumerVars
  <2>2. /\ producer'.pc = "generations" /\ producer'.accepted = producer.accepted
        /\ producer'.frames = producer.frames /\ producer'.generation = producer.generation
    BY <1>0, <2>1 DEF Producers
  <2> DEFINE block == [i \in 1 .. producer.frames |-> offered + i]
  <2>3. samples' = Filled(samples, block)
    BY <1>2 DEF CopyIntoRing
  <2>4. \A i \in 1 .. producer.accepted : samples'[CellOf(writeFrame + i - 1)] = offered + i
    <3> TAKE i \in 1 .. producer.accepted
    <3>1. samples'[CellOf(writeFrame + i - 1)] = block[i]
      BY <1>0, <2>3, FilledCells
    <3> QED
      BY <1>0, <3>1
  <2>5. WrittenInv'
    BY <1>0, <2>1, <2>2, <2>4 DEF WrittenInv
  <2>6. \A i \in 1 .. consumer.frames : IsCopied(i) => samples'[SourceOf(i)] = samples[SourceOf(i)]
    BY <1>0, <2>3, SourcesAreQueued, KeptCells DEF SourceOf
  <2>7. CopiedInv'
    <3>1. \A i : IsCopied(i)' = IsCopied(i) /\ SourceOf(i)' = SourceOf(i)
      BY <2>1 DEF IsCopied, SourceOf
    <3> QED
      BY <1>0, <2>1, <2>6, <3>1 DEF CopiedInv
  <2> QED
    BY <2>5, <2>7
<1>3. CASE MarkGenerations
  <2>1. /\ producer' = [producer EXCEPT !.pc = "publish"]
        /\ producer.pc = "generations"
        /\ UNCHANGED <<writeFrame, samples, offered, readFrame, consumer, delivered>>
    BY <1>3 DEF MarkGenerations, consumerVars
  <2>2. /\ producer'.pc = "publish" /\ producer'.accepted = producer.accepted
        /\ producer'.frames = producer.frames /\ producer'.generation = producer.generation
    BY <1>0, <2>1 DEF Producers
  <2> DEFINE block == [i \in 1 .. producer.frames |-> producer.generation]
  <2>3. generations' = Filled(generations, block)
    BY <1>3 DEF MarkGenerations
  <2>4. \A i \in 1 .. producer.accepted :
          generations'[CellOf(writeFrame + i - 1)] = producer.generation
    <3> TAKE i \in 1 .. producer.accepted
    <3>1. generations'[CellOf(writeFrame + i - 1)] = block[i]
      BY <1>0, <2>3, FilledCells
    <3> QED
      BY <1>0, <3>1
  <2>5. WrittenInv'
    BY <1>0, <2>1, <2>2, <2>4 DEF WrittenInv
  <2>6. \A i \in 1 .. consumer.frames :
          IsCopied(i) => generations'[SourceOf(i)] = generations[SourceOf(i)]
    BY <1>0, <2>3, SourcesAreQueued, KeptCells DEF SourceOf
  <2>7. CopiedInv'
    <3>1. \A i : IsCopied(i)' = IsCopied(i) /\ SourceOf(i)' = SourceOf(i)
      BY <2>1 DEF IsCopied, SourceOf
    <3> QED
      BY <1>0, <2>1, <2>6, <3>1 DEF CopiedInv
  <2> QED
    BY <2>5, <2>7
<1>4. CASE PublishWrite
  BY <1>0, <1>4 DEF PublishWrite, IdleProducer, WrittenInv, CopiedInv, IsCopied, SourceOf,
                    consumerVars
<1> QED
  BY <1>1, <1>2, <1>3, <1>4

\* The consumer assembles its block in two passes and writes no cell.
LEMMA ConsumerKeepsContents ==
  ASSUME QueueInv,
         \/ \E frames \in 1 .. MaxBlock, g \in Generations : \E prefix \in 0 .. frames :
              BeginRead(frames, prefix, g)
         \/ CopyFromRing \/ SilenceForeignFrames \/ PublishRead \/ BeginDiscard \/ Discard
  PROVE  WrittenInv' /\ CopiedInv'
<1>0. /\ RingInv /\ WrittenInv /\ CopiedInv
      /\ consumer \in Consumers /\ consumer.frames \in Nat
  BY DEF QueueInv, RingInv, RingTypeOK, Consumers
<1>1. WrittenInv'
  BY <1>0 DEF BeginRead, CopyFromRing, SilenceForeignFrames, PublishRead, BeginDiscard, Discard,
              WrittenInv, producerVars
<1>2. ASSUME NEW frames \in 1 .. MaxBlock, NEW g \in Generations, NEW prefix \in 0 .. frames,
             BeginRead(frames, prefix, g)
      PROVE  CopiedInv'
  BY <1>2 DEF BeginRead, CopiedInv
<1>3. CASE CopyFromRing
  <2>1. /\ consumer'.pc = "check" /\ consumer'.frames = consumer.frames
        /\ consumer'.prefix = consumer.prefix /\ consumer'.copied = consumer.copied
        /\ consumer'.generation = consumer.generation
    BY <1>0, <1>3 DEF CopyFromRing, Consumers
  <2>2. delivered' = [i \in 1 .. consumer.frames |->
                        IF IsCopied(i) THEN samples[SourceOf(i)] ELSE Silence]
    BY <1>3 DEF CopyFromRing, IsCopied, SourceOf
  <2>3. \A i : IsCopied(i)' = IsCopied(i) /\ SourceOf(i)' = SourceOf(i)
    BY <1>3, <2>1 DEF CopyFromRing, IsCopied, SourceOf
  <2>4. samples' = samples /\ consumer.pc = "copy"
    BY <1>3 DEF CopyFromRing, producerVars
  <2> QED
    BY <1>0, <1>1, <2>1, <2>2, <2>3, <2>4 DEF CopiedInv
<1>4. CASE SilenceForeignFrames
  <2>1. /\ consumer'.pc = "publish" /\ consumer'.frames = consumer.frames
        /\ consumer'.prefix = consumer.prefix /\ consumer'.copied = consumer.copied
        /\ consumer'.generation = consumer.generation
    BY <1>0, <1>4 DEF SilenceForeignFrames, Consumers
  <2>2. delivered = [i \in 1 .. consumer.frames |->
                       IF IsCopied(i) THEN samples[SourceOf(i)] ELSE Silence]
    BY <1>0, <1>4 DEF SilenceForeignFrames, CopiedInv
  <2>3. delivered' = [i \in 1 .. consumer.frames |->
                        IF IsCopied(i) /\ generations[SourceOf(i)] # consumer.generation
                        THEN Silence ELSE delivered[i]]
    BY <1>4 DEF SilenceForeignFrames, IsForeign, IsCopied, SourceOf
  <2>4. delivered' = [i \in 1 .. consumer.frames |->
                        IF IsCopied(i) /\ generations[SourceOf(i)] = consumer.generation
                        THEN samples[SourceOf(i)] ELSE Silence]
    BY <2>2, <2>3
  <2>5. \A i : IsCopied(i)' = IsCopied(i) /\ SourceOf(i)' = SourceOf(i)
    BY <1>4, <2>1 DEF SilenceForeignFrames, IsCopied, SourceOf
  <2>6. samples' = samples /\ generations' = generations /\ consumer.pc = "check"
    BY <1>4 DEF SilenceForeignFrames, producerVars
  <2> QED
    BY <1>0, <1>1, <2>1, <2>4, <2>5, <2>6 DEF CopiedInv
<1>5. CASE PublishRead \/ BeginDiscard \/ Discard
  <2>1. ASSUME BeginDiscard
        PROVE  consumer'.pc = "discard"
    <3>1. consumer' = [pc |-> "discard", frames |-> 0, prefix |-> 0,
                       copied |-> QueuedFrames, generation |-> NoGeneration]
      BY <2>1 DEF BeginDiscard, IdleConsumer
    <3> QED
      BY <3>1
  <2>2. consumer'.pc \in {"idle", "discard"}
    BY <1>5, <2>1 DEF PublishRead, Discard, IdleConsumer
  <2> QED
    BY <1>1, <2>2 DEF CopiedInv
<1> QED
  BY <1>1, <1>2, <1>3, <1>4, <1>5

LEMMA NextQueueInv == QueueInv /\ [RingNext]_ringVars => QueueInv'
<1> SUFFICES ASSUME QueueInv, [RingNext]_ringVars
             PROVE  QueueInv'
  OBVIOUS
<1>1. RingInv'
  BY NextRing DEF QueueInv
<1>2. CASE RingNext
  BY <1>1, <1>2, ProducerKeepsContents, ConsumerKeepsContents DEF RingNext, QueueInv
<1>3. CASE UNCHANGED ringVars
  BY <1>1, <1>3 DEF QueueInv, WrittenInv, CopiedInv, IsCopied, SourceOf, ringVars, producerVars,
                    consumerVars
<1> QED
  BY <1>2, <1>3

-----------------------------------------------------------------------------
(* The steps of the ring, seen as steps of the queue. *)

QueuedFrame(frame) ==
  [frame |-> samples[CellOf(frame)], generation |-> generations[CellOf(frame)]]

Frames == [frame : Nat, generation : Generations \cup {NoGeneration}]

\* The frames between the two indices, oldest first.
QueueShape ==
  /\ Queue \in Seq(Frames)
  /\ Len(Queue) = writeFrame - readFrame
  /\ \A i \in 1 .. writeFrame - readFrame : Queue[i] = QueuedFrame(readFrame + i - 1)

LEMMA QueueIsSequence == RingInv => QueueShape
<1> SUFFICES ASSUME RingInv
             PROVE  QueueShape
  OBVIOUS
<1>1. /\ writeFrame \in Nat /\ readFrame \in Nat /\ writeFrame - readFrame \in Nat
      /\ samples \in [Cells -> Nat]
      /\ generations \in [Cells -> Generations \cup {NoGeneration}]
  BY DEF RingInv, RingTypeOK
<1>2. \A i \in 1 .. writeFrame - readFrame : QueuedFrame(readFrame + i - 1) \in Frames
  <2> TAKE i \in 1 .. writeFrame - readFrame
  <2>1. readFrame + i - 1 \in Nat
    BY <1>1
  <2>2. CellOf(readFrame + i - 1) \in Cells
    BY <2>1, CellsExist
  <2> QED
    BY <1>1, <2>2 DEF QueuedFrame, Frames
<1>3. Queue = [i \in 1 .. writeFrame - readFrame |-> QueuedFrame(readFrame + i - 1)]
  BY DEF Queue, QueuedFrame
<1>4. Queue \in [1 .. writeFrame - readFrame -> Frames]
  BY <1>2, <1>3
<1>5. Queue \in Seq(Frames) /\ Len(Queue) = writeFrame - readFrame
  BY <1>1, <1>4, BlockType
<1> QED
  BY <1>3, <1>5 DEF QueueShape

LEMMA QueueStaysSequence == RingInv' => QueueShape'
BY QueueIsSequence, PTL

\* A step that keeps the indices and the queued cells keeps the queue.
LEMMA QueueUnchanged ==
  ASSUME UNCHANGED <<readFrame, writeFrame>>, readFrame \in Nat, writeFrame \in Nat,
         \A frame \in readFrame .. writeFrame - 1 :
           /\ samples'[CellOf(frame)] = samples[CellOf(frame)]
           /\ generations'[CellOf(frame)] = generations[CellOf(frame)]
  PROVE  Queue' = Queue
<1>1. \A i \in 1 .. writeFrame - readFrame : readFrame + i - 1 \in readFrame .. writeFrame - 1
  OBVIOUS
<1> QED
  BY <1>1 DEF Queue

LEMMA ContractInit == RingInit => Contract!QueueInit
<1> SUFFICES ASSUME RingInit
             PROVE  Contract!QueueInit
  OBVIOUS
<1>1. RingInv
  BY InitRing
<1>2. Queue = <<>>
  <2>1. Len(Queue) = 0 /\ Queue \in Seq(Frames)
    BY <1>1, QueueIsSequence DEF RingInit, QueueShape
  <2> QED
    BY <2>1, EmptySeq
<1> QED
  BY <1>2 DEF RingInit, IdleProducer, IdleConsumer, Contract!QueueInit

LEMMA BeginWriteIsBeginPut ==
  ASSUME QueueInv, NEW frames \in 1 .. MaxBlock, NEW g \in Generations, BeginWrite(frames, g)
  PROVE  Contract!BeginPut(frames)
<1>1. /\ Capacity \in Nat /\ writeFrame \in Nat /\ readFrame \in Nat /\ readFrame <= writeFrame
      /\ producer.accepted \in Nat /\ writeFrame - readFrame <= Capacity
      /\ Len(Queue) = writeFrame - readFrame
  BY QueueIsSequence, RingAssumption
     DEF QueueShape, QueueInv, RingInv, RingTypeOK, Producers, RingAssumption
<1>2. AvailableFrames = Capacity - Len(Queue)
  BY <1>1 DEF AvailableFrames, QueuedFrames, Least
<1>3. Queue' = Queue
  BY <1>1, QueueUnchanged DEF BeginWrite, consumerVars
<1>4. producer'.pc = "samples" /\ producer'.accepted = Least(frames, AvailableFrames)
  BY DEF BeginWrite
<1> QED
  BY <1>2, <1>3, <1>4 DEF BeginWrite, consumerVars, Least, Contract!BeginPut, Contract!Least

LEMMA PublishWriteIsPut ==
  ASSUME QueueInv, PublishWrite
  PROVE  Contract!Put(producer.frames, producer.generation)
<1>1. /\ RingInv /\ WrittenInv
      /\ writeFrame \in Nat /\ readFrame \in Nat /\ readFrame <= writeFrame
      /\ producer.accepted \in Nat /\ producer.accepted <= producer.frames
      /\ offered \in Nat /\ producer.generation \in Generations
  BY DEF QueueInv, WrittenInv, PublishWrite, RingInv, RingTypeOK, Producers
<1>2. /\ writeFrame' = writeFrame + producer.accepted
      /\ offered' = offered + producer.frames
      /\ producer' = IdleProducer /\ producer.pc = "publish"
      /\ UNCHANGED <<samples, generations, readFrame, consumer, delivered>>
  BY DEF PublishWrite, consumerVars
<1> DEFINE block == [i \in 1 .. producer.accepted |->
                       [frame |-> offered + i, generation |-> producer.generation]]
<1>3. Queue' = Queue \o block
  <2>1. RingInv'
    BY NextRing DEF RingNext, QueueInv
  <2>2. /\ Queue \in Seq(Frames) /\ Len(Queue) = writeFrame - readFrame
        /\ \A i \in 1 .. writeFrame - readFrame : Queue[i] = QueuedFrame(readFrame + i - 1)
    BY <1>1, QueueIsSequence DEF QueueShape
  <2>3. /\ Queue' \in Seq(Frames) /\ Len(Queue') = writeFrame + producer.accepted - readFrame
        /\ \A i \in 1 .. writeFrame + producer.accepted - readFrame :
             Queue'[i] = QueuedFrame(readFrame + i - 1)
    <3>1. QueueShape'
      BY <2>1, QueueStaysSequence
    <3>2. Queue' \in Seq(Frames)
      BY <3>1 DEF QueueShape, Frames
    <3>3. Len(Queue') = writeFrame + producer.accepted - readFrame
      BY <1>1, <1>2, <3>1 DEF QueueShape
    <3>4. \A i \in 1 .. writeFrame + producer.accepted - readFrame :
            Queue'[i] = QueuedFrame(readFrame + i - 1)
      <4>1. \A i \in 1 .. writeFrame' - readFrame' :
              Queue'[i] = [frame |-> samples'[CellOf(readFrame' + i - 1)],
                           generation |-> generations'[CellOf(readFrame' + i - 1)]]
        BY <3>1 DEF QueueShape, QueuedFrame
      <4>2. \A i \in 1 .. writeFrame + producer.accepted - readFrame :
              Queue'[i] = [frame |-> samples[CellOf(readFrame + i - 1)],
                           generation |-> generations[CellOf(readFrame + i - 1)]]
        <5>1. /\ readFrame' = readFrame /\ samples' = samples
              /\ generations' = generations
          BY <1>2
        <5>2. writeFrame' - readFrame' = writeFrame + producer.accepted - readFrame
          BY <1>1, <1>2
        <5> QED
          BY <4>1, <5>1, <5>2, Zenon
      <4> QED
        BY <4>2 DEF QueuedFrame
    <3> QED
      BY <3>2, <3>3, <3>4
  <2>4. block \in Seq(Frames) /\ Len(block) = producer.accepted
    <3>1. block \in [1 .. producer.accepted -> Frames]
      BY <1>1 DEF Frames
    <3> QED
      BY <1>1, <3>1, BlockType
  <2>5. \A i \in 1 .. producer.accepted : block[i] = QueuedFrame(writeFrame + i - 1)
    BY <1>1, <1>2 DEF WrittenInv, QueuedFrame
  <2>6. /\ Queue \o block \in Seq(Frames)
        /\ Len(Queue \o block) = Len(Queue) + Len(block)
        /\ \A i \in 1 .. Len(Queue) + Len(block) :
             (Queue \o block)[i] = IF i <= Len(Queue) THEN Queue[i] ELSE block[i - Len(Queue)]
    BY <2>2, <2>4, ConcatProperties
  <2>7. \A i \in 1 .. Len(Queue') : Queue'[i] = (Queue \o block)[i]
    <3> HIDE DEF block
    <3> TAKE i \in 1 .. Len(Queue')
    <3>1. i \in 1 .. Len(Queue) + Len(block) /\ i \in Nat
      BY <1>1, <2>2, <2>3, <2>4
    <3>2. CASE i <= Len(Queue)
      BY <1>1, <2>2, <2>3, <2>6, <3>1, <3>2
    <3>3. CASE ~(i <= Len(Queue))
      <4>1. i - Len(Queue) \in 1 .. producer.accepted
        BY <1>1, <2>2, <2>4, <3>1, <3>3
      <4>2. writeFrame + (i - Len(Queue)) - 1 = readFrame + i - 1
        BY <1>1, <2>2, <3>1
      <4>3. block[i - Len(Queue)] = QueuedFrame(readFrame + i - 1)
        BY <2>5, <4>1, <4>2
      <4> QED
        BY <2>3, <2>6, <3>1, <3>3, <4>3
    <3> QED
      BY <3>2, <3>3
  <2> HIDE DEF block
  <2>8. Len(Queue') = Len(Queue \o block)
    BY <1>1, <2>2, <2>3, <2>4, <2>6
  <2> QED
    BY <2>3, <2>6, <2>7, <2>8, SeqEqual, Zenon
<1> QED
  BY <1>1, <1>2, <1>3 DEF Contract!Put, IdleProducer

\* Until it publishes writeFrame, a write has only filled free cells.
LEMMA FillingIsInvisible ==
  ASSUME QueueInv, CopyIntoRing \/ MarkGenerations
  PROVE  UNCHANGED Contract!queueVars
<1>1. /\ RingInv /\ writeFrame \in Nat /\ readFrame \in Nat /\ producer \in Producers
  BY DEF QueueInv, RingInv, RingTypeOK
<1>2. /\ producer'.pc # "idle" /\ producer.pc # "idle"
      /\ producer'.accepted = producer.accepted
      /\ UNCHANGED <<readFrame, writeFrame, offered, consumer, delivered>>
  BY <1>1 DEF CopyIntoRing, MarkGenerations, Producers, consumerVars
<1>3. Queue' = Queue
  <2>1. \A frame \in readFrame .. writeFrame - 1 :
          /\ samples'[CellOf(frame)] = samples[CellOf(frame)]
          /\ generations'[CellOf(frame)] = generations[CellOf(frame)]
    BY <1>1, KeptCells DEF CopyIntoRing, MarkGenerations
  <2> QED
    BY <1>1, <1>2, <2>1, QueueUnchanged
<1> QED
  BY <1>2, <1>3 DEF Contract!queueVars

\* Until it publishes readFrame, a read has only filled its caller's buffer.
LEMMA ReadingIsInvisible ==
  ASSUME QueueInv, CopyFromRing \/ SilenceForeignFrames
  PROVE  UNCHANGED Contract!queueVars
<1>1. writeFrame \in Nat /\ readFrame \in Nat /\ consumer \in Consumers
  BY DEF QueueInv, RingInv, RingTypeOK
<1>2. /\ consumer.pc \in {"copy", "check"} /\ consumer'.pc \in {"check", "publish"}
      /\ consumer'.copied = consumer.copied
      /\ UNCHANGED <<readFrame, producerVars>>
  BY <1>1 DEF CopyFromRing, SilenceForeignFrames, Consumers
<1>3. Queue' = Queue
  BY <1>1, <1>2, QueueUnchanged DEF producerVars
<1> QED
  BY <1>2, <1>3 DEF Contract!queueVars, producerVars

LEMMA BeginReadIsBeginTake ==
  ASSUME QueueInv, NEW frames \in 1 .. MaxBlock, NEW g \in Generations, NEW prefix \in 0 .. frames,
         BeginRead(frames, prefix, g)
  PROVE  frames - prefix \in 0 .. MaxBlock /\ Contract!BeginTake(frames - prefix)
<1>1. /\ MaxBlock \in Nat /\ Capacity \in Nat /\ writeFrame \in Nat /\ readFrame \in Nat
      /\ readFrame <= writeFrame /\ writeFrame - readFrame <= Capacity
      /\ Len(Queue) = writeFrame - readFrame
  BY QueueIsSequence, RingAssumption
     DEF QueueShape, QueueInv, RingInv, RingTypeOK, Producers, RingAssumption
<1>2. CopiedFrames(frames - prefix) = Least(frames - prefix, Len(Queue))
  BY <1>1 DEF CopiedFrames, QueuedFrames, Least
<1>3. Queue' = Queue
  BY <1>1, QueueUnchanged DEF BeginRead, producerVars
<1>4. /\ consumer'.pc = "copy" /\ consumer'.copied = CopiedFrames(frames - prefix)
      /\ consumer.pc = "idle"
  BY DEF BeginRead
<1>5. frames - prefix \in 0 .. MaxBlock
  BY <1>1
<1> QED
  BY <1>2, <1>3, <1>4, <1>5 DEF BeginRead, producerVars, Least, Contract!BeginTake, Contract!Least

\* Publishing readFrame drops the frames at the head of the queue.
LEMMA HeadIsDropped ==
  ASSUME QueueInv, PublishRead \/ Discard
  PROVE  Queue' = SubSeq(Queue, consumer.copied + 1, Len(Queue))
<1>1. /\ RingInv /\ writeFrame \in Nat /\ readFrame \in Nat /\ readFrame <= writeFrame
      /\ consumer.copied \in Nat /\ readFrame + consumer.copied <= writeFrame
  BY DEF QueueInv, RingInv, RingTypeOK, Consumers
<1>2. /\ readFrame' = readFrame + consumer.copied
      /\ UNCHANGED <<writeFrame, samples, generations>>
  BY DEF PublishRead, Discard, DiscardTarget, producerVars
<1>3. RingInv'
  BY NextRing DEF RingNext, QueueInv
<1> DEFINE n == writeFrame - readFrame
           m == consumer.copied
           rest == SubSeq(Queue, m + 1, n)
<1>4. /\ Queue \in Seq(Frames) /\ Len(Queue) = n /\ n \in Nat /\ m \in Nat /\ m <= n
      /\ \A i \in 1 .. n : Queue[i] = QueuedFrame(readFrame + i - 1)
  BY <1>1, QueueIsSequence DEF QueueShape
<1>5. /\ Queue' \in Seq(Frames) /\ Len(Queue') = n - m
      /\ \A i \in 1 .. n - m : Queue'[i] = QueuedFrame(readFrame + m + i - 1)
  <2>1. QueueShape'
    BY <1>3, QueueStaysSequence
  <2>2. Queue' \in Seq(Frames)
    BY <2>1 DEF QueueShape, Frames
  <2>3. Len(Queue') = n - m
    BY <1>1, <1>2, <2>1 DEF QueueShape
  <2>4. \A i \in 1 .. n - m : Queue'[i] = QueuedFrame(readFrame + m + i - 1)
    BY <1>1, <1>2, <2>1 DEF QueueShape, QueuedFrame, CellOf
  <2> QED
    BY <2>2, <2>3, <2>4
<1> HIDE DEF n, m
<1>6. /\ rest \in Seq(Frames) /\ Len(rest) = n - m
      /\ \A i \in 1 .. n - m : rest[i] = Queue[m + i]
  <2>1. \A i \in m + 1 .. n : Queue[i] \in Frames
    BY <1>4, ElementOfSeq
  <2>2. /\ rest \in Seq(Frames)
        /\ Len(rest) = IF m + 1 <= n THEN n - (m + 1) + 1 ELSE 0
        /\ \A i \in 1 .. n - (m + 1) + 1 : rest[i] = Queue[m + 1 + i - 1]
    <3>1. m + 1 \in Int /\ n \in Int
      BY <1>4
    <3> HIDE DEF rest
    <3> QED
      BY <2>1, <3>1, SubSeqProperties DEF rest
  <2> HIDE DEF rest
  <2>3. Len(rest) = n - m
    BY <1>4, <2>2
  <2>4. \A i \in 1 .. n - m : rest[i] = Queue[m + i]
    <3> TAKE i \in 1 .. n - m
    <3>1. i \in 1 .. n - (m + 1) + 1 /\ m + 1 + i - 1 = m + i
      BY <1>4
    <3> QED
      BY <2>2, <3>1
  <2> QED
    BY <2>2, <2>3, <2>4
<1>7. \A i \in 1 .. Len(Queue') : Queue'[i] = rest[i]
  <2> HIDE DEF rest
  <2> TAKE i \in 1 .. Len(Queue')
  <2>1. i \in 1 .. n - m /\ m + i \in 1 .. n
    BY <1>4, <1>5
  <2>2. Queue[m + i] = QueuedFrame(readFrame + m + i - 1)
    <3>1. readFrame + (m + i) - 1 = readFrame + m + i - 1
      BY <1>1, <1>4, <2>1
    <3> QED
      BY <1>4, <2>1, <3>1
  <2> QED
    BY <1>5, <1>6, <2>1, <2>2
<1>8. Queue' = rest
  <2> HIDE DEF rest
  <2> QED
    BY <1>5, <1>6, <1>7, SeqEqual, Zenon
<1> QED
  BY <1>4, <1>8 DEF m

LEMMA PublishReadIsTake ==
  ASSUME QueueInv, PublishRead
  PROVE  /\ consumer.frames \in 1 .. MaxBlock /\ consumer.generation \in Generations
         /\ consumer.prefix \in 0 .. consumer.frames
         /\ Contract!Take(consumer.frames, consumer.prefix, consumer.generation)
<1>1. /\ RingInv /\ CopiedInv /\ consumer.pc = "publish"
      /\ writeFrame \in Nat /\ readFrame \in Nat /\ readFrame <= writeFrame
      /\ consumer.copied \in Nat /\ consumer.prefix \in Nat /\ consumer.frames \in Nat
      /\ readFrame + consumer.copied <= writeFrame
      /\ consumer.prefix + consumer.copied <= consumer.frames
  BY DEF QueueInv, RingInv, RingTypeOK, Consumers, PublishRead
<1>2. /\ consumer.frames \in 1 .. MaxBlock /\ consumer.generation \in Generations
      /\ consumer.prefix \in 0 .. consumer.frames
  BY <1>1 DEF CopiedInv
<1>3. /\ consumer' = IdleConsumer
      /\ UNCHANGED <<writeFrame, samples, generations, producer, offered, delivered>>
  BY DEF PublishRead, producerVars
<1>4. \A i \in 1 .. consumer.frames : IsCopied(i) =>
        /\ Queue[i - consumer.prefix].generation = generations[SourceOf(i)]
        /\ Queue[i - consumer.prefix].frame = samples[SourceOf(i)]
  <2> SUFFICES ASSUME NEW i \in 1 .. consumer.frames, IsCopied(i)
               PROVE  /\ Queue[i - consumer.prefix].generation = generations[SourceOf(i)]
                      /\ Queue[i - consumer.prefix].frame = samples[SourceOf(i)]
    OBVIOUS
  <2>1. i - consumer.prefix \in 1 .. writeFrame - readFrame
    BY <1>1 DEF IsCopied
  <2>2. Queue[i - consumer.prefix] = QueuedFrame(readFrame + (i - consumer.prefix) - 1)
    BY <1>1, <2>1, QueueIsSequence DEF QueueShape
  <2>3. readFrame + (i - consumer.prefix) - 1 = readFrame + i - consumer.prefix - 1
    BY <1>1
  <2> QED
    BY <2>2, <2>3 DEF QueuedFrame, SourceOf
<1>5. delivered = [i \in 1 .. consumer.frames |->
        IF /\ i > consumer.prefix /\ i <= consumer.prefix + consumer.copied
           /\ Queue[i - consumer.prefix].generation = consumer.generation
        THEN Queue[i - consumer.prefix].frame
        ELSE Silence]
  <2>1. delivered = [i \in 1 .. consumer.frames |->
                       IF IsCopied(i) /\ generations[SourceOf(i)] = consumer.generation
                       THEN samples[SourceOf(i)] ELSE Silence]
    BY <1>1 DEF CopiedInv
  <2> QED
    BY <1>4, <2>1 DEF IsCopied
<1>6. Queue' = SubSeq(Queue, consumer.copied + 1, Len(Queue))
  BY HeadIsDropped
<1>7. /\ consumer'.pc = "idle" /\ consumer'.copied = 0
      /\ consumer.pc = "publish"
  BY <1>1, <1>3 DEF IdleConsumer
<1>8. Contract!Take(consumer.frames, consumer.prefix, consumer.generation)
  BY <1>1, <1>3, <1>5, <1>6, <1>7 DEF Contract!Take, Silence, Contract!Silence
<1> QED
  BY <1>2, <1>8

LEMMA BeginDiscardIsBeginDrop ==
  ASSUME QueueInv, BeginDiscard
  PROVE  Contract!BeginDrop
<1>1. /\ Capacity \in Nat /\ writeFrame \in Nat /\ readFrame \in Nat
      /\ readFrame <= writeFrame /\ writeFrame - readFrame <= Capacity
      /\ Len(Queue) = writeFrame - readFrame
  BY QueueIsSequence, RingAssumption
     DEF QueueShape, QueueInv, RingInv, RingTypeOK, Producers, RingAssumption
<1>2. QueuedFrames = Len(Queue)
  BY <1>1 DEF QueuedFrames, Least
<1>3. consumer' = [pc |-> "discard", frames |-> 0, prefix |-> 0,
                   copied |-> QueuedFrames, generation |-> NoGeneration]
  BY DEF BeginDiscard, IdleConsumer
<1>4. Queue' = Queue
  BY <1>1, QueueUnchanged DEF BeginDiscard, producerVars
<1>5. consumer.pc = "idle" /\ UNCHANGED <<producer, offered, delivered>>
  BY DEF BeginDiscard, producerVars
<1>6. consumer'.pc = "discard" /\ consumer'.copied = Len(Queue)
  BY <1>2, <1>3
<1> QED
  BY <1>4, <1>5, <1>6 DEF Contract!BeginDrop

LEMMA DiscardIsDrop ==
  ASSUME QueueInv, Discard
  PROVE  Contract!Drop
<1>1. Queue' = SubSeq(Queue, consumer.copied + 1, Len(Queue))
  BY HeadIsDropped
<1>2. /\ consumer.pc = "discard" /\ consumer'.pc = "idle" /\ consumer'.copied = 0
      /\ UNCHANGED <<producer, offered, delivered>>
  BY DEF Discard, IdleConsumer, producerVars
<1> QED
  BY <1>1, <1>2 DEF Contract!Drop

LEMMA QueueStep ==
  QueueInv /\ [RingNext]_ringVars => [Contract!QueueNext]_(Contract!queueVars)
<1> SUFFICES ASSUME QueueInv, [RingNext]_ringVars
             PROVE  [Contract!QueueNext]_(Contract!queueVars)
  OBVIOUS
<1>1. ASSUME NEW frames \in 1 .. MaxBlock, NEW g \in Generations, BeginWrite(frames, g)
      PROVE  Contract!QueueNext
  BY <1>1, BeginWriteIsBeginPut DEF Contract!QueueNext
<1>2. CASE PublishWrite
  <2>1. producer.frames \in 1 .. MaxBlock /\ producer.generation \in Generations
    BY <1>2 DEF PublishWrite, QueueInv, WrittenInv
  <2> QED
    BY <1>2, <2>1, PublishWriteIsPut DEF Contract!QueueNext
<1>3. ASSUME NEW frames \in 1 .. MaxBlock, NEW g \in Generations, NEW prefix \in 0 .. frames,
             BeginRead(frames, prefix, g)
      PROVE  Contract!QueueNext
  BY <1>3, BeginReadIsBeginTake DEF Contract!QueueNext
<1>4. CASE PublishRead
  BY <1>4, PublishReadIsTake DEF Contract!QueueNext
<1>5. CASE BeginDiscard
  BY <1>5, BeginDiscardIsBeginDrop DEF Contract!QueueNext
<1>6. CASE Discard
  BY <1>6, DiscardIsDrop DEF Contract!QueueNext
<1>7. CASE CopyIntoRing \/ MarkGenerations \/ CopyFromRing \/ SilenceForeignFrames
  BY <1>7, FillingIsInvisible, ReadingIsInvisible
<1>8. CASE UNCHANGED ringVars
  BY <1>8 DEF ringVars, producerVars, consumerVars, Queue, Contract!queueVars
<1> QED
  BY <1>1, <1>2, <1>3, <1>4, <1>5, <1>6, <1>7, <1>8 DEF RingNext

\* The two indices and the unlocked cells are a bounded queue: whatever the two
\* sides do at the same time, frames come out in order, none twice, none of
\* another pipeline, and a discard drops what was queued when it began.
THEOREM RingImplementsQueue == RingSpec => ImplementsQueue
<1>1. RingInit => Contract!QueueInit
  BY ContractInit
<1>2. QueueInv /\ [RingNext]_ringVars => [Contract!QueueNext]_(Contract!queueVars)
  BY QueueStep
<1> QED
  BY <1>1, <1>2, InitQueueInv, NextQueueInv, PTL
     DEF RingSpec, ImplementsQueue, Contract!QueueSpec
-----------------------------------------------------------------------------
(* The three side by side. *)

\* Each of them keeps its invariant while the others rest, so all variables of
\* the audio path keep their types.
THEOREM AudioIsTypeCorrect == AudioSpec => []AudioTypeOK
<1> DEFINE AllInv == SlotInv /\ IdleInv /\ RingInv
<1>1. AudioInit => AllInv
  BY InvariantInitially, IdleInit, IdleAssumption, InitRing DEF AudioInit
<1>2. AllInv /\ [AudioNext]_<<exercised, allVars, vars, ringVars>> => AllInv'
  <2> SUFFICES ASSUME AllInv, [AudioNext]_<<exercised, allVars, vars, ringVars>>
               PROVE  AllInv'
    OBVIOUS
  <2>1. [SlotNext]_allVars /\ [Next]_vars /\ [RingNext]_ringVars
    BY DEF AudioNext
  <2> QED
    BY <2>1, NextSlot, IdleNext, IdleAssumption, NextRing
<1>3. AllInv => AudioTypeOK
  BY DEF SlotInv, IdleInv, RingInv, AudioTypeOK
<1> QED
  BY <1>1, <1>2, <1>3, PTL DEF AudioSpec
=============================================================================
