--------------------------- MODULE DspPipelineSlot ---------------------------
(***************************************************************************)
(* The slot that holds the active DSP pipeline (dsp_pipeline_slot.cpp).    *)
(* One audio thread selects the pipeline for every block without a lock;   *)
(* the main loop and the control thread replace it under                   *)
(* pipelineMutationMutex.  A step is one atomic access of the code, with   *)
(* the unique_ptr moves around it, which only the mutex holder sees.       *)
(***************************************************************************)
EXTENDS Integers

CONSTANTS Pipelines,        \* addresses a DspPipeline object can occupy
          NoPipeline,       \* nullptr
          Mutators,         \* threads that lock pipelineMutationMutex
          UnlockedReaders,  \* mutators that also read active_ without the mutex
          NoThread,         \* the mutex is free
          MaxActivations    \* bound on the number of activations

ASSUME SlotAssumption ==
  /\ NoPipeline \notin Pipelines
  /\ NoThread \notin Mutators
  /\ UnlockedReaders \subseteq Mutators
  /\ MaxActivations \in Nat

VARIABLES
  \* the slot
  current, stagedPrevious, superseded, active, hazard, activationSequence,
  \* the pipeline objects that exist
  heap,
  \* the mutation in progress: its thread, its next step, the pipeline its
  \* local unique_ptr holds until push_back, the hazard it read before the
  \* erase, and whether replace() goes on to commitStaged()
  mutex, mutPc, retiring, protectedPipeline, committing,
  \* the audio thread: its next step and the locals of protectActive
  rtPc, rtSequence, rtSelected,
  \* a thread inside activeLatencyFrames without the mutex: the pointer read
  unlocked,
  \* history: the pipeline of each activation while its object lives, and the
  \* generation at which the audio thread's call began
  installed, rtFloor

slotVars == <<current, stagedPrevious, superseded, active, hazard,
              activationSequence, heap>>
mutVars  == <<mutex, mutPc, retiring, protectedPipeline, committing>>
rtVars   == <<rtPc, rtSequence, rtSelected, rtFloor>>
allVars  == <<slotVars, mutVars, rtVars, unlocked, installed>>

SlotGenerations == 0 .. MaxActivations
MaybePipeline == Pipelines \cup {NoPipeline}

MutSteps == {"idle", "odd", "store", "even", "commit", "retire", "erase"}
RtSteps == {"idle", "sequence", "select", "publish", "verifySequence",
            "verifyActive", "retry", "using"}

SlotTypeOK ==
  /\ current \in Pipelines
  /\ stagedPrevious \in MaybePipeline
  /\ superseded \subseteq Pipelines
  /\ active \in Pipelines
  /\ hazard \in MaybePipeline
  /\ activationSequence \in 0 .. 2 * MaxActivations
  /\ heap \subseteq Pipelines
  /\ mutex \in Mutators \cup {NoThread}
  /\ mutPc \in MutSteps
  /\ retiring \in MaybePipeline
  /\ protectedPipeline \in MaybePipeline
  /\ committing \in BOOLEAN
  /\ rtPc \in RtSteps
  /\ rtSequence \in 0 .. 2 * MaxActivations
  /\ rtSelected \in MaybePipeline
  /\ rtFloor \in SlotGenerations
  /\ unlocked \in [UnlockedReaders -> MaybePipeline]
  /\ installed \in [SlotGenerations -> MaybePipeline]

\* Each stable even sequence names one activation; an odd one is in transition.
Stable(sequence) == sequence % 2 = 0
GenerationOf(sequence) == sequence \div 2

SlotInit ==
  /\ current \in Pipelines
  /\ stagedPrevious = NoPipeline
  /\ superseded = {}
  /\ active = current
  /\ hazard = NoPipeline
  /\ activationSequence = 0
  /\ heap = {current}
  /\ mutex = NoThread
  /\ mutPc = "idle"
  /\ retiring = NoPipeline
  /\ protectedPipeline = NoPipeline
  /\ committing = FALSE
  /\ rtPc = "idle"
  /\ rtSequence = 0
  /\ rtSelected = NoPipeline
  /\ rtFloor = 0
  /\ unlocked = [r \in UnlockedReaders |-> NoPipeline]
  /\ installed = [g \in SlotGenerations |->
                    IF g = 0 THEN current ELSE NoPipeline]

-----------------------------------------------------------------------------
(* Mutations, under the mutex. *)

HasStagedReplacement == stagedPrevious # NoPipeline

LockMutation(t) ==
  /\ mutex = NoThread
  /\ t \in UnlockedReaders => unlocked[t] = NoPipeline
  /\ mutex' = t
  /\ UNCHANGED <<mutPc, retiring, protectedPipeline, committing, slotVars,
                 rtVars, unlocked, installed>>

UnlockMutation(t) ==
  /\ mutex = t
  /\ mutPc = "idle"
  /\ mutex' = NoThread
  /\ UNCHANGED <<mutPc, retiring, protectedPipeline, committing, slotVars,
                 rtVars, unlocked, installed>>

\* The mutex holder is about to start an operation that activates a pipeline.
MayActivate ==
  /\ mutex # NoThread
  /\ mutPc = "idle"
  /\ GenerationOf(activationSequence) < MaxActivations

\* A replacement prepared by the caller arrives in the slot.
Adopt(p) ==
  /\ p \notin heap
  /\ heap' = heap \cup {p}
  /\ current' = p
  /\ mutPc' = "odd"

Stage(p, thenCommit) ==
  /\ MayActivate
  /\ ~HasStagedReplacement
  /\ Adopt(p)
  /\ stagedPrevious' = current
  /\ committing' = thenCommit
  /\ UNCHANGED <<superseded, active, hazard, activationSequence, mutex,
                 retiring, protectedPipeline, rtVars, unlocked, installed>>

StageReplacement(p) == Stage(p, FALSE)

\* As a bug would have it: the revision takes the rollback target's place.
ReviseStagedDiscardingTarget(p) ==
  /\ MayActivate
  /\ HasStagedReplacement
  /\ Adopt(p)
  /\ retiring' = stagedPrevious
  /\ stagedPrevious' = current
  /\ UNCHANGED <<superseded, active, hazard, activationSequence, mutex,
                 protectedPipeline, committing, rtVars, unlocked, installed>>

\* replace() while a replacement is staged revises the tentative pipeline only.
ReviseStaged(p) ==
  /\ MayActivate
  /\ HasStagedReplacement
  /\ Adopt(p)
  /\ retiring' = current
  /\ UNCHANGED <<stagedPrevious, superseded, active, hazard,
                 activationSequence, mutex, protectedPipeline, committing,
                 rtVars, unlocked, installed>>

ReplacePipeline(p) == Stage(p, TRUE) \/ ReviseStaged(p)

CommitStaged ==
  /\ mutex # NoThread
  /\ mutPc \in {"idle", "commit"}
  /\ HasStagedReplacement
  /\ retiring' = stagedPrevious
  /\ stagedPrevious' = NoPipeline
  /\ committing' = FALSE
  /\ mutPc' = "retire"
  /\ UNCHANGED <<current, superseded, active, hazard, activationSequence,
                 heap, mutex, protectedPipeline, rtVars, unlocked, installed>>

RollbackStaged ==
  /\ MayActivate
  /\ HasStagedReplacement
  /\ retiring' = current
  /\ current' = stagedPrevious
  /\ stagedPrevious' = NoPipeline
  /\ mutPc' = "odd"
  /\ UNCHANGED <<superseded, active, hazard, activationSequence, heap, mutex,
                 protectedPipeline, committing, rtVars, unlocked, installed>>

\* activate(): three stores in order.
ActivateOdd ==
  /\ mutPc = "odd"
  /\ activationSequence' = activationSequence + 1
  /\ mutPc' = "store"
  /\ UNCHANGED <<current, stagedPrevious, superseded, active, hazard, heap,
                 mutex, retiring, protectedPipeline, committing, rtVars,
                 unlocked, installed>>

ActivateStore ==
  /\ mutPc = "store"
  /\ active' = current
  /\ mutPc' = "even"
  /\ UNCHANGED <<current, stagedPrevious, superseded, hazard,
                 activationSequence, heap, mutex, retiring,
                 protectedPipeline, committing, rtVars, unlocked, installed>>

AfterActivationForgettingRetired == IF committing THEN "commit" ELSE "idle"

\* Where the operation that called activate() goes on.
AfterActivation ==
  IF retiring # NoPipeline THEN "retire"
  ELSE IF committing THEN "commit" ELSE "idle"

ActivateEven ==
  /\ mutPc = "even"
  /\ activationSequence' = activationSequence + 1
  /\ installed' = [installed EXCEPT
                     ![GenerationOf(activationSequence + 1)] = active]
  /\ mutPc' = AfterActivation
  /\ UNCHANGED <<current, stagedPrevious, superseded, active, hazard, heap,
                 mutex, retiring, protectedPipeline, committing, rtVars,
                 unlocked>>

\* push_back, then reclaimSuperseded's load of the hazard.
RetireSuperseded ==
  /\ mutPc = "retire"
  /\ superseded' = superseded \cup {retiring}
  /\ retiring' = NoPipeline
  /\ protectedPipeline' = hazard
  /\ mutPc' = "erase"
  /\ UNCHANGED <<current, stagedPrevious, active, hazard, activationSequence,
                 heap, mutex, committing, rtVars, unlocked, installed>>

ReclaimableIgnoringHazard == superseded

ReclaimableWhenUnprotected ==
  IF protectedPipeline = NoPipeline THEN superseded ELSE {}

\* The superseded pipelines that reclaimSuperseded destroys.
Reclaimable == superseded \ {protectedPipeline}

ReclaimSuperseded ==
  /\ mutPc = "erase"
  /\ superseded' = superseded \ Reclaimable
  /\ heap' = heap \ Reclaimable
  /\ installed' = [g \in SlotGenerations |->
                     IF installed[g] \in Reclaimable
                     THEN NoPipeline ELSE installed[g]]
  /\ protectedPipeline' = NoPipeline
  /\ mutPc' = "idle"
  /\ UNCHANGED <<current, stagedPrevious, active, hazard, activationSequence,
                 mutex, retiring, committing, rtVars, unlocked>>

-----------------------------------------------------------------------------
(* The audio thread: processWithGeneration, processWithIdle and            *)
(* resetProcessingState all bracket their work with protectActive and      *)
(* releaseActive.                                                          *)

BeginCall ==
  /\ rtPc = "idle"
  /\ rtPc' = "sequence"
  /\ rtFloor' = GenerationOf(activationSequence)
  /\ UNCHANGED <<rtSequence, rtSelected, slotVars, mutVars, unlocked, installed>>

LoadSequence ==
  /\ rtPc = "sequence"
  /\ Stable(activationSequence)
  /\ rtSequence' = activationSequence
  /\ rtPc' = "select"
  /\ UNCHANGED <<rtSelected, rtFloor, slotVars, mutVars, unlocked, installed>>

LoadActive ==
  /\ rtPc = "select"
  /\ rtSelected' = active
  /\ rtPc' = "publish"
  /\ UNCHANGED <<rtSequence, rtFloor, slotVars, mutVars, unlocked, installed>>

PublishHazard ==
  /\ rtPc = "publish"
  /\ hazard' = rtSelected
  /\ rtPc' = "verifySequence"
  /\ UNCHANGED <<current, stagedPrevious, superseded, active,
                 activationSequence, heap, rtSequence, rtSelected, rtFloor,
                 mutVars, unlocked, installed>>

VerifySequenceSkipped ==
  /\ rtPc = "verifySequence"
  /\ rtPc' = "verifyActive"
  /\ UNCHANGED <<rtSequence, rtSelected, rtFloor, slotVars, mutVars, unlocked,
                 installed>>

VerifySequence ==
  /\ rtPc = "verifySequence"
  /\ rtPc' = IF activationSequence = rtSequence THEN "verifyActive" ELSE "retry"
  /\ UNCHANGED <<rtSequence, rtSelected, rtFloor, slotVars, mutVars, unlocked,
                 installed>>

VerifyActive ==
  /\ rtPc = "verifyActive"
  /\ rtPc' = IF active = rtSelected THEN "using" ELSE "retry"
  /\ UNCHANGED <<rtSequence, rtSelected, rtFloor, slotVars, mutVars, unlocked,
                 installed>>

RetryFromVerification == "verifySequence"

\* A failed verification starts the selection over.
RetryFrom == "sequence"

ClearHazard ==
  /\ rtPc = "retry"
  /\ hazard' = NoPipeline
  /\ rtPc' = RetryFrom
  /\ UNCHANGED <<current, stagedPrevious, superseded, active,
                 activationSequence, heap, rtSequence, rtSelected, rtFloor,
                 mutVars, unlocked, installed>>

\* The block is processed while rtPc is "using"; releaseActive ends the call.
ReleaseActive ==
  /\ rtPc = "using"
  /\ hazard' = NoPipeline
  /\ rtPc' = "idle"
  /\ rtSelected' = NoPipeline
  /\ rtSequence' = 0
  /\ rtFloor' = 0
  /\ UNCHANGED <<current, stagedPrevious, superseded, active,
                 activationSequence, heap, mutVars, unlocked, installed>>

AudioStep ==
  \/ BeginCall \/ LoadSequence \/ LoadActive \/ PublishHazard
  \/ VerifySequence \/ VerifyActive \/ ClearHazard \/ ReleaseActive

-----------------------------------------------------------------------------
(* setDspBackend refreshes the published latency after it has released the *)
(* mutex: activeLatencyFrames loads active_, then reads the object.        *)

LoadActiveUnlocked(t) ==
  /\ mutex # t
  /\ unlocked[t] = NoPipeline
  /\ unlocked' = [unlocked EXCEPT ![t] = active]
  /\ UNCHANGED <<slotVars, mutVars, rtVars, installed>>

ReadLatencyUnlocked(t) ==
  /\ unlocked[t] # NoPipeline
  /\ unlocked' = [unlocked EXCEPT ![t] = NoPipeline]
  /\ UNCHANGED <<slotVars, mutVars, rtVars, installed>>

-----------------------------------------------------------------------------
\* The steps that finish an operation once it has started.
MutationStep ==
  \/ ActivateOdd \/ ActivateStore \/ ActivateEven
  \/ (mutPc = "commit" /\ CommitStaged)
  \/ RetireSuperseded \/ ReclaimSuperseded

SlotNext ==
  \/ \E t \in Mutators : LockMutation(t) \/ UnlockMutation(t)
  \/ \E p \in Pipelines : StageReplacement(p) \/ ReplacePipeline(p)
  \/ CommitStaged
  \/ RollbackStaged
  \/ MutationStep
  \/ AudioStep
  \/ \E t \in UnlockedReaders : LoadActiveUnlocked(t) \/ ReadLatencyUnlocked(t)

SlotSpec == SlotInit /\ [][SlotNext]_allVars

\* The audio thread keeps running its call, and a thread that has started a
\* mutation runs it to its end: neither blocks in between.
FairSlotSpec == SlotSpec /\ WF_allVars(AudioStep) /\ WF_allVars(MutationStep)

-----------------------------------------------------------------------------
(* Properties *)

\* While the audio thread processes a block, the pipeline it selected exists: no
\* replacement on another thread has destroyed it (protectActive against
\* reclaimSuperseded).  And the generation returned with the block is one under
\* which that very object was activated, not one that reused its address since.
SelectedPipelineIsLive ==
  rtPc = "using" => /\ rtSelected \in heap
                    /\ installed[GenerationOf(rtSequence)] = rtSelected

\* Every existing pipeline has exactly one owner in the slot.
EachPipelineHasOneOwner ==
  /\ heap = {current} \cup superseded
              \cup ({stagedPrevious, retiring} \ {NoPipeline})
  /\ current \notin superseded \cup {stagedPrevious, retiring}
  /\ stagedPrevious # NoPipeline =>
       stagedPrevious \notin superseded \cup {retiring}
  /\ retiring \notin superseded

\* A sequence of stage, revise, commit, rollback and replace neither leaks nor
\* frees twice, and between two mutations at most one superseded pipeline is kept
\* alive, the one the audio thread protected when the last mutation looked.
PipelinesAreAccounted ==
  /\ EachPipelineHasOneOwner
  /\ mutPc = "idle" => \A p, q \in superseded : p = q

\* The rollback target of a staged replacement stays where it is until commit
\* retires it or rollback makes it current again, however often the tentative
\* pipeline is revised in between.
RollbackTargetKept ==
  [][stagedPrevious # NoPipeline /\ stagedPrevious' # stagedPrevious =>
       /\ stagedPrevious' = NoPipeline
       /\ stagedPrevious \in {retiring', current'}]_allVars

\* A thread that reads the active pipeline without the mutex finds it alive.
UnlockedReadIsLive ==
  \A t \in UnlockedReaders : unlocked[t] \in heap \cup {NoPipeline}

\* A processing call that has begun gets its pipeline, whatever the mutating
\* threads do, as long as activations do not follow one another for ever.
CallGetsPipeline == []<>(rtPc \in {"idle", "using"})

\* The contract the callback relies on.
SlotContract == INSTANCE PipelineSlotContract WITH
  generation <- GenerationOf(activationSequence),
  call <- [state |-> IF rtPc \in {"idle", "using"} THEN rtPc ELSE "pending",
           floor |-> rtFloor,
           generation |-> IF rtPc = "using" THEN GenerationOf(rtSequence) ELSE 0]

ImplementsContract == SlotContract!Spec
=============================================================================
