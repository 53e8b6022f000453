------------------------------- MODULE DspIdle -------------------------------
(***************************************************************************)
(* Suspension of the DSP during silence (dsp_pipeline_slot.cpp,            *)
(* processWithIdle) and the atomic word in which policy and activity are   *)
(* published (dsp_idle_runtime_state.h).                                   *)
(*                                                                         *)
(* The audio thread loads the word, processes a block with the pipeline    *)
(* that is active then, and publishes the activity only if the word did    *)
(* not change meanwhile.  The control thread and the main loop replace the *)
(* pipeline first and the activity afterwards.  The selection of the       *)
(* pipeline is one step, as PipelineSlotContract promises.                 *)
(***************************************************************************)
EXTENDS Integers, Sequences

CONSTANTS Timeouts,      \* milliseconds; 0 disables suspension
          SampleRates,   \* Hz
          FadeMilliseconds,
          BlockSizes,    \* frames of a block
          MaxGeneration  \* bound on pipeline replacements

Ignore == 0

ASSUME IdleAssumption ==
  /\ Timeouts \subseteq Nat /\ Ignore \in Timeouts
  /\ SampleRates \subseteq Nat \ {0}
  /\ BlockSizes \subseteq Nat \ {0}
  /\ FadeMilliseconds \in Nat \ {0}
  /\ MaxGeneration \in Nat

VARIABLES
  word,       \* published policy and activity
  snapshot,   \* the policy the audio thread loaded
  unchanged,  \* the word is still the one that was loaded
  pc,         \* audio thread: "idle", "loaded" or "processed"
  result,     \* activity of the processed block
  pipeline,   \* the active pipeline
  mode,       \* processingMode
  mutator,    \* per thread: "idle", "locked" or "unlocked"
  idle,       \* the slot's detector
  gains,      \* gains of the silent frames since the detector last started
  tail        \* the pipeline still holds sound of earlier input

audioVars == <<snapshot, pc, result, idle, gains>>
mutatorVars == <<pipeline, mode, mutator>>
vars == <<word, unchanged, tail, audioVars, mutatorVars>>

Threads == {"control", "mainLoop"}
Activities == {"bypassed", "active", "draining", "sleeping"}

\* Numerator and denominator.
Gain == Nat \X (Nat \ {0})

DetectorState ==
  [configured : BOOLEAN, policy : Timeouts, generation : 0 .. MaxGeneration,
   rate : SampleRates, silent : Nat, sleeping : BOOLEAN]

TypeOK ==
  /\ word \in [policy : Timeouts, activity : Activities]
  /\ snapshot \in Timeouts
  /\ unchanged \in BOOLEAN
  /\ pc \in {"idle", "loaded", "processed"}
  /\ result \in Activities
  /\ pipeline \in [generation : 0 .. MaxGeneration, native : BOOLEAN, rate : SampleRates]
  /\ mode \in {"preset", "bypass"}
  /\ mutator \in [Threads -> {"idle", "locked", "unlocked"}]
  /\ idle \in DetectorState
  /\ gains \in Seq(Gain)
  /\ tail \in BOOLEAN

\* Activity that goes with a mode, for whoever mutates.
ModeActivity(m) == IF m = "preset" THEN "active" ELSE "bypassed"

Init ==
  \E p \in Timeouts, r \in SampleRates, native \in BOOLEAN :
    /\ mode = IF native THEN "preset" ELSE "bypass"
    /\ word = [policy |-> p, activity |-> ModeActivity(mode)]
    /\ snapshot = p
    /\ unchanged = FALSE
    /\ pc = "idle"
    /\ result = word.activity
    /\ pipeline = [generation |-> 0, native |-> native, rate |-> r]
    /\ mutator = [t \in Threads |-> "idle"]
    /\ idle = [configured |-> FALSE, policy |-> Ignore, generation |-> 0,
               rate |-> r, silent |-> 0, sleeping |-> FALSE]
    /\ gains = <<>>
    /\ tail = FALSE

-----------------------------------------------------------------------------
(* The detector. *)

\* framesForMilliseconds: rounded up.
FramesForMilliseconds(rate, ms) == (rate * ms + 999) \div 1000

\* A new policy, pipeline or rate starts it again.
Detector ==
  IF /\ idle.configured
     /\ idle.policy = snapshot
     /\ idle.generation = pipeline.generation
     /\ idle.rate = pipeline.rate
  THEN idle
  ELSE [configured |-> TRUE, policy |-> snapshot, generation |-> pipeline.generation,
        rate |-> pipeline.rate, silent |-> 0, sleeping |-> FALSE]

GainsSoFar == IF Detector = idle THEN gains ELSE <<>>

Awake(detector) == [detector EXCEPT !.silent = 0, !.sleeping = FALSE]

Full == <<1, 1>>

FadeGainPastTheEnd(progress, fade) ==
  IF fade > 1 THEN <<fade - progress - 1, fade - 1>> ELSE <<0, 1>>

\* Gain of a frame of the fade.
FadeGain(progress, fade) ==
  IF progress < fade /\ fade > 1 THEN <<fade - progress - 1, fade - 1>> ELSE <<0, 1>>

FadeProgressForgotten(previous, timeout) == 0

\* Frames of the fade that went by in earlier blocks.
FadeProgress(previous, timeout) ==
  IF previous < timeout THEN 0 ELSE previous - timeout

FadeStart(previous, timeout, frames) ==
  IF previous + frames <= timeout THEN frames
  ELSE IF previous < timeout THEN timeout - previous ELSE 0

\* applyIdleFade over a block of silent input.
BlockGains(previous, timeout, fade, frames) ==
  [i \in 1 .. frames |->
     IF i - 1 < FadeStart(previous, timeout, frames) THEN Full
     ELSE FadeGain(FadeProgress(previous, timeout) + (i - 1)
                     - FadeStart(previous, timeout, frames), fade)]

SuspendsAfterTimeout(silent, timeout, fade) == silent >= timeout

Suspends(silent, timeout, fade) == silent >= timeout + fade

-----------------------------------------------------------------------------
(* The audio thread: processStreamInputBlock and processWithIdle. *)

LoadIdleState ==
  /\ pc = "idle"
  /\ snapshot' = word.policy
  /\ unchanged' = TRUE
  /\ pc' = "loaded"
  /\ UNCHANGED <<word, result, idle, gains, tail, mutatorVars>>

Process(activity) ==
  /\ pc = "loaded"
  /\ pc' = "processed"
  /\ result' = activity
  /\ UNCHANGED <<word, unchanged, snapshot, mutatorVars>>

ProcessBypassed ==
  /\ ~pipeline.native
  /\ Process("bypassed")
  /\ idle' = [idle EXCEPT !.configured = FALSE]
  /\ UNCHANGED <<gains, tail>>

\* Sound, or suspension is disabled.
ProcessActive(silent) ==
  /\ pipeline.native
  /\ ~silent \/ snapshot = Ignore
  /\ Process("active")
  /\ idle' = Awake(Detector)
  /\ gains' = <<>>
  /\ tail' = (tail \/ ~silent)

ProcessSleeping ==
  /\ pipeline.native /\ snapshot # Ignore
  /\ Detector.sleeping
  /\ Process("sleeping")
  /\ idle' = Detector
  /\ UNCHANGED <<gains, tail>>

ProcessSilent(frames, processed, reset) ==
  LET timeout == FramesForMilliseconds(pipeline.rate, snapshot)
      fade == FramesForMilliseconds(pipeline.rate, FadeMilliseconds)
      silent == Detector.silent + frames
      faded == GainsSoFar \o BlockGains(Detector.silent, timeout, fade, frames)
  IN /\ pipeline.native /\ snapshot # Ignore
     /\ ~Detector.sleeping
     /\ \/ /\ ~processed \/ (Suspends(silent, timeout, fade) /\ ~reset)
           /\ Process("active")
           /\ idle' = Awake(Detector)
           /\ gains' = <<>>
           /\ UNCHANGED tail
        \/ /\ processed /\ reset /\ Suspends(silent, timeout, fade)
           /\ Process("sleeping")
           /\ idle' = [Detector EXCEPT !.silent = silent, !.sleeping = TRUE]
           /\ gains' = faded
           /\ tail' = FALSE
        \/ /\ processed /\ ~Suspends(silent, timeout, fade)
           /\ Process("draining")
           /\ idle' = [Detector EXCEPT !.silent = silent]
           /\ gains' = faded
           /\ UNCHANGED tail

TryReplaceWhateverHappened == TRUE

\* The comparison of tryReplaceActivity: the token moved with every write.
TryReplace == unchanged

TryReplaceActivity ==
  /\ pc = "processed"
  /\ pc' = "idle"
  /\ word' = IF TryReplace THEN [policy |-> snapshot, activity |-> result] ELSE word
  /\ unchanged' = FALSE
  /\ UNCHANGED <<snapshot, result, idle, gains, tail, mutatorVars>>

\* A stopped source left history behind: applyPendingAudioTransition.
ResetProcessingState(reset) ==
  /\ pc = "idle"
  /\ idle' = [Awake(idle) EXCEPT !.configured = FALSE]
  /\ gains' = <<>>
  /\ tail' = (tail /\ ~reset)
  /\ UNCHANGED <<word, unchanged, snapshot, pc, result, mutatorVars>>

-----------------------------------------------------------------------------
(* The control thread and the main loop. *)

MutexIsFree == \A t \in Threads : mutator[t] # "locked"

\* replace, under the mutex; the mode is set before the mutex is released.
Replace(t, native, rate) ==
  /\ mutator[t] = "idle" /\ MutexIsFree
  /\ pipeline.generation < MaxGeneration
  /\ mutator' = [mutator EXCEPT ![t] = "locked"]
  /\ pipeline' = [generation |-> pipeline.generation + 1, native |-> native, rate |-> rate]
  /\ mode' = IF native THEN "preset" ELSE "bypass"
  /\ tail' = FALSE
  /\ UNCHANGED <<word, unchanged, audioVars>>

\* loadPreset and bypass on the control thread, a rate change on the main loop.
LoadPreset == Replace("control", TRUE, pipeline.rate)
Bypass == Replace("control", FALSE, pipeline.rate)
ChangeRate == \E r \in SampleRates : Replace("mainLoop", pipeline.native, r)

\* setDspBackend leaves the critical section before it publishes; with bypass
\* there is nothing to rebuild.
SetDspBackend ==
  \/ /\ mutator["control"] = "idle" /\ MutexIsFree
     /\ ~pipeline.native
     /\ mutator' = [mutator EXCEPT !["control"] = "unlocked"]
     /\ UNCHANGED <<word, unchanged, audioVars, pipeline, mode, tail>>
  \/ /\ pipeline.native
     /\ mutator["control"] = "idle" /\ MutexIsFree
     /\ pipeline.generation < MaxGeneration
     /\ pipeline' = [pipeline EXCEPT !.generation = @ + 1]
     /\ mutator' = [mutator EXCEPT !["control"] = "unlocked"]
     /\ tail' = FALSE
     /\ UNCHANGED <<word, unchanged, audioVars, mode>>

ReplaceActivityKeepingToken(t) ==
  /\ mutator[t] # "idle"
  /\ mutator' = [mutator EXCEPT ![t] = "idle"]
  /\ word' = [word EXCEPT !.activity = ModeActivity(mode)]
  /\ UNCHANGED <<unchanged, tail, audioVars, pipeline, mode>>

\* The compare-and-swap loop ends with one write, and every write moves the
\* token on.
ReplaceActivity(t) ==
  /\ mutator[t] # "idle"
  /\ mutator' = [mutator EXCEPT ![t] = "idle"]
  /\ word' = [word EXCEPT !.activity = ModeActivity(mode)]
  /\ unchanged' = FALSE
  /\ UNCHANGED <<tail, audioVars, pipeline, mode>>

\* setDspIdle takes no mutex.
ReplacePolicy(p) ==
  /\ mutator["control"] = "idle"
  /\ word' = [policy |-> p, activity |-> ModeActivity(mode)]
  /\ unchanged' = FALSE
  /\ UNCHANGED <<audioVars, mutatorVars, tail>>

-----------------------------------------------------------------------------
Next ==
  \/ LoadIdleState \/ ProcessBypassed \/ ProcessSleeping \/ TryReplaceActivity
  \/ \E silent \in BOOLEAN : ProcessActive(silent)
  \/ \E n \in BlockSizes, processed, reset \in BOOLEAN : ProcessSilent(n, processed, reset)
  \/ \E reset \in BOOLEAN : ResetProcessingState(reset)
  \/ LoadPreset \/ Bypass \/ ChangeRate \/ SetDspBackend
  \/ \E t \in Threads : ReplaceActivity(t)
  \/ \E p \in Timeouts : ReplacePolicy(p)

Spec == Init /\ [][Next]_vars

-----------------------------------------------------------------------------
(* Properties *)

Timeout == FramesForMilliseconds(idle.rate, idle.policy)
Fade == FramesForMilliseconds(idle.rate, FadeMilliseconds)

\* Gain that the position in a silent run calls for.
GainAt(position, timeout, fade) ==
  IF position <= timeout THEN Full ELSE FadeGain(position - 1 - timeout, fade)

\* What a listener hears does not depend on how the graph cuts silence into
\* blocks: frame i of a silent run has the gain its position calls for.
FadeIgnoresBlocks ==
  idle.configured =>
    \A i \in DOMAIN gains : gains[i] = GainAt(i, Timeout, Fade)

\* The pipeline is suspended exactly when timeout and fade went by in silence,
\* and then its output had reached zero and it holds no sound that could be
\* heard when input returns.
SleepsCleanAfterFade ==
  /\ idle.configured /\ idle.sleeping =>
       /\ Len(gains) >= Timeout + Fade
       /\ gains[Len(gains)][1] = 0
       /\ idle.generation = pipeline.generation => ~tail
  /\ idle.configured /\ ~idle.sleeping => Len(gains) < Timeout + Fade

\* When no replacement is under way, the reported activity is that of the
\* active pipeline: bypassed exactly for bypass, sleeping only if the detector
\* sleeps or was restarted.  No block processed for an older pipeline or policy
\* is reported over a newer one.
ReportedActivityIsCurrent ==
  (\A t \in Threads : mutator[t] = "idle") =>
    /\ word.activity = "bypassed" <=> ~pipeline.native
    /\ word.activity = "sleeping" /\ pc # "processed" =>
         ~idle.configured \/ (idle.sleeping /\ idle.policy = word.policy)

\* Only a command changes the policy; a block that began under the old one
\* never brings it back.
PolicyIsOnlyCommanded ==
  [][word'.policy # word.policy => pc' = pc]_vars
=============================================================================
