-------------------------- MODULE OutputTransaction --------------------------
(***************************************************************************)
(* A live change of the output configuration (pipewire_pipeline.cpp).      *)
(*                                                                         *)
(* A coroutine of the control thread prepares the DSP at the new width and *)
(* submits it; the main loop replaces the streams, keeps what ran before   *)
(* and waits for the negotiation.  Success commits the revision; an error  *)
(* or the deadline takes everything back, and a second error stops the     *)
(* daemon.  A preset of another width runs through the same transaction.   *)
(*                                                                         *)
(* Outside: card profiles and their restoration (they hold the same flag), *)
(* the preparation of a rate change, and reloads (PresetControl).          *)
(***************************************************************************)
EXTENDS Naturals

CONSTANTS Outputs,              \* output configurations
          Width,                \* the DSP channels a configuration asks for
          Arguments,            \* the graph it resolves to; labels do not count
          Presets, PresetWidth, \* preset files, None for bypass, and their channels
          InferChannels,        \* the preset decides the width of the bridge
          Rates, Clients,
          Keep,                 \* a request that names no preset
          None,
          StatusDuringChange,   \* clients also read the status of a staged change
          StartOutputs, StartRates, \* what the daemon may be started with
          MaxCommands           \* bound

ASSUME OutputAssumption ==
  /\ None \notin Clients \cup Outputs /\ Keep \notin Presets \cup {None}
  /\ Width \in [Outputs -> Nat] /\ PresetWidth \in [Presets \cup {None} -> Nat]
  /\ StartOutputs \subseteq Outputs /\ StartRates \subseteq Rates
  /\ InferChannels \in BOOLEAN /\ StatusDuringChange \in BOOLEAN
  /\ MaxCommands \in Nat

VARIABLES
  \* what runs: configuration, channel count, preset, pipeline, buffers, rate
  active,
  \* what ran before a staged change; the failure of that change
  previous, outputFailure, outputRollingBack,
  \* the streams, the deadline, and the event of outputChangeSource
  streams, deadline, signaled,
  rateTransitioning, configurationRevision,
  \* the submitted request and its completion
  request, answer, outputTransitionActive,
  \* the daemon has failed or was told to stop
  stopped,
  \* the coroutine of each client and the owner of the current ticket
  task, current,
  \* what each client last read in a status
  seen,
  commandsLeft

runVars == <<streams, deadline, signaled, rateTransitioning>>
changeVars == <<previous, outputFailure, outputRollingBack>>
requestVars == <<request, answer, outputTransitionActive>>
clientVars == <<task, current, seen, commandsLeft>>
vars == <<active, changeVars, runVars, configurationRevision, requestVars,
          stopped, clientVars>>

Choices == Presets \cup {None}

\* outputDspChannelCount, or what the preset asks for.
DspWidth(o, p) == IF InferChannels THEN PresetWidth[p] ELSE Width[o]

PipelineFor(o, p, r) == [preset |-> p, width |-> DspWidth(o, p), rate |-> r]

Pipelines == [preset : Choices, width : Nat, rate : Rates]
Layouts == [output : Outputs, channels : Nat, preset : Choices, pipeline : Pipelines,
            buffers : Nat, rate : Rates]
Views == [output : Outputs, preset : Choices]
Requests == [output : Outputs, preset : Choices \cup {Keep}, pipeline : Pipelines,
             revision : Nat, before : Views, saw : Views \cup {None}]
Tasks == [pc : {"preparing"}, load : BOOLEAN, request : Requests]
           \cup [pc : {"idle", "waiting"}, load : {FALSE}, request : {None}]

ASSUME NoneAssumption == None \notin Layouts \cup Views \cup Requests

TypeOK ==
  /\ active \in Layouts
  /\ previous \in Layouts \cup {None}
  /\ outputFailure \in BOOLEAN /\ outputRollingBack \in BOOLEAN
  /\ streams \in {"down", "negotiating", "ready"}
  /\ deadline \in BOOLEAN /\ signaled \in BOOLEAN
  /\ rateTransitioning \in BOOLEAN
  /\ configurationRevision \in Nat
  /\ request \in Requests \cup {None}
  /\ answer \in {"none", "ok", "error"}
  /\ outputTransitionActive \in BOOLEAN /\ stopped \in BOOLEAN
  /\ task \in [Clients -> Tasks]
  /\ current \in Clients \cup {None}
  /\ seen \in [Clients -> [revision : Nat, view : Views]]
  /\ commandsLeft \in 0 .. MaxCommands

Idle == [pc |-> "idle", load |-> FALSE, request |-> None]

View(layout) == [output |-> layout.output, preset |-> layout.preset]

Status == [revision |-> configurationRevision, view |-> View(active)]

Init ==
  /\ \E o \in StartOutputs, p \in Choices, r \in StartRates :
       active = [output |-> o, channels |-> Width[o], preset |-> p,
                 pipeline |-> PipelineFor(o, p, r), buffers |-> DspWidth(o, p),
                 rate |-> r]
  /\ previous = None /\ outputFailure = FALSE /\ outputRollingBack = FALSE
  /\ streams = "ready" /\ deadline = FALSE /\ signaled = FALSE
  /\ rateTransitioning = FALSE
  /\ configurationRevision = 0
  /\ request = None /\ answer = "none" /\ outputTransitionActive = FALSE
  /\ stopped = FALSE
  /\ task = [c \in Clients |-> Idle]
  /\ current = None
  /\ seen = [c \in Clients |-> Status]
  /\ commandsLeft = MaxCommands

-----------------------------------------------------------------------------
(* The control thread. *)

\* A client that is going to send something reads or is sent a status, for
\* which it waits for the mutex only.
ReadStatus(c) ==
  /\ task[c].pc = "idle" /\ commandsLeft > 0
  /\ StatusDuringChange \/ previous = None
  /\ seen' = [seen EXCEPT ![c] = Status]
  /\ UNCHANGED <<active, changeVars, runVars, configurationRevision, requestVars,
                 stopped, task, current, commandsLeft>>

Receive(c) ==
  /\ task[c].pc = "idle" /\ commandsLeft > 0
  /\ commandsLeft' = commandsLeft - 1
  /\ ~outputTransitionActive /\ ~rateTransitioning

\* "before" and "saw" are history: the configuration at the revision the code
\* keeps in the request, and what a sender that named a revision took it to be.
RequestFor(o, p, saw) ==
  [output |-> o, preset |-> p,
   pipeline |-> PipelineFor(o, IF p = Keep THEN active.pipeline.preset ELSE p, active.rate),
   revision |-> configurationRevision, before |-> View(active), saw |-> saw]

\* PreparationScope: the older candidate is canceled; after a stop every one is.
Begin(c, req, isLoad) ==
  /\ current' = IF stopped THEN None ELSE c
  /\ task' = [task EXCEPT ![c] = [pc |-> "preparing", load |-> isLoad, request |-> req]]

End(c) == task' = [task EXCEPT ![c] = Idle]

\* applyPreparedOutput, up to its await.
Submit(c, req) ==
  /\ outputTransitionActive' = TRUE
  /\ request' = req
  /\ answer' = "none"
  /\ signaled' = TRUE
  /\ task' = [task EXCEPT ![c] = [pc |-> "waiting", load |-> FALSE, request |-> None]]
  /\ current' = None

RevisionIgnored(c) == TRUE

RevisionAccepted(c) == seen[c].revision = configurationRevision

\* requestLiveOutputChange.  Bypass is prepared without an await.
SetOutput(c, o, p, saw) ==
  /\ Receive(c)
  /\ saw # None => saw = seen[c].view /\ RevisionAccepted(c)
  /\ \/ /\ p # None
        /\ Begin(c, RequestFor(o, p, saw), FALSE)
        /\ UNCHANGED <<requestVars, signaled>>
     \/ /\ p = None /\ ~stopped
        /\ Submit(c, RequestFor(o, p, saw))
  /\ UNCHANGED <<active, changeVars, streams, deadline, rateTransitioning,
                 configurationRevision, stopped, seen>>

\* activatePreset, for an explicit load.
LoadPreset(c, p) ==
  /\ Receive(c)
  /\ Begin(c, RequestFor(active.output, p, None), TRUE)
  /\ UNCHANGED <<active, changeVars, runVars, configurationRevision, requestVars,
                 stopped, seen>>

Disconnect(c) ==
  /\ task[c].pc = "preparing" /\ current = c
  /\ current' = None
  /\ UNCHANGED <<active, changeVars, runVars, configurationRevision, requestVars,
                 stopped, task, seen, commandsLeft>>

\* The candidate is canceled or failed, or the daemon takes no more requests.
Abandon(c) ==
  /\ task[c].pc = "preparing"
  /\ End(c)
  /\ current' = IF current = c THEN None ELSE current
  /\ UNCHANGED <<active, changeVars, runVars, configurationRevision, requestVars,
                 stopped, seen, commandsLeft>>

\* The await is over and nobody has begun anything since.
Prepared(c) == task[c].pc = "preparing" /\ current = c

NeedsStreams(c) ==
  ~task[c].load \/ (InferChannels /\ task[c].request.pipeline.width # active.buffers)

\* A load goes on with what is configured after its await, a change of the
\* output insists on the revision it started from.
SubmitPrepared(c) ==
  /\ Prepared(c) /\ NeedsStreams(c)
  /\ ~outputTransitionActive /\ ~stopped
  /\ IF task[c].load
     THEN Submit(c, [task[c].request EXCEPT !.output = active.output,
                                            !.revision = configurationRevision,
                                            !.before = View(active)])
     ELSE /\ task[c].request.revision = configurationRevision
          /\ Submit(c, task[c].request)
  /\ UNCHANGED <<active, changeVars, streams, deadline, rateTransitioning,
                 configurationRevision, stopped, seen, commandsLeft>>

\* A preset of the same width replaces the pipeline at once.
PublishPreset(c) ==
  /\ Prepared(c) /\ ~NeedsStreams(c)
  /\ active' = [active EXCEPT !.preset = task[c].request.preset,
                              !.pipeline = task[c].request.pipeline]
  /\ configurationRevision' = configurationRevision + 1
  /\ End(c) /\ current' = None
  /\ UNCHANGED <<changeVars, runVars, requestVars, stopped, seen, commandsLeft>>

\* Bypass that fits the buffers; otherwise it is a SetOutput of bypass.
Bypass(c) ==
  /\ Receive(c)
  /\ InferChannels => active.buffers = PresetWidth[None]
  /\ current' = None
  /\ active' = [active EXCEPT !.preset = None,
                              !.pipeline = PipelineFor(active.output, None, active.rate)]
  /\ configurationRevision' = configurationRevision + 1
  /\ UNCHANGED <<changeVars, runVars, requestVars, stopped, task, seen>>

\* applyPreparedOutput, after its await.
TakeAnswer(c) ==
  /\ task[c].pc = "waiting" /\ answer # "none"
  /\ request' = None /\ answer' = "none" /\ outputTransitionActive' = FALSE
  /\ End(c)
  /\ UNCHANGED <<active, changeVars, runVars, configurationRevision, stopped,
                 current, seen, commandsLeft>>

-----------------------------------------------------------------------------
(* The main loop.  Its handlers are atomic: they hold the mutex. *)

\* completeRuntime and the fatal branch of failRuntime answer what is pending.
Stop ==
  /\ stopped' = TRUE
  /\ current' = None
  /\ answer' = IF request = None THEN answer ELSE "error"

\* failRuntime: while a change is staged an error is only remembered.
FailRuntime ==
  \/ /\ previous # None /\ ~outputRollingBack
     /\ outputFailure' = TRUE /\ signaled' = TRUE
     /\ UNCHANGED <<stopped, current, answer>>
  \/ /\ previous = None \/ outputRollingBack
     /\ Stop
     /\ UNCHANGED <<outputFailure, signaled>>

NothingToApply == request.output = active.output /\ request.preset = Keep

LabelsOnly ==
  /\ request.preset = Keep
  /\ Arguments[request.output] = Arguments[active.output]
  /\ Width[request.output] = active.channels

RateStillFits == request.pipeline.rate = active.rate

RequestedPresetOnly ==
  [output |-> request.output, channels |-> Width[request.output], preset |-> request.preset,
   pipeline |-> request.pipeline, buffers |-> request.pipeline.width, rate |-> active.rate]

\* The layout a request asks for.
Requested ==
  [output |-> request.output, channels |-> Width[request.output],
   preset |-> IF request.preset = Keep THEN active.preset ELSE request.preset,
   pipeline |-> request.pipeline, buffers |-> request.pipeline.width,
   rate |-> active.rate]

RestoredAtTheNewRate == [previous EXCEPT !.rate = active.rate]

\* What a rollback brings back: all that was staged over.
Restored == previous

ArmedByStartOnly == previous = None

\* The common tail arms the deadline, for a rollback as well.
Armed == TRUE

AnswerAtOnce == answer' = "ok"

\* A staged change is answered when it is committed or taken back.
AnswerLater == UNCHANGED answer

\* outputChangeRequested, for a request that nobody has completed.  The other
\* early returns are never taken: whoever signals leaves a request or a failure.
Apply ==
  /\ ~stopped /\ signaled /\ previous = None
  /\ request # None /\ answer = "none"
  /\ UNCHANGED <<outputRollingBack, rateTransitioning, request, outputTransitionActive,
                 stopped, clientVars>>

\* The revision or the rate has moved on, or there is no inventory or buffer.
RefuseRequest ==
  /\ Apply
  /\ request.revision # configurationRevision \/ ~NothingToApply
  /\ answer' = "error"
  /\ signaled' = FALSE
  /\ UNCHANGED <<active, previous, outputFailure, streams, deadline, configurationRevision>>

AcceptUnchanged ==
  /\ Apply
  /\ request.revision = configurationRevision /\ NothingToApply
  /\ answer' = "ok"
  /\ signaled' = FALSE
  /\ UNCHANGED <<active, previous, outputFailure, streams, deadline, configurationRevision>>

ApplyLabels ==
  /\ Apply
  /\ request.revision = configurationRevision /\ ~NothingToApply /\ LabelsOnly
  /\ active' = [active EXCEPT !.output = request.output]
  /\ configurationRevision' = configurationRevision + 1
  /\ answer' = "ok"
  /\ signaled' = FALSE
  /\ UNCHANGED <<previous, outputFailure, streams, deadline>>

\* The streams are built anew; an error on the way is remembered at once.
StageChange ==
  /\ Apply
  /\ request.revision = configurationRevision /\ ~NothingToApply /\ ~LabelsOnly
  /\ RateStillFits
  /\ previous' = active
  /\ active' = Requested
  /\ \/ /\ deadline' = Armed /\ streams' = "negotiating"
        /\ signaled' = FALSE /\ UNCHANGED outputFailure
     \/ /\ deadline' \in BOOLEAN /\ streams' = "down"
        /\ signaled' = TRUE /\ outputFailure' = TRUE
  /\ AnswerLater
  /\ UNCHANGED configurationRevision

\* outputChangeRequested, for a staged change that has failed; an error on the
\* way back is fatal.
RollBack ==
  /\ ~stopped /\ signaled
  /\ previous # None /\ ~outputRollingBack /\ outputFailure
  /\ outputRollingBack' = TRUE
  /\ active' = Restored
  /\ signaled' = FALSE
  /\ \/ /\ deadline' = Armed /\ streams' = "negotiating"
        /\ UNCHANGED <<stopped, current, answer>>
     \/ /\ deadline' \in BOOLEAN /\ streams' = "down"
        /\ Stop
  /\ UNCHANGED <<previous, outputFailure, rateTransitioning, configurationRevision,
                 request, outputTransitionActive, task, seen, commandsLeft>>

CommitDespiteFailure == previous # None

Committable == previous # None /\ (outputRollingBack \/ ~outputFailure)

\* finishReadinessCheck and finishOutputChange.
StreamsReady ==
  /\ ~stopped /\ streams = "negotiating"
  /\ streams' = "ready"
  /\ rateTransitioning' = FALSE
  /\ \/ /\ Committable
        /\ configurationRevision' =
             IF outputRollingBack THEN configurationRevision ELSE configurationRevision + 1
        /\ previous' = None /\ outputRollingBack' = FALSE /\ outputFailure' = FALSE
        /\ deadline' = FALSE
        /\ answer' = IF outputFailure THEN "error" ELSE "ok"
     \/ /\ ~Committable
        /\ UNCHANGED <<changeVars, deadline, configurationRevision, answer>>
  /\ UNCHANGED <<active, signaled, request, outputTransitionActive, stopped, clientVars>>

\* The graph moves the streams to another rate; the pipeline is rebuilt, unless
\* that fails and the rate is bridged.  Other preparations are canceled.
NegotiateRate(r) ==
  /\ ~stopped /\ streams = "negotiating" /\ r # active.rate
  /\ rateTransitioning' = TRUE
  /\ current' = None
  /\ \/ active' = [active EXCEPT !.rate = r, !.pipeline.rate = r]
     \/ UNCHANGED active
  /\ UNCHANGED <<changeVars, streams, deadline, signaled, configurationRevision,
                 requestVars, stopped, task, seen, commandsLeft>>

\* The streams renegotiate: the graph or the distribution has changed.
RestartStreams ==
  /\ ~stopped /\ streams = "ready"
  /\ streams' = "negotiating"
  /\ UNCHANGED <<active, changeVars, deadline, signaled, rateTransitioning,
                 configurationRevision, requestVars, stopped, clientVars>>

\* A stream, the inventory or the negotiation reports an error.
GraphFails ==
  /\ ~stopped
  /\ FailRuntime
  /\ streams' \in {streams, "down"}
  /\ UNCHANGED <<active, previous, outputRollingBack, deadline, rateTransitioning,
                 configurationRevision, request, outputTransitionActive, task, seen,
                 commandsLeft>>

DeadlineExpires ==
  /\ ~stopped /\ deadline
  /\ deadline' = FALSE
  /\ FailRuntime
  /\ UNCHANGED <<active, previous, outputRollingBack, streams, rateTransitioning,
                 configurationRevision, request, outputTransitionActive, task, seen,
                 commandsLeft>>

\* SIGINT or SIGTERM.
CompleteRuntime ==
  /\ ~stopped
  /\ Stop
  /\ UNCHANGED <<active, changeVars, runVars, configurationRevision, request,
                 outputTransitionActive, task, seen, commandsLeft>>

-----------------------------------------------------------------------------
OutputChangeRequested ==
  RefuseRequest \/ AcceptUnchanged \/ ApplyLabels \/ StageChange \/ RollBack

Resume(c) == SubmitPrepared(c) \/ PublishPreset(c) \/ Abandon(c)

Next ==
  \/ \E c \in Clients :
       \/ ReadStatus(c)
       \/ \E o \in Outputs, p \in Choices \cup {Keep}, saw \in {None, seen[c].view} :
            SetOutput(c, o, p, saw)
       \/ \E p \in Presets : LoadPreset(c, p)
       \/ Bypass(c) \/ Disconnect(c) \/ Resume(c) \/ TakeAnswer(c)
  \/ OutputChangeRequested
  \/ StreamsReady
  \/ \E r \in Rates : NegotiateRate(r)
  \/ RestartStreams \/ GraphFails \/ DeadlineExpires \/ CompleteRuntime

Spec == Init /\ [][Next]_vars

\* Both loops dispatch what is ready, and five seconds pass.
\* That the streams ever become ready is not assumed.
FairSpec ==
  /\ Spec
  /\ WF_vars(OutputChangeRequested) /\ WF_vars(DeadlineExpires)
  /\ WF_vars(\E c \in Clients : TakeAnswer(c))

-----------------------------------------------------------------------------
(* Properties *)

Fits(layout) ==
  /\ layout.channels = Width[layout.output]
  /\ layout.pipeline = PipelineFor(layout.output, layout.preset, layout.rate)
  /\ layout.buffers = layout.pipeline.width

\* Configuration, channel count, preset, pipeline, buffers and rate belong
\* together, in what runs and in what a rollback would bring back: no candidate
\* prepared for another width, preset or rate is installed.
LayoutFits == Fits(active) /\ (previous # None => Fits(previous))

\* Success means the request is in effect, an error that the configuration is
\* the one it was submitted for ("restore the previous configuration and
\* processing state").
AnswerTellsTheOutcome ==
  ~stopped =>
    /\ answer = "ok" =>
         /\ active.output = request.output
         /\ request.preset # Keep => active.preset = request.preset
    /\ answer = "error" => View(active) = request.before

\* A staged change has one client that waits for it and keeps the others out.
StagedChangeIsExclusive ==
  previous # None /\ ~stopped =>
    /\ outputTransitionActive /\ answer = "none"
    /\ \E c \in Clients : \A d \in Clients : task[d].pc = "waiting" <=> d = c

\* A request that names a revision is applied to the configuration its sender
\* saw under that revision ("A stale expected revision rejects the request").
NamedRevisionWasSeen ==
  request # None /\ request.saw # None => request.saw = request.before

\* Whoever submitted a change gets an answer, whether or not the streams ever
\* become ready.
OutputRequestIsAnswered == []<>(request = None)
=============================================================================
