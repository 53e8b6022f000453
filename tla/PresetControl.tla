---------------------------- MODULE PresetControl ----------------------------
(***************************************************************************)
(* The control plane that decides which DSP pipeline runs                  *)
(* (pipewire_pipeline.cpp, preparation_generation.h).                      *)
(*                                                                         *)
(* On the control thread, coroutines serve client commands, the inotify    *)
(* descriptor of the active preset and the publication of status; on the   *)
(* main loop, rate changes rebuild the pipeline.  Everybody prepares a     *)
(* candidate without holding pipelineMutationMutex and publishes it only   *)
(* if its ticket is still current.  A step runs from one await to the next *)
(* with the mutex held, as the code does.                                  *)
(***************************************************************************)
EXTENDS Integers

CONSTANTS Presets,          \* preset file paths
          Backends,         \* usable DSP backend variants
          Rates,            \* sample rates
          Automatic,        \* the rate policy that follows the graph
          None,             \* no preset, no backend, no request
          Clients,          \* control connections
          Monitor, Publisher, MainLoop,
          HasSubscriber,    \* somebody subscribes to status
          BadVersions,      \* file contents that do not load
          MaxVersion,       \* bound of the contents of a file
          Workloads         \* what clients command, and bounds: how many commands,
                            \* edits of each file and rate changes of the graph

Tasks == Clients \cup {Monitor, Publisher, MainLoop}

AllWorkloads ==
  [commands : SUBSET {"loadPreset", "setDspBackend", "bypass", "setRate", "setOutput"},
   commandsLeft : Nat, edits : 0 .. MaxVersion, graphChangesLeft : Nat]

ASSUME ControlAssumption ==
  /\ None \notin Presets \cup Backends \cup Rates \cup {Automatic}
  /\ Automatic \notin Rates
  /\ Monitor # Publisher /\ MainLoop \notin {Monitor, Publisher}
  /\ {Monitor, Publisher, MainLoop} \cap Clients = {}
  /\ HasSubscriber \in BOOLEAN
  /\ MaxVersion \in Nat
  /\ Workloads \subseteq AllWorkloads

VARIABLES
  \* preset files: the content version, the watched path, an unread event
  file, watched, event,
  \* runtime state under the mutex
  pipeline, activePreset, presetReloadPending, backend,
  \* PreparationGeneration: the intent, the pending marker, and whether the
  \* current ticket's own cancellation was requested
  generation, pendingTicket, canceled,
  \* the coroutine of each task
  task,
  \* rate state and the main loop's progress through a transition
  policy, previousPolicy, dspRate, graphRate, rateTransitioning, streams,
  rateRequest, rateAnswer, rateAbandoned, rateSignaled,
  outputTransitionActive,
  workload

fileVars == <<file, watched, event>>
configVars == <<pipeline, activePreset, presetReloadPending, backend>>
ticketVars == <<generation, pendingTicket, canceled>>
rateVars == <<policy, previousPolicy, dspRate, graphRate, rateTransitioning,
              streams, rateRequest, rateAnswer, rateAbandoned, rateSignaled>>
vars == <<fileVars, configVars, ticketVars, task, rateVars,
          outputTransitionActive, workload>>

Nothing == [preset |-> None, version |-> 0, backend |-> None, rate |-> None]
Idle == [pc |-> "idle", kind |-> "none", ticket |-> 0, candidate |-> Nothing]

Pipelines == [preset : Presets \cup {None}, version : 0 .. MaxVersion,
              backend : Backends \cup {None}, rate : Rates \cup {None}]

TypeOK ==
  /\ file \in [Presets -> 0 .. MaxVersion]
  /\ watched \in Presets \cup {None}
  /\ event \in BOOLEAN
  /\ pipeline \in Pipelines
  /\ activePreset \in Presets \cup {None}
  /\ presetReloadPending \in BOOLEAN
  /\ backend \in Backends
  /\ generation \in Nat /\ pendingTicket \in 0 .. generation
  /\ canceled \in BOOLEAN
  /\ task \in [Tasks ->
       [pc : {"idle", "reading", "building", "built", "failed", "waiting"},
        kind : {"none", "load", "reload", "backend", "rate"},
        ticket : 0 .. generation, candidate : Pipelines]]
  /\ policy \in Rates \cup {Automatic}
  /\ previousPolicy \in Rates \cup {Automatic, None}
  /\ dspRate \in Rates /\ graphRate \in Rates
  /\ rateTransitioning \in BOOLEAN
  /\ streams \in {"running", "restarted", "settling"}
  /\ rateRequest \in Rates \cup {Automatic, None}
  /\ rateAnswer \in {None, "ok", "error"}
  /\ rateAbandoned \in BOOLEAN /\ rateSignaled \in BOOLEAN
  /\ outputTransitionActive \in BOOLEAN
  /\ workload \in AllWorkloads

Init ==
  /\ file = [p \in Presets |-> 0]
  /\ activePreset \in Presets \cup {None}
  /\ watched = activePreset
  /\ event = FALSE
  /\ backend \in Backends
  /\ dspRate \in Rates
  /\ pipeline = [preset |-> activePreset, version |-> 0, rate |-> dspRate,
                 backend |-> IF activePreset = None THEN None ELSE backend]
  /\ presetReloadPending = FALSE
  /\ generation = 0 /\ pendingTicket = 0 /\ canceled = FALSE
  /\ task = [t \in Tasks |-> Idle]
  /\ policy = Automatic /\ previousPolicy = None
  /\ graphRate = dspRate
  /\ rateTransitioning = FALSE
  /\ streams = "running"
  /\ rateRequest = None /\ rateAnswer = None /\ rateAbandoned = FALSE
  /\ rateSignaled = FALSE
  /\ outputTransitionActive = FALSE
  /\ workload \in Workloads

-----------------------------------------------------------------------------
(* Tickets (preparation_generation.h). *)

Current(ticket) == ticket = generation /\ ~canceled

FinishedUnconditionally(ticket) == 0

FinishedNever(ticket) == pendingTicket

\* The pending marker after a scope with this ticket ends.
Finished(ticket) == IF pendingTicket = ticket THEN 0 ELSE pendingTicket

\* A new intent cancels the older one and becomes the pending one.  A backend
\* switch captures the recipe at once, the others read it after the await.  The
\* ticket of a caller that has gone away is canceled from the start.
Begin(t, kind, candidate, gone) ==
  /\ generation' = generation + 1
  /\ pendingTicket' = generation + 1
  /\ canceled' = gone
  /\ task' = [task EXCEPT ![t] =
                [pc |-> IF kind = "backend" THEN "building" ELSE "reading",
                 kind |-> kind, ticket |-> generation + 1, candidate |-> candidate]]

\* The task leaves its scope.
End(t) ==
  /\ task' = [task EXCEPT ![t] = Idle]
  /\ pendingTicket' = Finished(task[t].ticket)
  /\ UNCHANGED <<generation, canceled>>

Preparing(t) == task[t].pc \in {"reading", "building", "built", "failed"}

-----------------------------------------------------------------------------
(* Automatic reloads: activatePreset with automaticReload. *)

ReloadDeferredUnlessPending == rateTransitioning \/ outputTransitionActive

ReloadDeferred == rateTransitioning \/ outputTransitionActive \/ pendingTicket # 0

ActiveRecipe == [preset |-> activePreset, version |-> 0,
                 backend |-> backend, rate |-> dspRate]

\* The inotify descriptor is readable: consume, then reload or remember to.
HandlePresetFileMonitorEvent ==
  /\ task[Monitor].pc = "idle"
  /\ event
  /\ event' = FALSE
  /\ \/ /\ activePreset = None
        /\ UNCHANGED <<presetReloadPending, ticketVars, task>>
     \/ /\ activePreset # None /\ ReloadDeferred
        /\ presetReloadPending' = TRUE
        /\ UNCHANGED <<ticketVars, task>>
     \/ /\ activePreset # None /\ ~ReloadDeferred
        /\ Begin(Monitor, "reload", ActiveRecipe, FALSE)
        /\ UNCHANGED presetReloadPending
  /\ UNCHANGED <<file, watched, pipeline, activePreset, backend, rateVars,
                 outputTransitionActive, workload>>

\* publishToSubscribers runs maintainControlStatus only for a subscriber; that
\* is where a reload that was put off is tried again.
MaintainControlStatus ==
  /\ HasSubscriber
  /\ task[Publisher].pc = "idle"
  /\ presetReloadPending
  /\ \/ /\ activePreset = None
        /\ presetReloadPending' = FALSE
        /\ UNCHANGED <<ticketVars, task>>
     \/ /\ activePreset # None /\ ~ReloadDeferred
        /\ Begin(Publisher, "reload", ActiveRecipe, FALSE)
        /\ UNCHANGED presetReloadPending
  /\ UNCHANGED <<fileVars, pipeline, activePreset, backend, rateVars,
                 outputTransitionActive, workload>>

-----------------------------------------------------------------------------
(* Client commands: handleControlRequest. *)

Receive(c, command) ==
  /\ command \in workload.commands
  /\ task[c].pc = "idle"
  /\ workload.commandsLeft > 0
  /\ workload' = [workload EXCEPT !.commandsLeft = @ - 1]
  /\ ~outputTransitionActive

LoadPreset(c, p) ==
  /\ Receive(c, "loadPreset")
  /\ ~rateTransitioning
  /\ Begin(c, "load", [preset |-> p, version |-> 0, backend |-> backend, rate |-> dspRate], FALSE)
  /\ UNCHANGED <<fileVars, configVars, rateVars, outputTransitionActive>>

IntentOnlyWithRebuild == UNCHANGED ticketVars

\* The scope of a command that prepares nothing begins and ends at once; it
\* cancels what others prepare all the same.
IntentWithoutRebuild ==
  /\ generation' = generation + 1
  /\ pendingTicket' = 0
  /\ canceled' = FALSE

\* A backend that differs rebuilds a preset pipeline; otherwise the choice is
\* recorded at once.
SetDspBackend(c, b) ==
  /\ Receive(c, "setDspBackend")
  /\ ~rateTransitioning
  /\ \/ /\ b # backend /\ pipeline.backend # None
        /\ Begin(c, "backend", [pipeline EXCEPT !.backend = b, !.rate = dspRate], FALSE)
        /\ UNCHANGED backend
     \/ /\ b = backend \/ pipeline.backend = None
        /\ backend' = b
        /\ IntentWithoutRebuild
        /\ UNCHANGED task
  /\ UNCHANGED <<fileVars, pipeline, activePreset, presetReloadPending, rateVars,
                 outputTransitionActive>>

\* Bypass needs no preparation: it invalidates whatever is being prepared.
Bypass(c) ==
  /\ Receive(c, "bypass")
  /\ ~rateTransitioning
  /\ generation' = generation + 1
  /\ pendingTicket' = 0
  /\ canceled' = TRUE
  /\ pipeline' = [Nothing EXCEPT !.rate = dspRate]
  /\ activePreset' = None
  /\ presetReloadPending' = FALSE
  /\ watched' = None
  /\ event' = FALSE
  /\ UNCHANGED <<file, backend, task, rateVars, outputTransitionActive>>

\* requestLiveRateChange: one request at a time, answered by the main loop.
SetRate(c, r) ==
  /\ Receive(c, "setRate")
  /\ rateRequest = None
  /\ rateRequest' = r
  /\ rateSignaled' = TRUE
  /\ task' = [task EXCEPT ![c] = [Idle EXCEPT !.pc = "waiting", !.kind = "rate"]]
  /\ UNCHANGED <<fileVars, configVars, ticketVars, policy, previousPolicy, dspRate,
                 graphRate, rateTransitioning, streams, rateAnswer, rateAbandoned,
                 outputTransitionActive>>

\* The answer is in; after a change a reload that was put off is tried again.
RateAnswered(c) ==
  /\ task[c].pc = "waiting"
  /\ rateAnswer # None
  /\ rateRequest' = None
  /\ rateAnswer' = None
  /\ rateAbandoned' = FALSE
  /\ LET retry == rateAnswer = "ok" /\ presetReloadPending
     IN \/ /\ retry /\ activePreset # None /\ ~ReloadDeferred
           /\ Begin(c, "reload", ActiveRecipe, rateAbandoned)
           /\ UNCHANGED presetReloadPending
        \/ /\ ~(retry /\ activePreset # None /\ ~ReloadDeferred)
           /\ presetReloadPending' = (presetReloadPending /\ ~(retry /\ activePreset = None))
           /\ task' = [task EXCEPT ![c] = Idle]
           /\ UNCHANGED ticketVars
  /\ UNCHANGED <<fileVars, pipeline, activePreset, backend, policy, previousPolicy,
                 dspRate, graphRate, rateTransitioning, streams, rateSignaled,
                 outputTransitionActive, workload>>

\* A card-profile stage of setOutput holds the transition flag for a while.
SetOutput(c) ==
  /\ Receive(c, "setOutput")
  /\ outputTransitionActive' = TRUE
  /\ UNCHANGED <<fileVars, configVars, ticketVars, task, rateVars>>

OutputTransitionEnds ==
  /\ outputTransitionActive
  /\ outputTransitionActive' = FALSE
  /\ UNCHANGED <<fileVars, configVars, ticketVars, task, rateVars, workload>>

\* A client that goes away cancels the preparation it asked for, on the main
\* loop also the one that is yet to begin.
Disconnect(c) ==
  /\ \/ /\ Preparing(c) /\ Current(task[c].ticket)
        /\ canceled' = TRUE
        /\ UNCHANGED rateAbandoned
     \/ /\ task[c].pc = "waiting" /\ rateAnswer = None /\ ~rateAbandoned
        /\ rateAbandoned' = TRUE
        /\ canceled' = (canceled \/ (Preparing(MainLoop) /\ Current(task[MainLoop].ticket)))
  /\ UNCHANGED <<fileVars, configVars, generation, pendingTicket, task, policy,
                 previousPolicy, dspRate, graphRate, rateTransitioning, streams,
                 rateRequest, rateAnswer, rateSignaled, outputTransitionActive, workload>>

-----------------------------------------------------------------------------
(* Preparation: loadDspPipelineAsync and rebuildDspPipelineAsync. *)

\* The preset file is read once, or the running recipe captured.
ReadRecipe(t) ==
  /\ task[t].pc = "reading"
  /\ LET recipe == task[t].candidate
         preset == IF task[t].kind = "rate" THEN pipeline.preset ELSE recipe.preset
     IN task' = [task EXCEPT
          ![t].pc = "building",
          ![t].candidate =
            [preset |-> preset,
             version |-> IF task[t].kind = "rate" THEN pipeline.version ELSE file[preset],
             backend |-> IF task[t].kind = "rate" THEN pipeline.backend ELSE recipe.backend,
             rate |-> recipe.rate]]
  /\ UNCHANGED <<fileVars, configVars, ticketVars, rateVars,
                 outputTransitionActive, workload>>

\* A load compares the file with what it read before it returns; a rebuild may
\* fail for want of an asset.
VerifyRecipe(t) ==
  /\ task[t].pc = "building"
  /\ LET recipe == task[t].candidate
         loads == task[t].kind \in {"load", "reload"}
     IN \/ /\ loads => recipe.version \notin BadVersions /\ file[recipe.preset] = recipe.version
           /\ task' = [task EXCEPT ![t].pc = "built"]
        \/ /\ loads => ~(recipe.version \notin BadVersions /\ file[recipe.preset] = recipe.version)
           /\ recipe.preset # None
           /\ task' = [task EXCEPT ![t].pc = "failed"]
  /\ UNCHANGED <<fileVars, configVars, ticketVars, rateVars,
                 outputTransitionActive, workload>>

-----------------------------------------------------------------------------
(* Publication on the control thread. *)

EventKeptUnlessRearmed(p) == FALSE

\* setPaths: an unread event counts only for a watch that stays.
EventKept(p) == event /\ watched = p

PublishPreset(t) ==
  /\ task[t].kind \in {"load", "reload"}
  /\ task[t].pc = "built" /\ Current(task[t].ticket)
  /\ pipeline' = task[t].candidate
  /\ activePreset' = task[t].candidate.preset
  /\ presetReloadPending' = FALSE
  /\ watched' = task[t].candidate.preset
  /\ event' = EventKept(task[t].candidate.preset)
  /\ End(t)
  /\ UNCHANGED <<file, backend, rateVars, outputTransitionActive, workload>>

\* A reload that failed is over; an explicit load changes nothing.
FailPreset(t) ==
  /\ task[t].kind \in {"load", "reload"}
  /\ task[t].pc = "failed" /\ Current(task[t].ticket)
  /\ presetReloadPending' = (presetReloadPending /\ task[t].kind = "load")
  /\ End(t)
  /\ UNCHANGED <<fileVars, pipeline, activePreset, backend, rateVars,
                 outputTransitionActive, workload>>

PublishBackend(t) ==
  /\ task[t].kind = "backend"
  /\ task[t].pc = "built" /\ Current(task[t].ticket)
  /\ pipeline' = task[t].candidate
  /\ backend' = task[t].candidate.backend
  /\ End(t)
  /\ UNCHANGED <<fileVars, activePreset, presetReloadPending, rateVars,
                 outputTransitionActive, workload>>

FailBackend(t) ==
  /\ task[t].kind = "backend"
  /\ task[t].pc = "failed" /\ Current(task[t].ticket)
  /\ End(t)
  /\ UNCHANGED <<fileVars, configVars, rateVars, outputTransitionActive, workload>>

\* Superseded or canceled: the exception leaves the scope and changes nothing.
Canceled(t) ==
  /\ t # MainLoop
  /\ Preparing(t) /\ ~Current(task[t].ticket)
  /\ End(t)
  /\ UNCHANGED <<fileVars, configVars, rateVars, outputTransitionActive, workload>>

-----------------------------------------------------------------------------
(* Rate changes on the main loop. *)

Unanswered == rateRequest # None /\ rateAnswer = None

AnswerSuccessOnly(result) ==
  rateAnswer' = IF Unanswered /\ result = "ok" THEN result ELSE rateAnswer

\* completePendingRateRequest.
Answer(result) == rateAnswer' = IF Unanswered THEN result ELSE rateAnswer

RebuildAt(r) == Begin(MainLoop, "rate", [Nothing EXCEPT !.rate = r], rateAbandoned)

\* Streams that are yet to negotiate have no rate to differ from.
RequestedRateIsInEffect ==
  /\ rateRequest = policy
  /\ rateRequest = Automatic => streams = "restarted" \/ graphRate = dspRate

\* The loop dispatches the signal of SetRate: rateChangeRequested.
RateChangeRequested ==
  /\ task[MainLoop].pc = "idle"
  /\ rateSignaled
  /\ rateSignaled' = FALSE
  /\ \/ /\ ~Unanswered
        /\ UNCHANGED <<policy, previousPolicy, rateTransitioning, streams,
                       rateAnswer, ticketVars, task>>
     \/ /\ Unanswered /\ RequestedRateIsInEffect
        /\ Answer("ok")
        /\ UNCHANGED <<policy, previousPolicy, rateTransitioning, streams,
                       ticketVars, task>>
     \/ /\ Unanswered /\ ~RequestedRateIsInEffect
        /\ policy' = rateRequest
        /\ rateTransitioning' = TRUE
        /\ \/ /\ rateRequest \notin {Automatic, dspRate}
              /\ previousPolicy' = policy
              /\ RebuildAt(rateRequest)
              /\ UNCHANGED streams
           \/ /\ rateRequest \in {Automatic, dspRate}
              /\ streams' = "restarted"
              /\ UNCHANGED <<previousPolicy, ticketVars, task>>
        /\ UNCHANGED rateAnswer
  /\ UNCHANGED <<fileVars, configVars, dspRate, graphRate, rateRequest,
                 rateAbandoned, outputTransitionActive, workload>>

\* resolveSampleRateBridgeRates: the DSP rate for streams that run at g.
TargetRate(g) == IF policy = Automatic THEN g ELSE policy

\* The streams come up, or the graph moves them: applyNegotiatedStreamRate.
Negotiate(g) ==
  /\ task[MainLoop].pc = "idle"
  /\ \/ streams = "restarted" /\ UNCHANGED workload
     \/ /\ streams = "running" /\ policy = Automatic /\ g # graphRate
        /\ workload.graphChangesLeft > 0
        /\ workload' = [workload EXCEPT !.graphChangesLeft = @ - 1]
  /\ graphRate' = g
  /\ streams' = "settling"
  /\ \/ /\ TargetRate(g) # dspRate
        /\ rateTransitioning' = TRUE
        /\ RebuildAt(TargetRate(g))
     \/ /\ TargetRate(g) = dspRate
        /\ UNCHANGED <<rateTransitioning, ticketVars, task>>
  /\ UNCHANGED <<fileVars, configVars, policy, previousPolicy, dspRate, rateRequest,
                 rateAnswer, rateAbandoned, rateSignaled, outputTransitionActive>>

PublishRate ==
  /\ task[MainLoop].pc = "built" /\ Current(task[MainLoop].ticket)
  /\ pipeline' = task[MainLoop].candidate
  /\ dspRate' = task[MainLoop].candidate.rate
  /\ streams' = IF previousPolicy = None THEN streams ELSE "restarted"
  /\ previousPolicy' = None
  /\ End(MainLoop)
  /\ UNCHANGED <<fileVars, activePreset, presetReloadPending, backend, policy,
                 graphRate, rateTransitioning, rateRequest, rateAnswer, rateAbandoned,
                 rateSignaled, outputTransitionActive, workload>>

\* A requested rate is taken back; a negotiated one is bridged.
FailRate ==
  /\ \/ task[MainLoop].pc = "failed"
     \/ Preparing(MainLoop) /\ ~Current(task[MainLoop].ticket)
  /\ \/ /\ previousPolicy # None
        /\ policy' = previousPolicy
        /\ rateTransitioning' = FALSE
     \/ /\ previousPolicy = None
        /\ UNCHANGED <<policy, rateTransitioning>>
  /\ previousPolicy' = None
  /\ Answer("error")
  /\ End(MainLoop)
  /\ UNCHANGED <<fileVars, configVars, dspRate, graphRate, streams, rateRequest, rateAbandoned,
                 rateSignaled, outputTransitionActive, workload>>

FinishReadinessCheck ==
  /\ task[MainLoop].pc = "idle"
  /\ streams = "settling"
  /\ streams' = "running"
  /\ rateTransitioning' = FALSE
  /\ IF rateTransitioning THEN Answer("ok") ELSE UNCHANGED rateAnswer
  /\ UNCHANGED <<fileVars, configVars, ticketVars, task, policy, previousPolicy,
                 dspRate, graphRate, rateRequest, rateAbandoned, rateSignaled,
                 outputTransitionActive, workload>>

-----------------------------------------------------------------------------
\* Somebody saves a preset file.
EditFile(p) ==
  /\ file[p] < workload.edits
  /\ file' = [file EXCEPT ![p] = @ + 1]
  /\ event' = (event \/ watched = p)
  /\ UNCHANGED <<watched, configVars, ticketVars, task, rateVars,
                 outputTransitionActive, workload>>

Prepare(t) == ReadRecipe(t) \/ VerifyRecipe(t)

Resume(t) ==
  \/ PublishPreset(t) \/ FailPreset(t)
  \/ PublishBackend(t) \/ FailBackend(t)
  \/ Canceled(t)

\* What the loop does by itself once it is dispatched.
MainLoopStep == RateChangeRequested \/ PublishRate \/ FailRate

Next ==
  \/ \E p \in Presets : EditFile(p)
  \/ HandlePresetFileMonitorEvent
  \/ MaintainControlStatus
  \/ \E c \in Clients :
       \/ \E p \in Presets : LoadPreset(c, p)
       \/ \E b \in Backends : SetDspBackend(c, b)
       \/ \E r \in Rates \cup {Automatic} : SetRate(c, r)
       \/ Bypass(c) \/ SetOutput(c) \/ RateAnswered(c) \/ Disconnect(c)
  \/ OutputTransitionEnds
  \/ \E t \in Tasks : Prepare(t) \/ Resume(t)
  \/ MainLoopStep
  \/ FinishReadinessCheck
  \/ \E g \in Rates : Negotiate(g)

Spec == Init /\ [][Next]_vars

\* Both event loops keep dispatching what is ready and no await lasts for ever;
\* edits, commands and graph changes need not happen.  Nor need streams negotiate
\* or become ready: that is PipeWire's, and no timer waits for it.
ControlFairness ==
  /\ WF_vars(HandlePresetFileMonitorEvent)
  /\ WF_vars(MaintainControlStatus)
  /\ WF_vars(OutputTransitionEnds)
  /\ WF_vars(MainLoopStep)
  /\ \A c \in Clients : WF_vars(RateAnswered(c))
  /\ \A t \in Tasks : WF_vars(Prepare(t)) /\ WF_vars(Resume(t))

FairSpec == Spec /\ ControlFairness

-----------------------------------------------------------------------------
(* Properties *)

\* The running pipeline is the one the reported configuration describes: the
\* active preset, the effective backend and the DSP rate.  A candidate that was
\* prepared under an older configuration is never published over a newer one.
PipelineMatchesConfiguration ==
  /\ pipeline.preset = activePreset
  /\ pipeline.backend = IF activePreset = None THEN None ELSE backend
  /\ pipeline.rate = dspRate

\* The pending marker is set exactly as long as a candidate that can still be
\* published is prepared: a marker that outlives its task would defer every
\* automatic reload for ever, one cleared early would let a reload cancel it.
PendingMarkerHasOwner ==
  /\ pendingTicket # 0 => \E t \in Tasks : Preparing(t) /\ task[t].ticket = pendingTicket
  /\ \A t \in Tasks : Preparing(t) /\ Current(task[t].ticket) =>
       pendingTicket = task[t].ticket

\* An automatic reload never takes a preparation away from anybody else.
ReloadSupersedesNobody ==
  [][\A t \in Tasks :
       Preparing(t) /\ Current(task[t].ticket) /\ generation' # generation =>
         \A r \in Tasks : task'[r].kind = "reload" => task'[r] = task[r]]_vars

\* An edit of the file in use is loaded, unless it does not load or the file or
\* the choice changes again ("An in-place edit or atomic replacement is loaded
\* automatically").
EditIsLoaded ==
  \A p \in Presets, v \in (1 .. MaxVersion) \ BadVersions :
    activePreset = p /\ file[p] = v ~>
      activePreset # p \/ file[p] # v \/ pipeline.version = v

\* As long as nothing but bypass competes with its reload, that holds, although
\* the file may change again or may not load for a while.
LoneEditIsLoaded ==
  \A p \in Presets, v \in (1 .. MaxVersion) \ BadVersions :
    []<>(workload.commands \subseteq {"bypass"} /\ activePreset = p /\ file[p] = v =>
           pipeline.version = v)

\* As long as the streams always come back, a deferred reload is attempted once
\* its reason to wait is gone.
DeferredReloadIsRetried ==
  []<>(streams = "running") => []<>~presetReloadPending

\* A rate request that is granted is in effect: the policy is the requested one.
GrantedRateIsApplied == rateAnswer = "ok" => policy = rateRequest

\* As long as the streams always come back, every rate request is answered.  With
\* streams that never negotiate it waits for ever: a rate transition has no timeout
\* and survives an error of the output stream (streamStateChanged).
RateRequestIsAnswered ==
  []<>(streams = "running") => []<>(rateRequest = None)
=============================================================================
