------------------------- MODULE PresetControlProofs -------------------------
(***************************************************************************)
(* The control plane never publishes a candidate for a configuration that  *)
(* is no longer there, for any presets, backends, rates and clients.  A    *)
(* candidate is prepared without the mutex while others change what it was *)
(* made for, so the property is not inductive: the invariant says of each  *)
(* task what its candidate has to do with the configuration as long as its *)
(* ticket is current (TaskIsSound).                                        *)
(***************************************************************************)
EXTENDS PresetControl, TLAPS

\* What a candidate is, whether its ticket is current or not.
WellFormed(t) ==
  /\ task[t].ticket \in 1 .. generation
  /\ t = MainLoop => task[t].kind = "rate"
  /\ t # MainLoop => task[t].kind \in {"load", "reload", "backend"}
  /\ task[t].candidate.rate \in Rates
  /\ task[t].kind # "rate" => /\ task[t].candidate.preset \in Presets
                              /\ task[t].candidate.backend \in Backends

\* What the candidate has to do with the configuration it will replace: a load
\* brings its own preset, a backend switch its backend and a rate change its rate.
\* A rate change that still reads has captured nothing.
MadeForThis(t) ==
  /\ task[t].kind \in {"load", "reload"} =>
       task[t].candidate.backend = backend /\ task[t].candidate.rate = dspRate
  /\ task[t].kind = "backend" =>
       task[t].candidate.preset = activePreset /\ task[t].candidate.rate = dspRate
  /\ task[t].kind = "rate" /\ task[t].pc # "reading" =>
       /\ task[t].candidate.preset = pipeline.preset
       /\ task[t].candidate.backend = pipeline.backend

TaskIsSound(t) ==
  Preparing(t) => WellFormed(t) /\ (Current(task[t].ticket) => MadeForThis(t))

OneTicketEach ==
  \A t, u \in Tasks :
    Preparing(t) /\ Preparing(u) /\ task[t].ticket = task[u].ticket => t = u

ControlInv ==
  /\ PipelineMatchesConfiguration
  /\ PendingMarkerHasOwner
  /\ OneTicketEach
  /\ \A t \in Tasks : TaskIsSound(t)

-----------------------------------------------------------------------------
(* Types: one part for the files, the configuration, the tickets, the rates *)

FilesOK ==
  /\ file \in [Presets -> 0 .. MaxVersion]
  /\ watched \in Presets \cup {None}
  /\ event \in BOOLEAN

ConfigOK ==
  /\ pipeline \in Pipelines
  /\ activePreset \in Presets \cup {None}
  /\ presetReloadPending \in BOOLEAN
  /\ backend \in Backends

TaskStates ==
  [pc : {"idle", "reading", "building", "built", "failed", "waiting"},
   kind : {"none", "load", "reload", "backend", "rate"},
   ticket : 0 .. generation, candidate : Pipelines]

TicketsOK ==
  /\ generation \in Nat /\ pendingTicket \in 0 .. generation
  /\ canceled \in BOOLEAN
  /\ task \in [Tasks -> TaskStates]

RatesOK ==
  /\ policy \in Rates \cup {Automatic}
  /\ previousPolicy \in Rates \cup {Automatic, None}
  /\ dspRate \in Rates /\ graphRate \in Rates
  /\ rateTransitioning \in BOOLEAN
  /\ streams \in {"running", "restarted", "settling"}
  /\ rateRequest \in Rates \cup {Automatic, None}
  /\ rateAnswer \in {None, "ok", "error"}
  /\ rateAbandoned \in BOOLEAN /\ rateSignaled \in BOOLEAN

FlagsOK == outputTransitionActive \in BOOLEAN /\ workload \in AllWorkloads

LEMMA TypeParts == TypeOK <=> FilesOK /\ ConfigOK /\ TicketsOK /\ RatesOK /\ FlagsOK
BY DEF TypeOK, FilesOK, ConfigOK, TicketsOK, TaskStates, RatesOK, FlagsOK

LEMMA NextTypeParts ==
  FilesOK' /\ ConfigOK' /\ TicketsOK' /\ RatesOK' /\ FlagsOK' => TypeOK'
BY DEF TypeOK, FilesOK, ConfigOK, TicketsOK, TaskStates, RatesOK, FlagsOK

LEMMA Unchanged ==
  /\ FilesOK /\ UNCHANGED fileVars => FilesOK'
  /\ ConfigOK /\ UNCHANGED configVars => ConfigOK'
  /\ TicketsOK /\ UNCHANGED <<ticketVars, task>> => TicketsOK'
  /\ RatesOK /\ UNCHANGED rateVars => RatesOK'
  /\ FlagsOK /\ UNCHANGED <<outputTransitionActive, workload>> => FlagsOK'
BY DEF fileVars, configVars, ticketVars, rateVars, FilesOK, ConfigOK, TicketsOK, TaskStates,
       RatesOK, FlagsOK

LEMMA NoneIsNoChoice ==
  /\ \A p \in Presets : p # None
  /\ \A b \in Backends : b # None
BY ControlAssumption DEF ControlAssumption

LEMMA TasksAre ==
  /\ Clients \subseteq Tasks
  /\ Monitor \in Tasks /\ Publisher \in Tasks /\ MainLoop \in Tasks
  /\ Monitor # MainLoop /\ Publisher # MainLoop /\ MainLoop \notin Clients
BY ControlAssumption DEF ControlAssumption, Tasks

LEMMA IdleType == ASSUME TicketsOK PROVE Idle \in TaskStates
BY ControlAssumption DEF ControlAssumption, TicketsOK, TaskStates, Idle, Nothing, Pipelines

LEMMA EndType ==
  ASSUME TicketsOK, NEW t \in Tasks, End(t)
  PROVE  TicketsOK'
<1>1. pendingTicket' \in 0 .. generation
  BY DEF TicketsOK, End, Finished
<1>2. TaskStates' = TaskStates
  BY DEF End, TaskStates
<1>3. task' \in [Tasks -> TaskStates]
  BY IdleType DEF TicketsOK, End
<1> QED
  BY <1>1, <1>2, <1>3 DEF TicketsOK, End

LEMMA BeginType ==
  ASSUME TicketsOK, NEW t \in Tasks, NEW candidate \in Pipelines,
         NEW kind \in {"load", "reload", "backend", "rate"}, NEW gone \in BOOLEAN,
         Begin(t, kind, candidate, gone)
  PROVE  TicketsOK'
<1>1. generation' = generation + 1 /\ pendingTicket' = generation + 1 /\ canceled' = gone
  BY DEF Begin
<1>2. 0 .. generation \subseteq 0 .. generation' /\ generation + 1 \in 0 .. generation'
  BY <1>1 DEF TicketsOK
<1>3. [pc |-> IF kind = "backend" THEN "building" ELSE "reading",
       kind |-> kind, ticket |-> generation + 1, candidate |-> candidate] \in TaskStates'
  BY <1>2 DEF TaskStates, Pipelines
<1>4. TaskStates \subseteq TaskStates'
  BY <1>2 DEF TaskStates, Pipelines
<1>5. task' \in [Tasks -> TaskStates']
  BY <1>3, <1>4 DEF TicketsOK, Begin
<1> QED
  BY <1>1, <1>2, <1>5 DEF TicketsOK

\* Tickets that move without a preparation.
LEMMA IntentType ==
  ASSUME TicketsOK, generation' = generation + 1, pendingTicket' = 0,
         canceled' \in BOOLEAN, UNCHANGED task
  PROVE  TicketsOK'
<1>1. 0 .. generation \subseteq 0 .. generation' /\ 0 \in 0 .. generation'
  BY DEF TicketsOK
<1>2. TaskStates \subseteq TaskStates'
  BY <1>1 DEF TaskStates, Pipelines
<1> QED
  BY <1>1, <1>2 DEF TicketsOK

LEMMA RecipeType ==
  ASSUME TypeOK, NEW p \in Presets
  PROVE  [preset |-> p, version |-> 0, backend |-> backend, rate |-> dspRate] \in Pipelines
BY ControlAssumption DEF ControlAssumption, TypeOK, Pipelines

LEMMA NothingType ==
  /\ Nothing \in Pipelines
  /\ \A r \in Rates : [Nothing EXCEPT !.rate = r] \in Pipelines
BY ControlAssumption DEF ControlAssumption, Nothing, Pipelines

LEMMA ReceiveType ==
  ASSUME TypeOK, NEW c \in Clients, NEW command, Receive(c, command)
  PROVE  workload' \in AllWorkloads
BY DEF TypeOK, Receive, AllWorkloads

LEMMA ReloadType ==
  ASSUME TypeOK, NEW t \in Tasks, NEW gone \in BOOLEAN, activePreset # None,
         Begin(t, "reload", ActiveRecipe, gone)
  PROVE  TicketsOK'
<1>1. ActiveRecipe \in Pipelines
  BY RecipeType DEF ActiveRecipe, TypeOK
<1> QED
  BY <1>1, TypeParts, BeginType

LEMMA RebuildType ==
  ASSUME TypeOK, NEW r \in Rates, RebuildAt(r)
  PROVE  TicketsOK'
<1>1. rateAbandoned \in BOOLEAN
  BY DEF TypeOK
<1> QED
  BY <1>1, TypeParts, BeginType, NothingType, TasksAre DEF RebuildAt

LEMMA ReadType ==
  ASSUME TypeOK, NEW t \in Tasks, TaskIsSound(t), ReadRecipe(t)
  PROVE  TicketsOK'
<1> DEFINE preset == IF task[t].kind = "rate" THEN pipeline.preset ELSE task[t].candidate.preset
           recipe == [preset |-> preset,
                      version |-> IF task[t].kind = "rate" THEN pipeline.version
                                                           ELSE file[preset],
                      backend |-> IF task[t].kind = "rate" THEN pipeline.backend
                                                           ELSE task[t].candidate.backend,
                      rate |-> task[t].candidate.rate]
<1>0. TicketsOK
  BY TypeParts
<1>1. task[t] \in TaskStates
  BY <1>0 DEF TicketsOK
<1>2. task[t].kind # "rate" => task[t].candidate.preset \in Presets
  BY DEF ReadRecipe, TaskIsSound, WellFormed, Preparing
<1>3. recipe \in Pipelines
  BY <1>1, <1>2 DEF TypeOK, TaskStates, Pipelines
<1>4. task' = [task EXCEPT ![t] = [task[t] EXCEPT !.pc = "building", !.candidate = recipe]]
  BY <1>0, <1>1 DEF ReadRecipe, TicketsOK
<1> HIDE DEF recipe
<1>5. [task[t] EXCEPT !.pc = "building", !.candidate = recipe] \in TaskStates
  BY <1>1, <1>3 DEF TaskStates
<1>6. TaskStates' = TaskStates /\ UNCHANGED ticketVars
  BY DEF ReadRecipe, TaskStates, ticketVars
<1> QED
  BY <1>0, <1>4, <1>5, <1>6 DEF TicketsOK, ticketVars

LEMMA TypeStep == TypeOK /\ (\A t \in Tasks : TaskIsSound(t)) /\ [Next]_vars => TypeOK'
<1> SUFFICES ASSUME TypeOK, \A t \in Tasks : TaskIsSound(t), [Next]_vars
             PROVE  TypeOK'
  OBVIOUS
<1> DEFINE Keeps == TypeOK'
<1>0. FilesOK /\ ConfigOK /\ TicketsOK /\ RatesOK /\ FlagsOK
  BY TypeParts
<1> USE Unchanged
<1>1. ASSUME NEW p \in Presets, EditFile(p)
      PROVE  Keeps
  <2>1. file[p] + 1 \in 0 .. MaxVersion
    BY <1>1, ControlAssumption DEF EditFile, AllWorkloads, ControlAssumption, TypeOK
  <2>2. FilesOK'
    BY <1>0, <1>1, <2>1 DEF EditFile, FilesOK
  <2> QED
    BY <1>0, <1>1, <2>2, NextTypeParts DEF EditFile
<1>2. ASSUME HandlePresetFileMonitorEvent
      PROVE  Keeps
  <2>1. TicketsOK'
    BY <1>0, <1>2, ReloadType, TasksAre DEF HandlePresetFileMonitorEvent
  <2>2. FilesOK' /\ ConfigOK'
    BY <1>0, <1>2 DEF HandlePresetFileMonitorEvent, FilesOK, ConfigOK
  <2> QED
    BY <1>0, <1>2, <2>1, <2>2, NextTypeParts DEF HandlePresetFileMonitorEvent
<1>3. ASSUME MaintainControlStatus
      PROVE  Keeps
  <2>1. TicketsOK'
    BY <1>0, <1>3, ReloadType, TasksAre DEF MaintainControlStatus
  <2>2. ConfigOK'
    BY <1>0, <1>3 DEF MaintainControlStatus, ConfigOK
  <2> QED
    BY <1>0, <1>3, <2>1, <2>2, NextTypeParts DEF MaintainControlStatus
<1>4. ASSUME NEW c \in Clients, NEW p \in Presets, LoadPreset(c, p)
      PROVE  Keeps
  <2>1. TicketsOK'
    BY <1>0, <1>4, RecipeType, BeginType, TasksAre DEF LoadPreset
  <2>2. FlagsOK'
    BY <1>0, <1>4, ReceiveType DEF LoadPreset, FlagsOK
  <2> QED
    BY <1>0, <1>4, <2>1, <2>2, NextTypeParts DEF LoadPreset
<1>5. ASSUME NEW c \in Clients, NEW b \in Backends, SetDspBackend(c, b)
      PROVE  Keeps
  <2>1. [pipeline EXCEPT !.backend = b, !.rate = dspRate] \in Pipelines
    BY DEF TypeOK, Pipelines
  <2>2. TicketsOK'
    <3>1. CASE Begin(c, "backend", [pipeline EXCEPT !.backend = b, !.rate = dspRate], FALSE)
      BY <1>0, <2>1, <3>1, BeginType, TasksAre
    <3>2. CASE IntentWithoutRebuild /\ UNCHANGED task
      BY <1>0, <3>2, IntentType DEF IntentWithoutRebuild
    <3> QED
      BY <1>5, <3>1, <3>2 DEF SetDspBackend
  <2>3. ConfigOK'
    BY <1>0, <1>5 DEF SetDspBackend, ConfigOK
  <2>4. FlagsOK'
    BY <1>0, <1>5, ReceiveType DEF SetDspBackend, FlagsOK
  <2> QED
    BY <1>0, <1>5, <2>2, <2>3, <2>4, NextTypeParts DEF SetDspBackend
<1>6. ASSUME NEW c \in Clients, Bypass(c)
      PROVE  Keeps
  <2>1. TicketsOK'
    BY <1>0, <1>6, IntentType DEF Bypass
  <2>2. FilesOK' /\ ConfigOK'
    BY <1>0, <1>6, NothingType DEF Bypass, FilesOK, ConfigOK, RatesOK
  <2>3. FlagsOK'
    BY <1>0, <1>6, ReceiveType DEF Bypass, FlagsOK
  <2> QED
    BY <1>0, <1>6, <2>1, <2>2, <2>3, NextTypeParts DEF Bypass
<1>7. ASSUME NEW c \in Clients, NEW r \in Rates \cup {Automatic}, SetRate(c, r)
      PROVE  Keeps
  <2>1. TicketsOK'
    <3>1. [Idle EXCEPT !.pc = "waiting", !.kind = "rate"] \in TaskStates
      BY <1>0, IdleType DEF TaskStates, Idle
    <3>2. TaskStates' = TaskStates
      BY <1>7 DEF SetRate, TaskStates, ticketVars
    <3> QED
      BY <1>0, <1>7, <3>1, <3>2 DEF SetRate, TicketsOK, ticketVars
  <2>2. RatesOK'
    BY <1>0, <1>7 DEF SetRate, RatesOK
  <2>3. FlagsOK'
    BY <1>0, <1>7, ReceiveType DEF SetRate, FlagsOK
  <2> QED
    BY <1>0, <1>7, <2>1, <2>2, <2>3, NextTypeParts DEF SetRate
<1>8. ASSUME NEW c \in Clients, RateAnswered(c)
      PROVE  Keeps
  <2> DEFINE Retry == /\ rateAnswer = "ok" /\ presetReloadPending
                      /\ activePreset # None /\ ~ReloadDeferred
  <2>1. TicketsOK'
    <3>1. CASE Retry
      <4>1. rateAbandoned \in BOOLEAN /\ c \in Tasks
        BY TasksAre DEF TypeOK
      <4>2. Begin(c, "reload", ActiveRecipe, rateAbandoned)
        BY <1>8, <3>1 DEF RateAnswered
      <4> QED
        BY <3>1, <4>1, <4>2, ReloadType
    <3>2. CASE ~Retry
      <4>1. task' = [task EXCEPT ![c] = Idle] /\ UNCHANGED ticketVars
        BY <1>8, <3>2 DEF RateAnswered
      <4>2. TaskStates' = TaskStates
        BY <4>1 DEF TaskStates, ticketVars
      <4> QED
        BY <1>0, <4>1, <4>2, IdleType DEF TicketsOK, ticketVars
    <3> QED
      BY <3>1, <3>2
  <2>2. ConfigOK' /\ RatesOK'
    BY <1>0, <1>8 DEF RateAnswered, ConfigOK, RatesOK
  <2> QED
    BY <1>0, <1>8, <2>1, <2>2, NextTypeParts DEF RateAnswered
<1>9. ASSUME NEW c \in Clients, SetOutput(c)
      PROVE  Keeps
  <2>1. FlagsOK'
    BY <1>0, <1>9, ReceiveType DEF SetOutput, FlagsOK
  <2> QED
    BY <1>0, <1>9, <2>1, NextTypeParts DEF SetOutput
<1>10. ASSUME OutputTransitionEnds
       PROVE  Keeps
  <2>1. FlagsOK'
    BY <1>0, <1>10 DEF OutputTransitionEnds, FlagsOK
  <2> QED
    BY <1>0, <1>10, <2>1, NextTypeParts DEF OutputTransitionEnds
<1>11. ASSUME NEW c \in Clients, Disconnect(c)
       PROVE  Keeps
  <2>1. TicketsOK'
    <3>1. canceled' \in BOOLEAN
      BY <1>0, <1>11 DEF Disconnect, TicketsOK
    <3>2. TaskStates' = TaskStates
      BY <1>11 DEF Disconnect, TaskStates
    <3> QED
      BY <1>0, <1>11, <3>1, <3>2 DEF Disconnect, TicketsOK
  <2>2. RatesOK'
    BY <1>0, <1>11 DEF Disconnect, RatesOK
  <2> QED
    BY <1>0, <1>11, <2>1, <2>2, NextTypeParts DEF Disconnect
<1>12. ASSUME NEW t \in Tasks, ReadRecipe(t)
       PROVE  Keeps
  BY <1>0, <1>12, ReadType, NextTypeParts DEF ReadRecipe
<1>13. ASSUME NEW t \in Tasks, VerifyRecipe(t)
       PROVE  Keeps
  <2>1. TaskStates' = TaskStates
    BY <1>13 DEF VerifyRecipe, TaskStates, ticketVars
  <2>2. TicketsOK'
    BY <1>0, <1>13, <2>1 DEF VerifyRecipe, TicketsOK, TaskStates, ticketVars
  <2> QED
    BY <1>0, <1>13, <2>2, NextTypeParts DEF VerifyRecipe
<1>14. ASSUME NEW t \in Tasks, PublishPreset(t)
       PROVE  Keeps
  <2>1. TicketsOK'
    BY <1>0, <1>14, EndType DEF PublishPreset
  <2>2. task[t].candidate \in Pipelines /\ task[t].candidate.preset \in Presets \cup {None}
    BY <1>0 DEF TicketsOK, TaskStates, Pipelines
  <2>3. FilesOK' /\ ConfigOK'
    BY <1>0, <1>14, <2>2 DEF PublishPreset, EventKept, FilesOK, ConfigOK
  <2> QED
    BY <1>0, <1>14, <2>1, <2>3, NextTypeParts DEF PublishPreset
<1>15. ASSUME NEW t \in Tasks, FailPreset(t)
       PROVE  Keeps
  <2>1. TicketsOK'
    BY <1>0, <1>15, EndType DEF FailPreset
  <2>2. ConfigOK'
    BY <1>0, <1>15 DEF FailPreset, ConfigOK
  <2> QED
    BY <1>0, <1>15, <2>1, <2>2, NextTypeParts DEF FailPreset
<1>16. ASSUME NEW t \in Tasks, PublishBackend(t)
       PROVE  Keeps
  <2>1. TicketsOK'
    BY <1>0, <1>16, EndType DEF PublishBackend
  <2>2. task[t].candidate \in Pipelines
    BY <1>0 DEF TicketsOK, TaskStates
  <2>3. task[t].candidate.backend \in Backends
    BY <1>16 DEF PublishBackend, TaskIsSound, WellFormed, Preparing
  <2>4. ConfigOK'
    BY <1>0, <1>16, <2>2, <2>3 DEF PublishBackend, ConfigOK
  <2> QED
    BY <1>0, <1>16, <2>1, <2>4, NextTypeParts DEF PublishBackend
<1>17. ASSUME NEW t \in Tasks, FailBackend(t) \/ Canceled(t)
       PROVE  Keeps
  <2>1. TicketsOK'
    BY <1>0, <1>17, EndType DEF FailBackend, Canceled
  <2> QED
    BY <1>0, <1>17, <2>1, NextTypeParts DEF FailBackend, Canceled
<1>18. ASSUME RateChangeRequested
       PROVE  Keeps
  <2>1. TicketsOK'
    <3>1. CASE RebuildAt(rateRequest) /\ rateRequest \in Rates
      BY <3>1, RebuildType
    <3>2. CASE UNCHANGED <<ticketVars, task>>
      BY <1>0, <3>2
    <3>3. Unanswered /\ rateRequest \notin {Automatic, dspRate} => rateRequest \in Rates
      BY <1>0 DEF Unanswered, RatesOK
    <3> QED
      BY <1>18, <3>1, <3>2, <3>3 DEF RateChangeRequested
  <2>2. rateAnswer' \in {None, "ok", "error"}
    BY <1>0, <1>18 DEF RateChangeRequested, Answer, RatesOK
  <2>3. policy' \in Rates \cup {Automatic}
    BY <1>0, <1>18 DEF RateChangeRequested, RatesOK, Unanswered
  <2>4. RatesOK'
    BY <1>0, <1>18, <2>2, <2>3 DEF RateChangeRequested, RatesOK
  <2> QED
    BY <1>0, <1>18, <2>1, <2>4, NextTypeParts DEF RateChangeRequested
<1>19. ASSUME NEW g \in Rates, Negotiate(g)
       PROVE  Keeps
  <2>1. TargetRate(g) \in Rates
    BY <1>0 DEF TargetRate, RatesOK
  <2>2. TicketsOK'
    BY <1>0, <1>19, <2>1, RebuildType DEF Negotiate
  <2>3. RatesOK'
    BY <1>0, <1>19 DEF Negotiate, RatesOK
  <2>4. FlagsOK'
    BY <1>0, <1>19 DEF Negotiate, FlagsOK, AllWorkloads
  <2> QED
    BY <1>0, <1>19, <2>2, <2>3, <2>4, NextTypeParts DEF Negotiate
<1>20. ASSUME PublishRate
       PROVE  Keeps
  <2>1. TicketsOK'
    BY <1>0, <1>20, EndType, TasksAre DEF PublishRate
  <2>2. task[MainLoop].candidate \in Pipelines
    BY <1>0, TasksAre DEF TicketsOK, TaskStates
  <2>3. task[MainLoop].candidate.rate \in Rates
    BY <1>20, TasksAre DEF PublishRate, TaskIsSound, WellFormed, Preparing
  <2>4. ConfigOK' /\ RatesOK'
    BY <1>0, <1>20, <2>2, <2>3 DEF PublishRate, ConfigOK, RatesOK
  <2> QED
    BY <1>0, <1>20, <2>1, <2>4, NextTypeParts DEF PublishRate
<1>21. ASSUME FailRate
       PROVE  Keeps
  <2>1. TicketsOK'
    BY <1>0, <1>21, EndType, TasksAre DEF FailRate
  <2>2. RatesOK'
    BY <1>0, <1>21 DEF FailRate, Answer, RatesOK
  <2> QED
    BY <1>0, <1>21, <2>1, <2>2, NextTypeParts DEF FailRate
<1>22. ASSUME FinishReadinessCheck
       PROVE  Keeps
  <2>1. RatesOK'
    BY <1>0, <1>22 DEF FinishReadinessCheck, Answer, RatesOK
  <2> QED
    BY <1>0, <1>22, <2>1, NextTypeParts DEF FinishReadinessCheck
<1>23. CASE UNCHANGED vars
  BY <1>0, <1>23, NextTypeParts DEF vars
<1>24. graphRate \in Rates
  BY <1>0 DEF RatesOK
<1> HIDE DEF Keeps
<1>25. Next => Keeps
  BY <1>1, <1>2, <1>3, <1>4, <1>5, <1>6, <1>7, <1>8, <1>9, <1>10, <1>11, <1>12, <1>13,
     <1>14, <1>15, <1>16, <1>17, <1>18, <1>19, <1>20, <1>21, <1>22, <1>24, Zenon
  DEF Next, Prepare, Resume, MainLoopStep
<1> QED
  BY <1>23, <1>25 DEF Keeps

-----------------------------------------------------------------------------
(* What a step does to the preparations: begin, supersede, end, leave or     *)
(* advance one of them.                                                     *)

Config == <<pipeline, activePreset, backend, dspRate>>

\* Tickets are what makes a candidate current, and they never come back.
LEMMA NewTicketIsNew ==
  ASSUME TypeOK, ControlInv, NEW t \in Tasks, Preparing(t), generation' = generation + 1,
         task'[t] = task[t]
  PROVE  Preparing(t)' /\ ~Current(task[t].ticket)' /\ task[t].ticket # generation'
<1>1. task[t].ticket \in 1 .. generation
  BY DEF ControlInv, TaskIsSound, WellFormed
<1> QED
  BY <1>1 DEF TypeOK, Preparing, Current

\* The candidate that t begins to prepare is made for what runs after the step.
MadeForNext(t, kind, candidate) ==
  /\ t = MainLoop => kind = "rate"
  /\ t # MainLoop => kind \in {"load", "reload", "backend"}
  /\ candidate.rate \in Rates
  /\ kind # "rate" => candidate.preset \in Presets /\ candidate.backend \in Backends
  /\ kind \in {"load", "reload"} => candidate.backend = backend /\ candidate.rate = dspRate
  /\ kind = "backend" => candidate.preset = activePreset /\ candidate.rate = dspRate

LEMMA BeginKeeps ==
  ASSUME TypeOK, ControlInv, NEW t \in Tasks, NEW kind, NEW candidate, NEW gone \in BOOLEAN,
         ~Preparing(t), Begin(t, kind, candidate, gone), MadeForNext(t, kind, candidate),
         UNCHANGED Config
  PROVE  ControlInv'
<1>1. generation' = generation + 1 /\ pendingTicket' = generation + 1 /\ canceled' = gone
  BY DEF Begin
<1>2. task'[t] = [pc |-> IF kind = "backend" THEN "building" ELSE "reading",
                  kind |-> kind, ticket |-> generation + 1, candidate |-> candidate]
  BY DEF Begin, TypeOK
<1>3. \A u \in Tasks : u # t => task'[u] = task[u]
  BY DEF Begin, TypeOK
<1>4. Preparing(t)' /\ task'[t].ticket = generation'
  BY <1>1, <1>2 DEF Preparing
<1>5. \A u \in Tasks : u # t /\ Preparing(u)' =>
        ~Current(task[u].ticket)' /\ task[u].ticket # generation' /\ Preparing(u)
  BY <1>1, <1>3, NewTicketIsNew DEF Preparing
<1>6. PipelineMatchesConfiguration'
  BY DEF ControlInv, PipelineMatchesConfiguration, Config
<1>7. PendingMarkerHasOwner'
  <2>1. \A u \in Tasks : Preparing(u)' /\ Current(task[u].ticket)' => pendingTicket' = task'[u].ticket
    BY <1>1, <1>3, <1>4, <1>5
  <2> QED
    BY <1>1, <1>3, <1>4, <1>5 DEF PendingMarkerHasOwner
<1>8. OneTicketEach'
  BY <1>1, <1>3, <1>4, <1>5 DEF ControlInv, OneTicketEach
<1>9. ASSUME NEW u \in Tasks PROVE TaskIsSound(u)'
  <2>1. CASE u = t
    <3>1. generation + 1 \in 1 .. generation'
      BY <1>1 DEF TypeOK
    <3>2. WellFormed(t)'
      BY <1>2, <3>1 DEF WellFormed, MadeForNext
    <3>3. MadeForThis(t)'
      BY <1>2 DEF MadeForThis, MadeForNext, Config
    <3> QED
      BY <2>1, <3>2, <3>3 DEF TaskIsSound
  <2>2. CASE u # t
    <3> SUFFICES ASSUME Preparing(u)'
                 PROVE  WellFormed(u)' /\ ~Current(task[u].ticket)'
      BY <1>3, <2>2 DEF TaskIsSound
    <3>1. WellFormed(u)
      BY <1>5, <2>2 DEF ControlInv, TaskIsSound
    <3>2. WellFormed(u)'
      BY <1>1, <1>3, <2>2, <3>1 DEF WellFormed, TypeOK
    <3> QED
      BY <1>5, <2>2, <3>2
  <2> QED
    BY <2>1, <2>2
<1> QED
  BY <1>6, <1>7, <1>8, <1>9 DEF ControlInv

\* A new intent without a preparation: nobody's candidate is current any more.
LEMMA IntentKeeps ==
  ASSUME TypeOK, ControlInv, generation' = generation + 1, pendingTicket' = 0,
         UNCHANGED task, PipelineMatchesConfiguration'
  PROVE  ControlInv'
<1>1. \A u \in Tasks : Preparing(u)' => Preparing(u) /\ ~Current(task[u].ticket)'
  BY NewTicketIsNew DEF Preparing
<1>2. PendingMarkerHasOwner'
  BY <1>1 DEF PendingMarkerHasOwner
<1>3. OneTicketEach'
  BY DEF ControlInv, OneTicketEach, Preparing
<1>4. ASSUME NEW u \in Tasks PROVE TaskIsSound(u)'
  <2> SUFFICES ASSUME Preparing(u)'
               PROVE  WellFormed(u)'
    BY <1>1 DEF TaskIsSound
  <2> QED
    BY <1>1 DEF ControlInv, TaskIsSound, WellFormed, TypeOK
<1> QED
  BY <1>2, <1>3, <1>4 DEF ControlInv

\* A task leaves its scope.  Either nothing was published, or the ticket was
\* current, and then nobody else's is.
LEMMA EndKeeps ==
  ASSUME TypeOK, ControlInv, NEW t \in Tasks, Preparing(t), End(t),
         Current(task[t].ticket) \/ UNCHANGED Config,
         PipelineMatchesConfiguration'
  PROVE  ControlInv'
<1>1. task'[t].pc = "idle" /\ ~Preparing(t)'
  BY DEF End, Idle, Preparing, TypeOK
<1>2. \A u \in Tasks : u # t => task'[u] = task[u]
  BY DEF End, TypeOK
<1>3. UNCHANGED <<generation, canceled>>
  BY DEF End
<1>4. \A u \in Tasks : Preparing(u)' =>
        u # t /\ Preparing(u) /\ task'[u] = task[u] /\ task[u].ticket # task[t].ticket
  BY <1>1, <1>2 DEF Preparing, ControlInv, OneTicketEach
<1>5. PendingMarkerHasOwner'
  <2>1. pendingTicket' # 0 =>
          \E u \in Tasks : Preparing(u)' /\ task'[u].ticket = pendingTicket'
    <3> SUFFICES ASSUME pendingTicket' # 0
                 PROVE  \E u \in Tasks : Preparing(u)' /\ task'[u].ticket = pendingTicket'
      OBVIOUS
    <3>1. pendingTicket' = pendingTicket /\ pendingTicket # task[t].ticket
      BY DEF End, Finished
    <3>2. PICK u \in Tasks : Preparing(u) /\ task[u].ticket = pendingTicket
      BY <3>1 DEF ControlInv, PendingMarkerHasOwner
    <3> QED
      BY <1>2, <3>1, <3>2 DEF Preparing
  <2>2. ASSUME NEW u \in Tasks, Preparing(u)', Current(task[u].ticket)'
        PROVE  pendingTicket' = task'[u].ticket
    <3>1. pendingTicket = task[u].ticket
      BY <1>3, <1>4, <2>2 DEF ControlInv, PendingMarkerHasOwner, Current
    <3> QED
      BY <1>4, <2>2, <3>1 DEF End, Finished
  <2> QED
    BY <1>4, <2>1, <2>2 DEF PendingMarkerHasOwner
<1>6. OneTicketEach'
  BY <1>4 DEF ControlInv, OneTicketEach
<1>7. ASSUME NEW u \in Tasks PROVE TaskIsSound(u)'
  <2> SUFFICES ASSUME Preparing(u)'
               PROVE  WellFormed(u)' /\ (Current(task[u].ticket)' => MadeForThis(u)')
    BY <1>4 DEF TaskIsSound
  <2>1. WellFormed(u)'
    BY <1>3, <1>4 DEF ControlInv, TaskIsSound, WellFormed
  <2>2. Current(task[u].ticket)' => UNCHANGED Config
    BY <1>3, <1>4 DEF Current
  <2>3. Current(task[u].ticket)' => MadeForThis(u)
    BY <1>3, <1>4 DEF ControlInv, TaskIsSound, Current
  <2> QED
    BY <1>4, <2>1, <2>2, <2>3 DEF MadeForThis, Config
<1> QED
  BY <1>5, <1>6, <1>7 DEF ControlInv

\* A step that leaves every preparation, its ticket and the configuration alone;
\* a candidate may stop being current.
LEMMA StaysKeeps ==
  ASSUME TypeOK, ControlInv, UNCHANGED <<generation, pendingTicket>>,
         canceled => canceled',
         \A t \in Tasks : (Preparing(t)' <=> Preparing(t)) /\ (Preparing(t) => task'[t] = task[t]),
         UNCHANGED Config
  PROVE  ControlInv'
<1>1. \A t \in Tasks : Preparing(t)' =>
        Preparing(t) /\ task'[t] = task[t] /\ (Current(task[t].ticket)' => Current(task[t].ticket))
  BY DEF Current
<1>2. PipelineMatchesConfiguration'
  BY DEF ControlInv, PipelineMatchesConfiguration, Config
<1>3. PendingMarkerHasOwner'
  BY <1>1 DEF ControlInv, PendingMarkerHasOwner
<1>4. OneTicketEach'
  BY <1>1 DEF ControlInv, OneTicketEach
<1>5. \A t \in Tasks : TaskIsSound(t)'
  BY <1>1 DEF ControlInv, TaskIsSound, WellFormed, MadeForThis, Config
<1> QED
  BY <1>2, <1>3, <1>4, <1>5 DEF ControlInv

\* A preparation advances: the same ticket, still made for what runs.
LEMMA AdvanceKeeps ==
  ASSUME TypeOK, ControlInv, NEW t \in Tasks, NEW state,
         Preparing(t), task' = [task EXCEPT ![t] = state], Preparing(t)',
         state.ticket = task[t].ticket, state.kind = task[t].kind,
         UNCHANGED <<ticketVars, configVars, rateVars>>,
         WellFormed(t)', Current(task[t].ticket) => MadeForThis(t)'
  PROVE  ControlInv'
<1>1. task'[t] = state /\ \A u \in Tasks : u # t => task'[u] = task[u]
  BY DEF TypeOK
<1>2. \A u \in Tasks : (Preparing(u)' <=> Preparing(u)) /\ task'[u].ticket = task[u].ticket
  BY <1>1 DEF Preparing
<1>3. PipelineMatchesConfiguration'
  BY DEF ControlInv, PipelineMatchesConfiguration, configVars, rateVars
<1>4. PendingMarkerHasOwner'
  <2>1. pendingTicket' = pendingTicket /\ generation' = generation /\ canceled' = canceled
    BY DEF ticketVars
  <2> QED
    BY <1>2, <2>1 DEF ControlInv, PendingMarkerHasOwner, Current
<1>5. OneTicketEach'
  BY <1>2 DEF ControlInv, OneTicketEach
<1>6. ASSUME NEW u \in Tasks PROVE TaskIsSound(u)'
  <2>1. CASE u = t
    BY <1>2, <2>1 DEF TaskIsSound, Current, ticketVars
  <2>2. CASE u # t
    BY <1>1, <2>2 DEF ControlInv, TaskIsSound, WellFormed, MadeForThis, Preparing, Current,
                      ticketVars, configVars, rateVars
  <2> QED
    BY <2>1, <2>2
<1> QED
  BY <1>3, <1>4, <1>5, <1>6 DEF ControlInv

-----------------------------------------------------------------------------
(* Every action keeps the invariant *)

\* A reload begins only where nothing is deferred, with the active preset.
LEMMA ReloadKeeps ==
  ASSUME TypeOK, ControlInv, NEW t \in Tasks, t # MainLoop, NEW gone \in BOOLEAN,
         ~Preparing(t), activePreset # None,
         Begin(t, "reload", ActiveRecipe, gone), UNCHANGED Config
  PROVE  ControlInv'
<1>1. MadeForNext(t, "reload", ActiveRecipe)
  BY DEF MadeForNext, ActiveRecipe, TypeOK
<1> QED
  BY <1>1, BeginKeeps

LEMMA RebuildKeeps ==
  ASSUME TypeOK, ControlInv, NEW r \in Rates, ~Preparing(MainLoop), RebuildAt(r),
         UNCHANGED Config
  PROVE  ControlInv'
<1>1. MadeForNext(MainLoop, "rate", [Nothing EXCEPT !.rate = r])
  BY DEF MadeForNext, Nothing
<1>2. rateAbandoned \in BOOLEAN
  BY DEF TypeOK
<1> QED
  BY <1>1, <1>2, BeginKeeps, TasksAre DEF RebuildAt

\* Commands

LEMMA LoadKeeps ==
  ASSUME TypeOK, ControlInv, NEW c \in Clients, NEW p \in Presets, LoadPreset(c, p)
  PROVE  ControlInv'
<1> DEFINE candidate == [preset |-> p, version |-> 0, backend |-> backend, rate |-> dspRate]
<1>1. MadeForNext(c, "load", candidate)
  BY TasksAre DEF MadeForNext, TypeOK
<1>2. ~Preparing(c) /\ c \in Tasks /\ UNCHANGED Config
  BY TasksAre DEF LoadPreset, Receive, Preparing, Config, configVars, rateVars
<1>3. Begin(c, "load", candidate, FALSE)
  BY DEF LoadPreset
<1> QED
  BY <1>1, <1>2, <1>3, BeginKeeps

LEMMA BackendKeeps ==
  ASSUME TypeOK, ControlInv, NEW c \in Clients, NEW b \in Backends, SetDspBackend(c, b)
  PROVE  ControlInv'
<1> DEFINE candidate == [pipeline EXCEPT !.backend = b, !.rate = dspRate]
<1>1. CASE pipeline.backend # None /\ Begin(c, "backend", candidate, FALSE) /\ UNCHANGED backend
  <2>1. candidate.preset = pipeline.preset /\ candidate.backend = b /\ candidate.rate = dspRate
    BY DEF TypeOK, Pipelines
  <2>2. pipeline.preset = activePreset /\ activePreset \in Presets
    BY <1>1 DEF ControlInv, PipelineMatchesConfiguration, TypeOK
  <2>3. MadeForNext(c, "backend", candidate)
    BY <2>1, <2>2, TasksAre DEF MadeForNext, TypeOK
  <2>4. ~Preparing(c) /\ c \in Tasks /\ UNCHANGED Config
    BY <1>1, TasksAre DEF SetDspBackend, Receive, Preparing, Config, rateVars
  <2> QED
    BY <1>1, <2>3, <2>4, BeginKeeps
<1>2. CASE (b = backend \/ pipeline.backend = None) /\ backend' = b
           /\ IntentWithoutRebuild /\ UNCHANGED task
  <2>1. activePreset # None => backend = b
    BY <1>2, NoneIsNoChoice DEF ControlInv, PipelineMatchesConfiguration, TypeOK
  <2>2. UNCHANGED <<pipeline, activePreset, dspRate>>
    BY DEF SetDspBackend, rateVars
  <2>3. PipelineMatchesConfiguration'
    BY <1>2, <2>1, <2>2 DEF ControlInv, PipelineMatchesConfiguration
  <2> QED
    BY <1>2, <2>3, IntentKeeps DEF IntentWithoutRebuild
<1> QED
  BY <1>1, <1>2 DEF SetDspBackend

LEMMA BypassKeeps ==
  ASSUME TypeOK, ControlInv, NEW c \in Clients, Bypass(c)
  PROVE  ControlInv'
<1>1. PipelineMatchesConfiguration'
  BY DEF Bypass, PipelineMatchesConfiguration, Nothing, rateVars
<1> QED
  BY <1>1, IntentKeeps DEF Bypass

LEMMA SetRateKeeps ==
  ASSUME TypeOK, ControlInv, NEW c \in Clients, NEW r, SetRate(c, r)
  PROVE  ControlInv'
<1>1. ~Preparing(c) /\ task'[c].pc = "waiting"
  BY TasksAre DEF SetRate, Receive, Preparing, TypeOK, Idle
<1>2. \A t \in Tasks : (Preparing(t)' <=> Preparing(t)) /\ (Preparing(t) => task'[t] = task[t])
  BY <1>1 DEF SetRate, Preparing, TypeOK
<1> QED
  BY <1>2, StaysKeeps DEF SetRate, ticketVars, configVars, Config

LEMMA RateAnsweredKeeps ==
  ASSUME TypeOK, ControlInv, NEW c \in Clients, RateAnswered(c)
  PROVE  ControlInv'
<1>1. ~Preparing(c) /\ UNCHANGED Config
  BY DEF RateAnswered, Preparing, Config
<1>2. CASE activePreset # None /\ Begin(c, "reload", ActiveRecipe, rateAbandoned)
  BY <1>1, <1>2, ReloadKeeps, TasksAre DEF TypeOK
<1>3. CASE task' = [task EXCEPT ![c] = Idle] /\ UNCHANGED ticketVars
  <2>1. \A t \in Tasks : (Preparing(t)' <=> Preparing(t)) /\ (Preparing(t) => task'[t] = task[t])
    BY <1>1, <1>3 DEF Preparing, TypeOK, Idle
  <2> QED
    BY <1>1, <1>3, <2>1, StaysKeeps DEF ticketVars
<1> QED
  BY <1>2, <1>3 DEF RateAnswered

LEMMA DisconnectKeeps ==
  ASSUME TypeOK, ControlInv, NEW c \in Clients, Disconnect(c)
  PROVE  ControlInv'
<1>1. \A t \in Tasks : (Preparing(t)' <=> Preparing(t)) /\ (Preparing(t) => task'[t] = task[t])
  BY DEF Disconnect, Preparing
<1>2. canceled => canceled'
  BY DEF Disconnect
<1> QED
  BY <1>1, <1>2, StaysKeeps DEF Disconnect, configVars, Config

\* Preparation and publication

LEMMA PreparationKeeps ==
  ASSUME TypeOK, ControlInv, NEW t \in Tasks, Prepare(t)
  PROVE  ControlInv'
<1>1. TaskIsSound(t) /\ Preparing(t) /\ WellFormed(t)
  BY DEF ControlInv, TaskIsSound, Prepare, ReadRecipe, VerifyRecipe, Preparing
<1>2. UNCHANGED <<ticketVars, configVars, rateVars>>
  BY DEF Prepare, ReadRecipe, VerifyRecipe
<1>3. ASSUME NEW state, task' = [task EXCEPT ![t] = state],
             state.pc \in {"building", "built", "failed"},
             state.ticket = task[t].ticket, state.kind = task[t].kind,
             state.candidate.rate = task[t].candidate.rate,
             state.kind # "rate" => /\ state.candidate.preset = task[t].candidate.preset
                                    /\ state.candidate.backend = task[t].candidate.backend,
             state.kind = "rate" =>
               \/ state.candidate.preset = pipeline.preset
                  /\ state.candidate.backend = pipeline.backend
               \/ task[t].pc # "reading" /\ state.candidate = task[t].candidate
      PROVE  ControlInv'
  <2>1. task'[t] = state /\ Preparing(t)'
    BY <1>3 DEF TypeOK, Preparing
  <2>2. WellFormed(t)'
    BY <1>1, <1>2, <1>3, <2>1 DEF WellFormed, ticketVars
  <2>3. Current(task[t].ticket) => MadeForThis(t)'
    BY <1>1, <1>2, <1>3, <2>1 DEF TaskIsSound, MadeForThis, configVars, rateVars
  <2> QED
    BY <1>1, <1>2, <1>3, <2>1, <2>2, <2>3, AdvanceKeeps
<1>4. CASE ReadRecipe(t)
  <2> DEFINE preset == IF task[t].kind = "rate" THEN pipeline.preset ELSE task[t].candidate.preset
             recipe == [preset |-> preset,
                        version |-> IF task[t].kind = "rate" THEN pipeline.version
                                                             ELSE file[preset],
                        backend |-> IF task[t].kind = "rate" THEN pipeline.backend
                                                             ELSE task[t].candidate.backend,
                        rate |-> task[t].candidate.rate]
             state == [task[t] EXCEPT !.pc = "building", !.candidate = recipe]
  <2>1. task' = [task EXCEPT ![t] = state]
    BY <1>4 DEF ReadRecipe, TypeOK
  <2>2. /\ state.pc = "building" /\ state.candidate = recipe
        /\ state.ticket = task[t].ticket /\ state.kind = task[t].kind
    BY DEF TypeOK
  <2>3. /\ recipe.rate = task[t].candidate.rate
        /\ task[t].kind = "rate" => recipe.preset = pipeline.preset
                                    /\ recipe.backend = pipeline.backend
        /\ task[t].kind # "rate" => recipe.preset = task[t].candidate.preset
                                    /\ recipe.backend = task[t].candidate.backend
    OBVIOUS
  <2> HIDE DEF recipe, state
  <2> QED
    BY <1>3, <2>1, <2>2, <2>3
<1>5. CASE VerifyRecipe(t)
  <2>1. PICK pc \in {"built", "failed"} : task' = [task EXCEPT ![t].pc = pc]
    BY <1>5 DEF VerifyRecipe
  <2>2. task[t].pc = "building"
    BY <1>5 DEF VerifyRecipe
  <2> DEFINE state == [task[t] EXCEPT !.pc = pc]
  <2>3. /\ task' = [task EXCEPT ![t] = state]
        /\ state.pc = pc /\ state.candidate = task[t].candidate
        /\ state.ticket = task[t].ticket /\ state.kind = task[t].kind
    BY <2>1 DEF TypeOK
  <2> HIDE DEF state
  <2> QED
    BY <1>3, <2>2, <2>3
<1> QED
  BY <1>4, <1>5 DEF Prepare

LEMMA PublicationKeeps ==
  ASSUME TypeOK, ControlInv, NEW t \in Tasks, Resume(t)
  PROVE  ControlInv'
<1>1. ASSUME PublishPreset(t)
      PROVE  ControlInv'
  <2>1. Preparing(t) /\ Current(task[t].ticket) /\ End(t)
    BY <1>1 DEF PublishPreset, Preparing
  <2>2. WellFormed(t) /\ MadeForThis(t)
    BY <2>1 DEF ControlInv, TaskIsSound
  <2>3. PipelineMatchesConfiguration'
    BY <1>1, <2>2, NoneIsNoChoice
    DEF PublishPreset, WellFormed, MadeForThis, PipelineMatchesConfiguration, rateVars
  <2> QED
    BY <2>1, <2>3, EndKeeps
<1>2. ASSUME PublishBackend(t)
      PROVE  ControlInv'
  <2>1. Preparing(t) /\ Current(task[t].ticket) /\ End(t)
    BY <1>2 DEF PublishBackend, Preparing
  <2>2. WellFormed(t) /\ MadeForThis(t)
    BY <2>1 DEF ControlInv, TaskIsSound
  <2>3. PipelineMatchesConfiguration'
    BY <1>2, <2>2, NoneIsNoChoice
    DEF PublishBackend, WellFormed, MadeForThis, PipelineMatchesConfiguration, rateVars
  <2> QED
    BY <2>1, <2>3, EndKeeps
<1>3. ASSUME FailPreset(t) \/ FailBackend(t) \/ Canceled(t)
      PROVE  ControlInv'
  <2>1. Preparing(t) /\ End(t) /\ UNCHANGED Config
    BY <1>3 DEF FailPreset, FailBackend, Canceled, Preparing, Config, configVars, rateVars
  <2>2. PipelineMatchesConfiguration'
    BY <2>1 DEF ControlInv, PipelineMatchesConfiguration, Config
  <2> QED
    BY <2>1, <2>2, EndKeeps
<1> QED
  BY <1>1, <1>2, <1>3 DEF Resume

\* The main loop

LEMMA MainLoopKeeps ==
  ASSUME TypeOK, ControlInv,
         RateChangeRequested \/ PublishRate \/ FailRate \/ FinishReadinessCheck
  PROVE  ControlInv'
<1>1. CASE RateChangeRequested
  <2>1. ~Preparing(MainLoop) /\ UNCHANGED Config
    BY <1>1 DEF RateChangeRequested, Preparing, configVars, Config
  <2>2. CASE rateRequest \in Rates /\ RebuildAt(rateRequest)
    BY <2>1, <2>2, RebuildKeeps
  <2>3. CASE UNCHANGED <<ticketVars, task>>
    BY <2>1, <2>3, StaysKeeps DEF ticketVars, Preparing
  <2>4. Unanswered /\ rateRequest \notin {Automatic, dspRate} => rateRequest \in Rates
    BY DEF Unanswered, TypeOK
  <2> QED
    BY <1>1, <2>2, <2>3, <2>4 DEF RateChangeRequested
<1>2. CASE PublishRate
  <2>1. Preparing(MainLoop) /\ Current(task[MainLoop].ticket) /\ End(MainLoop)
    BY <1>2 DEF PublishRate, Preparing
  <2>2. WellFormed(MainLoop) /\ MadeForThis(MainLoop)
    BY <2>1, TasksAre DEF ControlInv, TaskIsSound
  <2>3. PipelineMatchesConfiguration'
    BY <1>2, <2>2 DEF ControlInv, PublishRate, WellFormed, MadeForThis, PipelineMatchesConfiguration
  <2> QED
    BY <2>1, <2>3, EndKeeps, TasksAre
<1>3. CASE FailRate
  <2>1. Preparing(MainLoop) /\ End(MainLoop) /\ UNCHANGED Config
    BY <1>3 DEF FailRate, Preparing, Config, configVars
  <2>2. PipelineMatchesConfiguration'
    BY <2>1 DEF ControlInv, PipelineMatchesConfiguration, Config
  <2> QED
    BY <2>1, <2>2, EndKeeps, TasksAre
<1>4. CASE FinishReadinessCheck
  BY <1>4, StaysKeeps DEF FinishReadinessCheck, Preparing, ticketVars, configVars, Config
<1> QED
  BY <1>1, <1>2, <1>3, <1>4

LEMMA NegotiateKeeps ==
  ASSUME TypeOK, ControlInv, NEW g \in Rates, Negotiate(g)
  PROVE  ControlInv'
<1>1. ~Preparing(MainLoop) /\ UNCHANGED Config
  BY DEF Negotiate, Preparing, configVars, Config
<1>2. TargetRate(g) \in Rates
  BY DEF TargetRate, TypeOK
<1>3. CASE RebuildAt(TargetRate(g))
  BY <1>1, <1>2, <1>3, RebuildKeeps
<1>4. CASE UNCHANGED <<ticketVars, task>>
  BY <1>1, <1>4, StaysKeeps DEF ticketVars, Preparing
<1> QED
  BY <1>3, <1>4 DEF Negotiate

\* The monitor and the publication of status

LEMMA AutomaticReloadKeeps ==
  ASSUME TypeOK, ControlInv, HandlePresetFileMonitorEvent \/ MaintainControlStatus
  PROVE  ControlInv'
<1>1. UNCHANGED Config
  BY DEF HandlePresetFileMonitorEvent, MaintainControlStatus, rateVars, Config
<1>2. CASE activePreset # None /\ ~Preparing(Monitor) /\ Begin(Monitor, "reload", ActiveRecipe, FALSE)
  BY <1>1, <1>2, ReloadKeeps, TasksAre
<1>3. CASE activePreset # None /\ ~Preparing(Publisher)
           /\ Begin(Publisher, "reload", ActiveRecipe, FALSE)
  BY <1>1, <1>3, ReloadKeeps, TasksAre
<1>4. CASE UNCHANGED <<ticketVars, task>>
  BY <1>1, <1>4, StaysKeeps DEF ticketVars, Preparing
<1> QED
  BY <1>2, <1>3, <1>4 DEF HandlePresetFileMonitorEvent, MaintainControlStatus, Preparing

LEMMA UntouchedKeeps ==
  ASSUME TypeOK, ControlInv, UNCHANGED <<ticketVars, task, configVars, rateVars>>
  PROVE  ControlInv'
BY StaysKeeps DEF ticketVars, configVars, rateVars, Config, Preparing

LEMMA InitControl == Init => TypeOK /\ ControlInv
<1> SUFFICES ASSUME Init
             PROVE  TypeOK /\ ControlInv
  OBVIOUS
<1>1. pipeline \in Pipelines
  BY ControlAssumption DEF Init, Pipelines, ControlAssumption
<1>2. generation = 0 /\ pendingTicket = 0 /\ \A t \in Tasks : task[t] = Idle
  BY DEF Init
<1>3. Idle \in TaskStates
  BY <1>2, ControlAssumption DEF ControlAssumption, TaskStates, Idle, Nothing, Pipelines
<1>4. TicketsOK
  <2>1. task = [t \in Tasks |-> Idle] /\ canceled = FALSE
    BY DEF Init
  <2>2. task \in [Tasks -> TaskStates]
    BY <1>3, <2>1
  <2>3. generation = 0 /\ pendingTicket = 0
    BY <1>2
  <2>4. generation \in Nat /\ pendingTicket \in 0 .. generation
    BY <2>3
  <2>5. canceled \in BOOLEAN
    BY <2>1
  <2> QED
    BY <2>2, <2>4, <2>5 DEF TicketsOK
<1>5. FilesOK
  <2>1. 0 \in 0 .. MaxVersion
    BY ControlAssumption DEF ControlAssumption
  <2>2. file \in [Presets -> 0 .. MaxVersion]
    BY <2>1 DEF Init
  <2>3. watched \in Presets \cup {None} /\ event \in BOOLEAN
    BY DEF Init
  <2> QED
    BY <2>2, <2>3 DEF FilesOK
<1>6. ConfigOK /\ RatesOK /\ FlagsOK
  BY <1>1, ControlAssumption DEF Init, ConfigOK, RatesOK, FlagsOK, ControlAssumption
<1>7. \A t \in Tasks : ~Preparing(t)
  BY <1>2 DEF Idle, Preparing
<1>8. ControlInv
  BY <1>2, <1>7 DEF Init, ControlInv, PipelineMatchesConfiguration, PendingMarkerHasOwner,
                    OneTicketEach, TaskIsSound
<1> QED
  BY <1>4, <1>5, <1>6, <1>8, TypeParts

LEMMA ControlStep == TypeOK /\ ControlInv /\ [Next]_vars => ControlInv'
<1> SUFFICES ASSUME TypeOK, ControlInv, [Next]_vars
             PROVE  ControlInv'
  OBVIOUS
<1>1. ASSUME NEW p \in Presets, EditFile(p)
      PROVE  ControlInv'
  BY <1>1, UntouchedKeeps DEF EditFile
<1>2. ASSUME NEW c \in Clients, SetOutput(c)
      PROVE  ControlInv'
  BY <1>2, UntouchedKeeps DEF SetOutput
<1>3. ASSUME OutputTransitionEnds
      PROVE  ControlInv'
  BY <1>3, UntouchedKeeps DEF OutputTransitionEnds
<1>4. CASE UNCHANGED vars
  BY <1>4, UntouchedKeeps DEF vars
<1>5. graphRate \in Rates
  BY DEF TypeOK
<1>6. CASE Next
  BY <1>1, <1>2, <1>3, <1>5, <1>6, LoadKeeps, BackendKeeps, BypassKeeps, SetRateKeeps,
     RateAnsweredKeeps, DisconnectKeeps, PreparationKeeps, PublicationKeeps, MainLoopKeeps,
     NegotiateKeeps, AutomaticReloadKeeps, Zenon
  DEF Next, MainLoopStep
<1> QED
  BY <1>4, <1>6

-----------------------------------------------------------------------------
(* The theorems *)

LEMMA ControlInvariant == Spec => [](TypeOK /\ ControlInv)
<1>1. TypeOK /\ ControlInv /\ [Next]_vars => (TypeOK /\ ControlInv)'
  BY TypeStep, ControlStep DEF ControlInv
<1> QED
  BY InitControl, <1>1, PTL DEF Spec

\* Every step of the control plane keeps the state within its types.
THEOREM ControlTypeOK == Spec => []TypeOK
BY ControlInvariant, PTL

\* No candidate is ever published over a newer configuration: the pipeline that
\* runs is the one the reported preset, backend and rate describe.
THEOREM ControlPipelineMatchesConfiguration == Spec => []PipelineMatchesConfiguration
<1>1. ControlInv => PipelineMatchesConfiguration
  BY DEF ControlInv
<1> QED
  BY ControlInvariant, <1>1, PTL

\* The marker that defers automatic reloads is set exactly while a candidate is
\* prepared that may still be published.
THEOREM ControlPendingMarkerHasOwner == Spec => []PendingMarkerHasOwner
<1>1. ControlInv => PendingMarkerHasOwner
  BY DEF ControlInv
<1> QED
  BY ControlInvariant, <1>1, PTL

\* An automatic reload that begins takes the ticket of nobody's preparation.
LEMMA ReloadStep ==
  ASSUME TypeOK, ControlInv, [Next]_vars,
         NEW t \in Tasks, Preparing(t), Current(task[t].ticket), generation' # generation,
         NEW r \in Tasks, task'[r].kind = "reload"
  PROVE  task'[r] = task[r]
<1>1. pendingTicket # 0
  BY DEF ControlInv, PendingMarkerHasOwner, TaskIsSound, WellFormed, TypeOK
<1>2. ReloadDeferred
  BY <1>1 DEF ReloadDeferred
<1>3. ASSUME NEW u \in Tasks, NEW kind, NEW candidate, NEW gone,
             Begin(u, kind, candidate, gone), kind # "reload"
      PROVE  task'[r] = task[r]
  BY <1>3 DEF Begin, TypeOK
<1>4. ASSUME HandlePresetFileMonitorEvent \/ MaintainControlStatus
      PROVE  FALSE
  BY <1>2, <1>4 DEF HandlePresetFileMonitorEvent, MaintainControlStatus, ticketVars
<1>5. ASSUME NEW c \in Clients, RateAnswered(c)
      PROVE  FALSE
  BY <1>2, <1>5 DEF RateAnswered, ticketVars
<1>6. ASSUME NEW c \in Clients, NEW p \in Presets, LoadPreset(c, p)
      PROVE  task'[r] = task[r]
  BY <1>3, <1>6, TasksAre DEF LoadPreset
<1>7. ASSUME NEW c \in Clients, NEW b \in Backends, SetDspBackend(c, b)
      PROVE  task'[r] = task[r]
  BY <1>3, <1>7, TasksAre DEF SetDspBackend
<1>8. ASSUME NEW c \in Clients, Bypass(c)
      PROVE  task'[r] = task[r]
  BY <1>8 DEF Bypass
<1>9. ASSUME RateChangeRequested
      PROVE  task'[r] = task[r]
  BY <1>3, <1>9, TasksAre DEF RateChangeRequested, RebuildAt
<1>10. ASSUME NEW g \in Rates, Negotiate(g)
       PROVE  task'[r] = task[r]
  BY <1>3, <1>10, TasksAre DEF Negotiate, RebuildAt
<1>11. ASSUME \/ \E p \in Presets : EditFile(p)
              \/ \E c \in Clients, q \in Rates \cup {Automatic} : SetRate(c, q)
              \/ \E c \in Clients : SetOutput(c) \/ Disconnect(c)
              \/ OutputTransitionEnds
              \/ \E u \in Tasks : Prepare(u)
              \/ FinishReadinessCheck \/ UNCHANGED vars
       PROVE  FALSE
  BY <1>11 DEF EditFile, SetRate, SetOutput, Disconnect, OutputTransitionEnds, Prepare,
               ReadRecipe, VerifyRecipe, FinishReadinessCheck, vars, ticketVars
<1>12. ASSUME PublishRate \/ FailRate \/ \E u \in Tasks : Resume(u)
       PROVE  FALSE
  BY <1>12 DEF PublishRate, FailRate, Resume, PublishPreset, FailPreset, PublishBackend,
               FailBackend, Canceled, End
<1>13. graphRate \in Rates
  BY DEF TypeOK
<1> QED
  BY <1>4, <1>5, <1>6, <1>7, <1>8, <1>9, <1>10, <1>11, <1>12, <1>13, Zenon
  DEF Next, MainLoopStep

\* An automatic reload never takes a preparation away from anybody else.
THEOREM ControlReloadSupersedesNobody == Spec => ReloadSupersedesNobody
<1> DEFINE Step == \A t \in Tasks :
             Preparing(t) /\ Current(task[t].ticket) /\ generation' # generation =>
               \A r \in Tasks : task'[r].kind = "reload" => task'[r] = task[r]
<1>1. TypeOK /\ ControlInv /\ [Next]_vars => [Step]_vars
  BY ReloadStep
<1> QED
  BY ControlInvariant, <1>1, PTL DEF Spec, ReloadSupersedesNobody
=============================================================================
