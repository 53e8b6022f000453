------------------------- MODULE HostProgramsProofs -------------------------
(***************************************************************************)
(* Proofs about the change of the daemon's outputs and the commands that   *)
(* change and save the configuration, for any outputs, presets, rates,     *)
(* clients, commands, choices and lives of the daemon; and that these two  *)
(* and the setup of the user's session keep their types side by side.      *)
(*                                                                         *)
(* An output change: a pipeline is prepared without the mutex and          *)
(* installed on another thread, and none of the properties is inductive.   *)
(* The invariant follows a request: a ticket that is still current         *)
(* (Owned), a submission the main loop has not seen (Pending), a staged    *)
(* change (Staged) and an answer nobody took (Answered) each say what the  *)
(* request has to do with what runs.                                       *)
(*                                                                         *)
(* The undo of a command: a status that the daemon has shown in its        *)
(* present life with the present revision still shows the present          *)
(* configuration, since every change of the configuration takes a          *)
(* revision of its own.                                                    *)
(*                                                                         *)
(* The report of a command: one that has met no other knows, at each of    *)
(* its steps, what the file and the daemon hold (ReportInv), also while it *)
(* cannot know whether a lost request was executed.                        *)
(***************************************************************************)
EXTENDS MCHostPrograms, UserSetupProofs

-----------------------------------------------------------------------------
(* A change of the outputs. *)

\* The request was made for the configuration that is active.
MatchesActive(req) ==
  /\ req.revision = configurationRevision
  /\ req.before = View(active)
  /\ req.pipeline = PipelineFor(req.output, IF req.preset = Keep THEN active.preset ELSE req.preset,
                                req.pipeline.rate)

Owned ==
  current # None =>
    /\ ~outputTransitionActive /\ ~stopped
    /\ task[current].pc = "preparing"
    /\ MatchesActive(task[current].request)
    /\ task[current].request.pipeline.rate = active.rate
    /\ task[current].load =>
         /\ task[current].request.preset # Keep
         /\ task[current].request.output = active.output

\* The flag, the request and the waiting coroutine come and go together.
Submitted ==
  /\ outputTransitionActive <=> request # None
  /\ request = None => answer = "none"
  /\ outputTransitionActive <=> \E c \in Clients : task[c].pc = "waiting"
  /\ \A c, d \in Clients : task[c].pc = "waiting" /\ task[d].pc = "waiting" => c = d

Pending ==
  request # None /\ answer = "none" /\ previous = None => MatchesActive(request)

Staged ==
  /\ previous = None => ~outputRollingBack /\ ~outputFailure
  /\ outputRollingBack => outputFailure
  /\ previous # None /\ ~stopped =>
       /\ request # None /\ answer = "none"
       /\ request.before = View(previous)
       /\ outputRollingBack => View(active) = View(previous)
       /\ ~outputRollingBack =>
            /\ active.output = request.output
            /\ request.preset # Keep => active.preset = request.preset

Answered == ~stopped /\ answer # "none" => previous = None

RequestInv ==
  /\ LayoutFits
  /\ Owned /\ Submitted /\ Pending /\ Staged /\ Answered
  /\ AnswerTellsTheOutcome

OutputInv == TypeOK /\ RequestInv

-----------------------------------------------------------------------------
(* Types *)

LEMMA PipelineType ==
  ASSUME NEW o \in Outputs, NEW p \in Choices, NEW r \in Rates
  PROVE  PipelineFor(o, p, r) \in Pipelines
<1>1. DspWidth(o, p) \in Nat
  BY OutputAssumption DEF OutputAssumption, DspWidth, Choices
<1> QED
  BY <1>1 DEF PipelineFor, Pipelines

LEMMA ViewType == ASSUME NEW layout \in Layouts PROVE View(layout) \in Views
BY DEF View, Views, Layouts

LEMMA RequestType ==
  ASSUME TypeOK, NEW o \in Outputs, NEW p \in Choices \cup {Keep},
         NEW saw \in Views \cup {None}
  PROVE  RequestFor(o, p, saw) \in Requests
<1>1. active.pipeline.preset \in Choices /\ active.rate \in Rates /\ View(active) \in Views
  BY ViewType DEF TypeOK, Layouts, Pipelines
<1>2. PipelineFor(o, IF p = Keep THEN active.pipeline.preset ELSE p, active.rate) \in Pipelines
  BY <1>1, PipelineType
<1> QED
  BY <1>1, <1>2 DEF RequestFor, Requests, TypeOK

LEMMA RequestedType ==
  ASSUME TypeOK, request # None
  PROVE  Requested \in Layouts
<1>1. request \in Requests
  BY DEF TypeOK
<1>2. /\ request.output \in Outputs /\ request.preset \in Choices \cup {Keep}
      /\ request.pipeline \in Pipelines
  BY <1>1 DEF Requests
<1>3. Width[request.output] \in Nat /\ request.pipeline.width \in Nat
  BY <1>2, OutputAssumption DEF OutputAssumption, Pipelines
<1>4. active.preset \in Choices /\ active.rate \in Rates
  BY DEF TypeOK, Layouts
<1> QED
  BY <1>2, <1>3, <1>4 DEF Requested, Layouts

LEMMA InitTypeOK == Init => TypeOK
<1> SUFFICES ASSUME Init
             PROVE  TypeOK
  OBVIOUS
<1>1. PICK o \in StartOutputs, p \in Choices, r \in StartRates :
        active = [output |-> o, channels |-> Width[o], preset |-> p,
                  pipeline |-> PipelineFor(o, p, r), buffers |-> DspWidth(o, p),
                  rate |-> r]
  BY DEF Init
<1>2. o \in Outputs /\ r \in Rates /\ Width[o] \in Nat /\ DspWidth(o, p) \in Nat
  BY <1>1, OutputAssumption DEF OutputAssumption, DspWidth, Choices
<1>3. PipelineFor(o, p, r) \in Pipelines
  BY <1>2, PipelineType
<1>4. active \in Layouts
  BY <1>1, <1>2, <1>3 DEF Layouts
<1>5. seen \in [Clients -> [revision : Nat, view : Views]]
  BY <1>4, ViewType DEF Init, Status
<1>6. task \in [Clients -> Tasks]
  BY DEF Init, Idle, Tasks
<1>7. commandsLeft \in 0 .. MaxCommands
  BY OutputAssumption DEF OutputAssumption, Init
<1> QED
  BY <1>4, <1>5, <1>6, <1>7 DEF Init, TypeOK

LEMMA Spent ==
  ASSUME TypeOK, NEW c \in Clients, Receive(c)
  PROVE  commandsLeft' \in 0 .. MaxCommands
BY OutputAssumption DEF OutputAssumption, TypeOK, Receive

LEMMA PreparingType ==
  ASSUME TypeOK, NEW c \in Clients, task[c].pc = "preparing"
  PROVE  task[c].request \in Requests /\ task[c].load \in BOOLEAN
BY DEF TypeOK, Tasks

\* What a preparation and a submission make of a task.
LEMMA TaskType ==
  ASSUME NEW req \in Requests, NEW isLoad \in BOOLEAN
  PROVE  /\ [pc |-> "preparing", load |-> isLoad, request |-> req] \in Tasks
         /\ [pc |-> "waiting", load |-> FALSE, request |-> None] \in Tasks
BY DEF Tasks

LEMMA IdleType == Idle \in Tasks
BY DEF Tasks, Idle

LEMMA SubmitType ==
  ASSUME TypeOK, NEW c \in Clients, NEW req \in Requests, Submit(c, req)
  PROVE  /\ outputTransitionActive' \in BOOLEAN
         /\ request' \in Requests \cup {None}
         /\ answer' \in {"none", "ok", "error"}
         /\ signaled' \in BOOLEAN
         /\ task' \in [Clients -> Tasks]
         /\ current' \in Clients \cup {None}
BY TaskType DEF TypeOK, Submit

LEMMA TypeStep == TypeOK /\ Owned /\ [Next]_vars => TypeOK'
<1> SUFFICES ASSUME TypeOK, Owned, [Next]_vars
             PROVE  TypeOK'
  OBVIOUS
<1> USE DEF TypeOK
<1>1. ASSUME NEW c \in Clients, ReadStatus(c)
      PROVE  TypeOK'
  <2>1. Status \in [revision : Nat, view : Views]
    BY ViewType DEF Status
  <2> QED
    BY <1>1, <2>1 DEF ReadStatus, changeVars, runVars, requestVars
<1>2. ASSUME NEW c \in Clients, NEW o \in Outputs, NEW p \in Choices \cup {Keep},
             NEW saw \in {None, seen[c].view}, SetOutput(c, o, p, saw)
      PROVE  TypeOK'
  <2>1. RequestFor(o, p, saw) \in Requests
    BY RequestType
  <2>2. commandsLeft' \in 0 .. MaxCommands
    BY <1>2, Spent DEF SetOutput
  <2>3. CASE Begin(c, RequestFor(o, p, saw), FALSE) /\ UNCHANGED <<requestVars, signaled>>
    <3>1. task' \in [Clients -> Tasks] /\ current' \in Clients \cup {None}
      BY <2>1, <2>3, TaskType DEF Begin
    <3> QED
      BY <1>2, <2>2, <2>3, <3>1 DEF SetOutput, changeVars, requestVars
  <2>4. CASE Submit(c, RequestFor(o, p, saw))
    BY <1>2, <2>1, <2>2, <2>4, SubmitType DEF SetOutput, changeVars
  <2> QED
    BY <1>2, <2>3, <2>4 DEF SetOutput
<1>3. ASSUME NEW c \in Clients, NEW p \in Presets, LoadPreset(c, p)
      PROVE  TypeOK'
  <2>1. RequestFor(active.output, p, None) \in Requests
    BY RequestType DEF Layouts, Choices
  <2>2. commandsLeft' \in 0 .. MaxCommands
    BY <1>3, Spent DEF LoadPreset
  <2> QED
    <3>1. task' \in [Clients -> Tasks] /\ current' \in Clients \cup {None}
      BY <1>3, <2>1, TaskType DEF LoadPreset, Begin
    <3> QED
      BY <1>3, <2>2, <3>1 DEF LoadPreset, changeVars, runVars, requestVars
<1>4. ASSUME NEW c \in Clients, Bypass(c)
      PROVE  TypeOK'
  <2>1. PipelineFor(active.output, None, active.rate) \in Pipelines /\ None \in Choices
    BY PipelineType DEF Layouts, Choices
  <2>2. active' \in Layouts
    BY <1>4, <2>1 DEF Bypass, Layouts
  <2>3. commandsLeft' \in 0 .. MaxCommands
    BY <1>4, Spent DEF Bypass
  <2> QED
    BY <1>4, <2>2, <2>3 DEF Bypass, changeVars, runVars, requestVars
<1>5. ASSUME NEW c \in Clients, Disconnect(c)
      PROVE  TypeOK'
  BY <1>5 DEF Disconnect, changeVars, runVars, requestVars
<1>6. ASSUME NEW c \in Clients, SubmitPrepared(c)
      PROVE  TypeOK'
  <2>1. task[c].request \in Requests
    BY <1>6, PreparingType DEF SubmitPrepared, Prepared
  <2>2. [task[c].request EXCEPT !.output = active.output, !.revision = configurationRevision,
                                !.before = View(active)] \in Requests
    BY <2>1, ViewType DEF Requests, Layouts
  <2>3. PICK req \in Requests : Submit(c, req)
    BY <1>6, <2>1, <2>2 DEF SubmitPrepared
  <2> QED
    BY <1>6, <2>3, SubmitType DEF SubmitPrepared, changeVars
<1>7. ASSUME NEW c \in Clients, PublishPreset(c)
      PROVE  TypeOK'
  <2>1. task[c].request \in Requests /\ task[c].load
    BY <1>7, PreparingType DEF PublishPreset, Prepared, NeedsStreams
  <2>2. task[c].request.preset \in Choices
    BY <1>7, <2>1, OutputAssumption DEF OutputAssumption, PublishPreset, Prepared, Owned, Requests
  <2>3. active' \in Layouts
    BY <1>7, <2>1, <2>2 DEF PublishPreset, Layouts, Requests
  <2> QED
    BY <1>7, <2>3, IdleType DEF PublishPreset, End, changeVars, runVars, requestVars
<1>8. ASSUME NEW c \in Clients, Abandon(c)
      PROVE  TypeOK'
  BY <1>8, IdleType DEF Abandon, End, changeVars, runVars, requestVars
<1>9. ASSUME NEW c \in Clients, TakeAnswer(c)
      PROVE  TypeOK'
  BY <1>9, IdleType DEF TakeAnswer, End, changeVars, runVars
<1>10. ASSUME RefuseRequest
       PROVE  TypeOK'
  BY <1>10 DEF RefuseRequest, Apply, clientVars
<1>11. ASSUME AcceptUnchanged
       PROVE  TypeOK'
  BY <1>11 DEF AcceptUnchanged, Apply, clientVars
<1>12. ASSUME ApplyLabels
       PROVE  TypeOK'
  <2>1. active' \in Layouts
    BY <1>12 DEF ApplyLabels, Apply, Layouts, Requests
  <2>2. configurationRevision' \in Nat
    BY <1>12 DEF ApplyLabels
  <2> QED
    BY <1>12, <2>1, <2>2, Zenon DEF ApplyLabels, Apply, clientVars
<1>13. ASSUME StageChange
       PROVE  TypeOK'
  <2>1. active' \in Layouts
    BY <1>13, RequestedType DEF StageChange, Apply
  <2> QED
    BY <1>13, <2>1 DEF StageChange, Apply, Armed, AnswerLater, clientVars
<1>14. ASSUME RollBack
       PROVE  TypeOK'
  BY <1>14 DEF RollBack, Restored, Armed, Stop
<1>15. ASSUME StreamsReady
       PROVE  TypeOK'
  <2>1. configurationRevision' \in Nat
    BY <1>15 DEF StreamsReady
  <2>2. answer' \in {"none", "ok", "error"}
    BY <1>15 DEF StreamsReady
  <2> QED
    BY <1>15, <2>1, <2>2 DEF StreamsReady, changeVars, clientVars
<1>16. ASSUME NEW r \in Rates, NegotiateRate(r)
       PROVE  TypeOK'
  <2>1. active' \in Layouts
    <3>1. [active.pipeline EXCEPT !.rate = r] \in Pipelines
      BY DEF Layouts, Pipelines
    <3>2. [active EXCEPT !.rate = r, !.pipeline.rate = r]
            = [active EXCEPT !.rate = r, !.pipeline = [active.pipeline EXCEPT !.rate = r]]
      BY DEF Layouts
    <3> QED
      BY <1>16, <3>1, <3>2 DEF NegotiateRate, Layouts
  <2> QED
    BY <1>16, <2>1 DEF NegotiateRate, changeVars, requestVars
<1>17. ASSUME RestartStreams
       PROVE  TypeOK'
  BY <1>17 DEF RestartStreams, changeVars, requestVars, clientVars
<1>18. ASSUME GraphFails
       PROVE  TypeOK'
  BY <1>18 DEF GraphFails, FailRuntime, Stop
<1>19. ASSUME DeadlineExpires
       PROVE  TypeOK'
  BY <1>19 DEF DeadlineExpires, FailRuntime, Stop
<1>20. ASSUME CompleteRuntime
       PROVE  TypeOK'
  BY <1>20 DEF CompleteRuntime, Stop, changeVars, runVars
<1>21. CASE UNCHANGED vars
  BY <1>21 DEF vars, changeVars, runVars, requestVars, clientVars
<1> HIDE DEF TypeOK
<1> QED
  BY <1>1, <1>2, <1>3, <1>4, <1>5, <1>6, <1>7, <1>8, <1>9, <1>10, <1>11, <1>12, <1>13,
     <1>14, <1>15, <1>16, <1>17, <1>18, <1>19, <1>20, <1>21, Zenon
  DEF Next, OutputChangeRequested, Resume

-----------------------------------------------------------------------------
(* The life of a request *)

LEMMA PipelineForFields ==
  ASSUME NEW o, NEW p, NEW r
  PROVE  /\ PipelineFor(o, p, r).preset = p
         /\ PipelineFor(o, p, r).width = DspWidth(o, p)
         /\ PipelineFor(o, p, r).rate = r
BY DEF PipelineFor

LEMMA InitRequest == Init => RequestInv
<1> SUFFICES ASSUME Init
             PROVE  RequestInv
  OBVIOUS
<1>1. PICK o \in StartOutputs, p \in Choices, r \in StartRates :
        active = [output |-> o, channels |-> Width[o], preset |-> p,
                  pipeline |-> PipelineFor(o, p, r), buffers |-> DspWidth(o, p),
                  rate |-> r]
  BY DEF Init
<1>2. Fits(active)
  BY <1>1, PipelineForFields DEF Fits
<1> QED
  BY <1>2 DEF Init, Idle, RequestInv, LayoutFits, Owned, Submitted, Pending, Staged,
              Answered, AnswerTellsTheOutcome

\* A request is made for what is active.
LEMMA NewRequestMatches ==
  ASSUME Fits(active), NEW o, NEW p, NEW saw
  PROVE  /\ MatchesActive(RequestFor(o, p, saw))
         /\ RequestFor(o, p, saw).pipeline.rate = active.rate
<1>1. active.pipeline.preset = active.preset
  BY PipelineForFields DEF Fits
<1>2. RequestFor(o, p, saw).pipeline
        = PipelineFor(o, IF p = Keep THEN active.preset ELSE p, active.rate)
  BY <1>1 DEF RequestFor
<1>3. RequestFor(o, p, saw).pipeline.rate = active.rate
  BY <1>2, PipelineForFields
<1> QED
  BY <1>2, <1>3 DEF MatchesActive, RequestFor

\* Nothing else is going on while the flag is down.
LEMMA FlagIsDown ==
  ASSUME RequestInv, ~outputTransitionActive
  PROVE  /\ request = None /\ answer = "none"
         /\ ~stopped => previous = None
         /\ \A c \in Clients : task[c].pc # "waiting"
BY DEF RequestInv, Submitted, Staged

LEMMA SubmitKeeps ==
  ASSUME TypeOK, RequestInv, ~outputTransitionActive, ~stopped,
         NEW c \in Clients, NEW req \in Requests, MatchesActive(req), Submit(c, req),
         UNCHANGED <<active, previous, outputFailure, outputRollingBack,
                     configurationRevision, stopped>>
  PROVE  RequestInv'
<1>1. previous = None /\ \A d \in Clients : task[d].pc # "waiting"
  BY FlagIsDown
<1>2. LayoutFits'
  BY DEF RequestInv, LayoutFits
<1>3. Owned'
  BY DEF Submit, Owned
<1>4. Submitted'
  <2>1. request' # None
    BY NoneAssumption DEF Submit, NoneAssumption
  <2>2. \A d \in Clients : task'[d].pc = "waiting" <=> d = c
    BY <1>1 DEF TypeOK, Submit
  <2> QED
    BY <2>1, <2>2 DEF Submit, Submitted
<1>5. Pending'
  BY DEF Pending, MatchesActive, Submit
<1>6. Staged'
  BY <1>1 DEF Staged, RequestInv
<1>7. Answered' /\ AnswerTellsTheOutcome'
  BY DEF Submit, Answered, AnswerTellsTheOutcome
<1> QED
  BY <1>2, <1>3, <1>4, <1>5, <1>6, <1>7 DEF RequestInv

LEMMA BeginKeeps ==
  ASSUME TypeOK, RequestInv, ~outputTransitionActive,
         NEW c \in Clients, NEW req \in Requests, NEW isLoad \in BOOLEAN,
         MatchesActive(req), req.pipeline.rate = active.rate,
         isLoad => req.preset # Keep /\ req.output = active.output,
         Begin(c, req, isLoad),
         UNCHANGED <<active, previous, outputFailure, outputRollingBack,
                     configurationRevision, stopped, requestVars>>
  PROVE  RequestInv'
<1>1. task'[c] = [pc |-> "preparing", load |-> isLoad, request |-> req]
  BY DEF Begin, TypeOK
<1>2. Owned'
  <2> SUFFICES ASSUME ~stopped
               PROVE  Owned'
    BY DEF Begin, Owned
  <2>1. current' = c
    BY DEF Begin
  <2> QED
    BY <1>1, <2>1 DEF Owned, MatchesActive, requestVars
<1>3. Submitted'
  <2>1. \A d \in Clients : task'[d].pc # "waiting"
    BY <1>1, FlagIsDown DEF Begin, TypeOK
  <2> QED
    BY <2>1 DEF RequestInv, Submitted, requestVars
<1>4. LayoutFits' /\ Staged' /\ Answered' /\ AnswerTellsTheOutcome'
  BY DEF RequestInv, LayoutFits, Staged, Answered, AnswerTellsTheOutcome, requestVars
<1>5. Pending'
  BY DEF RequestInv, Pending, MatchesActive, requestVars
<1> QED
  BY <1>2, <1>3, <1>4, <1>5 DEF RequestInv

\* After a stop only the two layouts still matter.
LEMMA StopKeeps ==
  ASSUME TypeOK, RequestInv, Stop, LayoutFits',
         previous' = None => ~outputRollingBack' /\ ~outputFailure',
         outputRollingBack' => outputFailure',
         UNCHANGED <<request, outputTransitionActive, task>>
  PROVE  RequestInv'
<1>1. Owned' /\ Staged' /\ Answered' /\ AnswerTellsTheOutcome'
  BY DEF Stop, Owned, Staged, Answered, AnswerTellsTheOutcome
<1>2. Submitted'
  BY DEF RequestInv, Submitted, Stop
<1>3. Pending'
  BY DEF Pending, Stop
<1> QED
  BY <1>1, <1>2, <1>3 DEF RequestInv

LEMMA FailedChangeKeeps ==
  ASSUME TypeOK, RequestInv, FailRuntime,
         UNCHANGED <<active, previous, outputRollingBack, configurationRevision,
                     request, outputTransitionActive, task>>
  PROVE  RequestInv'
<1>1. LayoutFits'
  BY DEF RequestInv, LayoutFits
<1>2. CASE /\ previous # None /\ ~outputRollingBack
           /\ outputFailure' = TRUE
           /\ UNCHANGED <<stopped, current, answer>>
  <2>1. Staged'
    BY <1>2 DEF RequestInv, Staged
  <2>2. Owned' /\ Pending'
    BY <1>2 DEF RequestInv, Owned, Pending, MatchesActive
  <2>3. Submitted' /\ Answered' /\ AnswerTellsTheOutcome'
    BY <1>2 DEF RequestInv, Submitted, Answered, AnswerTellsTheOutcome
  <2> QED
    BY <1>1, <2>1, <2>2, <2>3 DEF RequestInv
<1>3. CASE Stop /\ UNCHANGED outputFailure
  BY <1>1, <1>3, StopKeeps DEF RequestInv, Staged
<1> QED
  BY <1>2, <1>3 DEF FailRuntime

\* Steps that the request takes no notice of.
LEMMA FrameKeeps ==
  ASSUME RequestInv,
         UNCHANGED <<active, changeVars, configurationRevision, requestVars, stopped,
                     task, current>>
  PROVE  RequestInv'
<1>1. Owned' /\ Pending'
  BY DEF RequestInv, Owned, Pending, MatchesActive, requestVars, changeVars
<1>2. LayoutFits' /\ Submitted' /\ Staged' /\ Answered' /\ AnswerTellsTheOutcome'
  BY DEF RequestInv, LayoutFits, Submitted, Staged, Answered, AnswerTellsTheOutcome,
         requestVars, changeVars
<1> QED
  BY <1>1, <1>2 DEF RequestInv

\* A preparation is given up or loses its ticket.
LEMMA DropKeeps ==
  ASSUME TypeOK, RequestInv, NEW c \in Clients, task[c].pc = "preparing",
         task' = task \/ (End(c) /\ current' # c),
         current' \in {current, None},
         UNCHANGED <<active, changeVars, configurationRevision, requestVars, stopped>>
  PROVE  RequestInv'
<1>1. \A d \in Clients : /\ task'[d].pc = "waiting" <=> task[d].pc = "waiting"
                         /\ d = current' => task'[d] = task[d]
  BY DEF End, Idle, TypeOK
<1>2. Submitted'
  BY <1>1 DEF RequestInv, Submitted, requestVars
<1>3. Owned'
  <2> SUFFICES ASSUME current' # None
               PROVE  Owned'
    BY DEF Owned
  <2>1. current' = current /\ current \in Clients /\ task'[current] = task[current]
    BY <1>1 DEF TypeOK
  <2> QED
    BY <2>1 DEF RequestInv, Owned, MatchesActive, requestVars
<1>4. Pending'
  BY DEF RequestInv, Pending, MatchesActive, requestVars, changeVars
<1>5. LayoutFits' /\ Staged' /\ Answered' /\ AnswerTellsTheOutcome'
  BY DEF RequestInv, LayoutFits, Staged, Answered, AnswerTellsTheOutcome,
         requestVars, changeVars
<1> QED
  BY <1>2, <1>3, <1>4, <1>5 DEF RequestInv

\* A pipeline is replaced while the flag is down.
LEMMA ReplaceKeeps ==
  ASSUME TypeOK, RequestInv, ~outputTransitionActive, Fits(active'),
         current' = None,
         task' = task \/ \E c \in Clients : End(c),
         UNCHANGED <<changeVars, requestVars, stopped>>
  PROVE  RequestInv'
<1>1. \A d \in Clients : task'[d].pc # "waiting"
  BY FlagIsDown DEF End, Idle, TypeOK
<1>2. request = None /\ answer = "none"
  BY FlagIsDown
<1>3. LayoutFits'
  BY DEF RequestInv, LayoutFits, Fits, changeVars
<1>4. Submitted'
  BY <1>1, <1>2 DEF RequestInv, Submitted, requestVars
<1>5. Owned' /\ Pending' /\ Answered' /\ AnswerTellsTheOutcome'
  BY <1>2 DEF Owned, Pending, Answered, AnswerTellsTheOutcome, requestVars
<1>6. Staged'
  BY FlagIsDown DEF RequestInv, Staged, changeVars
<1> QED
  BY <1>3, <1>4, <1>5, <1>6 DEF RequestInv

-----------------------------------------------------------------------------
(* The control thread *)

LEMMA SetOutputKeeps ==
  ASSUME OutputInv, NEW c \in Clients, NEW o \in Outputs, NEW p \in Choices \cup {Keep},
         NEW saw \in {None, seen[c].view}, SetOutput(c, o, p, saw)
  PROVE  RequestInv'
<1>1. TypeOK /\ RequestInv /\ ~outputTransitionActive
  BY DEF OutputInv, SetOutput, Receive
<1>2. /\ RequestFor(o, p, saw) \in Requests
      /\ MatchesActive(RequestFor(o, p, saw))
      /\ RequestFor(o, p, saw).pipeline.rate = active.rate
  <2>1. saw \in Views \cup {None}
    BY <1>1 DEF TypeOK
  <2>2. Fits(active)
    BY <1>1 DEF RequestInv, LayoutFits
  <2> QED
    BY <1>1, <2>1, <2>2, RequestType, NewRequestMatches
<1>3. UNCHANGED <<active, previous, outputFailure, outputRollingBack,
                  configurationRevision, stopped>>
  BY DEF SetOutput, changeVars
<1>4. CASE Begin(c, RequestFor(o, p, saw), FALSE) /\ UNCHANGED requestVars
  BY <1>1, <1>2, <1>3, <1>4, BeginKeeps
<1>5. CASE ~stopped /\ Submit(c, RequestFor(o, p, saw))
  BY <1>1, <1>2, <1>3, <1>5, SubmitKeeps
<1> QED
  BY <1>4, <1>5 DEF SetOutput

LEMMA LoadPresetKeeps ==
  ASSUME OutputInv, NEW c \in Clients, NEW p \in Presets, LoadPreset(c, p)
  PROVE  RequestInv'
<1>1. TypeOK /\ RequestInv /\ ~outputTransitionActive
  BY DEF OutputInv, LoadPreset, Receive
<1>2. /\ RequestFor(active.output, p, None) \in Requests
      /\ MatchesActive(RequestFor(active.output, p, None))
      /\ RequestFor(active.output, p, None).pipeline.rate = active.rate
  <2>1. active.output \in Outputs /\ p \in Choices
    BY <1>1 DEF TypeOK, Layouts, Choices
  <2>2. Fits(active)
    BY <1>1 DEF RequestInv, LayoutFits
  <2> QED
    BY <1>1, <2>1, <2>2, RequestType, NewRequestMatches
<1>3. /\ RequestFor(active.output, p, None).preset = p /\ p # Keep
      /\ RequestFor(active.output, p, None).output = active.output
  BY OutputAssumption DEF OutputAssumption, RequestFor
<1>4. UNCHANGED <<active, previous, outputFailure, outputRollingBack,
                  configurationRevision, stopped, requestVars>>
  BY DEF LoadPreset, changeVars
<1>5. Begin(c, RequestFor(active.output, p, None), TRUE)
  BY DEF LoadPreset
<1> QED
  BY <1>1, <1>2, <1>3, <1>4, <1>5, BeginKeeps

LEMMA SubmitPreparedKeeps ==
  ASSUME OutputInv, NEW c \in Clients, SubmitPrepared(c)
  PROVE  RequestInv'
<1> DEFINE req == task[c].request
           resubmitted == [req EXCEPT !.output = active.output,
                                      !.revision = configurationRevision,
                                      !.before = View(active)]
<1>1. TypeOK /\ RequestInv /\ ~outputTransitionActive /\ ~stopped
  BY DEF OutputInv, SubmitPrepared
<1>2. req \in Requests
  BY <1>1, PreparingType DEF SubmitPrepared, Prepared
<1>3. /\ MatchesActive(req)
      /\ task[c].load => req.output = active.output
  <2>1. current = c /\ c # None
    BY OutputAssumption DEF OutputAssumption, SubmitPrepared, Prepared
  <2> QED
    BY <1>1, <2>1 DEF RequestInv, Owned
<1>4. UNCHANGED <<active, previous, outputFailure, outputRollingBack,
                  configurationRevision, stopped>>
  BY DEF SubmitPrepared, changeVars
<1>5. CASE task[c].load /\ Submit(c, resubmitted)
  <2>1. /\ resubmitted.output = active.output
        /\ resubmitted.revision = configurationRevision
        /\ resubmitted.before = View(active)
        /\ resubmitted.preset = req.preset
        /\ resubmitted.pipeline = req.pipeline
    BY <1>2 DEF Requests
  <2>2. MatchesActive(resubmitted)
    BY <1>3, <1>5, <2>1 DEF MatchesActive
  <2>3. resubmitted \in Requests
    BY <1>1, <1>2, ViewType DEF Requests, TypeOK, Layouts
  <2> QED
    BY <1>1, <1>4, <1>5, <2>2, <2>3, SubmitKeeps
<1>6. CASE Submit(c, req)
  BY <1>1, <1>2, <1>3, <1>4, <1>6, SubmitKeeps
<1> QED
  BY <1>5, <1>6 DEF SubmitPrepared

\* A candidate that needs no new streams has the width of the buffers.
LEMMA PublishPresetKeeps ==
  ASSUME OutputInv, NEW c \in Clients, PublishPreset(c)
  PROVE  RequestInv'
<1> DEFINE req == task[c].request
<1>1. TypeOK /\ RequestInv
  BY DEF OutputInv
<1>2. req \in Requests /\ active \in Layouts
  BY <1>1, PreparingType DEF TypeOK, PublishPreset, Prepared
<1>3. /\ ~outputTransitionActive
      /\ req.preset # Keep /\ req.output = active.output
      /\ req.pipeline = PipelineFor(req.output, req.preset, active.rate)
  <2>1. current = c /\ c # None /\ task[c].load
    BY OutputAssumption DEF OutputAssumption, PublishPreset, Prepared, NeedsStreams
  <2> QED
    BY <1>1, <2>1 DEF RequestInv, Owned, MatchesActive
<1>4. /\ active'.output = active.output /\ active'.channels = active.channels
      /\ active'.preset = req.preset /\ active'.pipeline = req.pipeline
      /\ active'.buffers = active.buffers /\ active'.rate = active.rate
  BY <1>2 DEF PublishPreset, Layouts
<1>5. Fits(active)
  BY <1>1 DEF RequestInv, LayoutFits
<1>6. active.buffers = req.pipeline.width
  <2>1. CASE InferChannels
    BY <2>1 DEF PublishPreset, NeedsStreams
  <2>2. CASE ~InferChannels
    BY <1>3, <1>5, <2>2, PipelineForFields DEF Fits, DspWidth
  <2> QED
    BY <2>1, <2>2
<1>7. Fits(active')
  BY <1>3, <1>4, <1>5, <1>6 DEF Fits
<1> QED
  BY <1>1, <1>3, <1>7, ReplaceKeeps DEF PublishPreset

LEMMA BypassKeeps ==
  ASSUME OutputInv, NEW c \in Clients, Bypass(c)
  PROVE  RequestInv'
<1>1. TypeOK /\ RequestInv /\ ~outputTransitionActive
  BY DEF OutputInv, Bypass, Receive
<1>2. /\ active'.output = active.output /\ active'.channels = active.channels
      /\ active'.preset = None
      /\ active'.pipeline = PipelineFor(active.output, None, active.rate)
      /\ active'.buffers = active.buffers /\ active'.rate = active.rate
  BY <1>1 DEF Bypass, Layouts, TypeOK
<1>3. Fits(active)
  BY <1>1 DEF RequestInv, LayoutFits
<1>4. active.buffers = DspWidth(active.output, None)
  BY <1>3, PipelineForFields DEF Fits, DspWidth, Bypass
<1>5. Fits(active')
  BY <1>2, <1>3, <1>4, PipelineForFields DEF Fits
<1> QED
  BY <1>1, <1>5, ReplaceKeeps DEF Bypass

LEMMA TakeAnswerKeeps ==
  ASSUME OutputInv, NEW c \in Clients, TakeAnswer(c)
  PROVE  RequestInv'
<1>1. TypeOK /\ RequestInv
  BY DEF OutputInv
<1>2. \A d \in Clients : task'[d].pc # "waiting"
  BY <1>1 DEF TakeAnswer, End, Idle, TypeOK, RequestInv, Submitted
<1>3. current = None
  BY <1>1 DEF TakeAnswer, RequestInv, Submitted, Owned
<1>4. Submitted'
  BY <1>2 DEF TakeAnswer, Submitted
<1>5. LayoutFits'
  BY <1>1 DEF RequestInv, LayoutFits, TakeAnswer, changeVars
<1>6. Owned' /\ Pending' /\ Answered' /\ AnswerTellsTheOutcome'
  BY <1>3 DEF TakeAnswer, Owned, Pending, Answered, AnswerTellsTheOutcome
<1>7. Staged'
  BY <1>1 DEF RequestInv, Staged, Answered, TakeAnswer, changeVars
<1> QED
  BY <1>4, <1>5, <1>6, <1>7 DEF RequestInv

-----------------------------------------------------------------------------
(* The main loop *)

\* What Apply finds: a request that was made for what is active, and a flag that
\* keeps every candidate away.
LEMMA ApplyFinds ==
  ASSUME OutputInv, Apply
  PROVE  /\ TypeOK /\ RequestInv /\ Fits(active)
         /\ request \in Requests /\ request # None
         /\ MatchesActive(request)
         /\ previous = None /\ ~outputFailure /\ ~outputRollingBack
         /\ outputTransitionActive /\ current = None /\ current' = None
<1>1. TypeOK /\ RequestInv /\ previous = None /\ request # None /\ answer = "none"
  BY DEF OutputInv, Apply
<1>2. request \in Requests /\ MatchesActive(request)
  BY <1>1 DEF TypeOK, RequestInv, Pending
<1>3. outputTransitionActive /\ current = None
  BY <1>1 DEF RequestInv, Submitted, Owned
<1>4. current' = current
  BY DEF Apply, clientVars
<1> QED
  BY <1>1, <1>2, <1>3, <1>4 DEF RequestInv, LayoutFits, Staged

\* An answer that is true of what is active then, and nothing staged.
LEMMA AnswerKeeps ==
  ASSUME OutputInv, Apply, Fits(active'), answer' # "none",
         AnswerTellsTheOutcome',
         UNCHANGED <<previous, outputFailure>>
  PROVE  RequestInv'
<1>1. LayoutFits'
  BY ApplyFinds DEF LayoutFits
<1>2. Owned' /\ Pending'
  BY ApplyFinds DEF Owned, Pending
<1>3. Submitted'
  BY ApplyFinds DEF Apply, clientVars, RequestInv, Submitted
<1>4. Staged' /\ Answered'
  BY ApplyFinds DEF Apply, Staged, Answered
<1> QED
  BY <1>1, <1>2, <1>3, <1>4 DEF RequestInv

LEMMA RefuseRequestKeeps == OutputInv /\ RefuseRequest => RequestInv'
<1> SUFFICES ASSUME OutputInv, RefuseRequest
             PROVE  RequestInv'
  OBVIOUS
<1>1. Apply /\ answer' = "error" /\ UNCHANGED <<active, previous, outputFailure, request>>
  BY DEF RefuseRequest, Apply
<1>2. Fits(active') /\ request'.before = View(active')
  BY <1>1, ApplyFinds DEF MatchesActive
<1>3. AnswerTellsTheOutcome'
  BY <1>1, <1>2 DEF AnswerTellsTheOutcome, View
<1> QED
  BY <1>1, <1>2, <1>3, AnswerKeeps

LEMMA AcceptUnchangedKeeps == OutputInv /\ AcceptUnchanged => RequestInv'
<1> SUFFICES ASSUME OutputInv, AcceptUnchanged
             PROVE  RequestInv'
  OBVIOUS
<1>1. /\ Apply /\ answer' = "ok" /\ NothingToApply
      /\ UNCHANGED <<active, previous, outputFailure, request>>
  BY DEF AcceptUnchanged, Apply
<1>2. Fits(active')
  BY <1>1, ApplyFinds
<1>3. AnswerTellsTheOutcome'
  BY <1>1 DEF AnswerTellsTheOutcome, NothingToApply
<1> QED
  BY <1>1, <1>2, <1>3, AnswerKeeps

\* A change of labels leaves the width alone, and with it the pipeline.
LEMMA ApplyLabelsKeeps == OutputInv /\ ApplyLabels => RequestInv'
<1> SUFFICES ASSUME OutputInv, ApplyLabels
             PROVE  RequestInv'
  OBVIOUS
<1>1. /\ Apply /\ answer' = "ok" /\ LabelsOnly
      /\ UNCHANGED <<previous, outputFailure, request>>
  BY DEF ApplyLabels, Apply
<1>2. /\ active'.output = request.output /\ active'.channels = active.channels
      /\ active'.preset = active.preset /\ active'.pipeline = active.pipeline
      /\ active'.buffers = active.buffers /\ active'.rate = active.rate
  BY <1>1, ApplyFinds DEF ApplyLabels, TypeOK, Layouts
<1>3. DspWidth(request.output, active.preset) = DspWidth(active.output, active.preset)
  BY <1>1, ApplyFinds DEF Fits, LabelsOnly, DspWidth
<1>4. Fits(active')
  BY <1>1, <1>2, <1>3, ApplyFinds DEF Fits, LabelsOnly, PipelineFor
<1>5. AnswerTellsTheOutcome'
  BY <1>1, <1>2 DEF AnswerTellsTheOutcome, LabelsOnly
<1> QED
  BY <1>1, <1>4, <1>5, AnswerKeeps

\* The candidate is installed if its rate still is the rate of the DSP.
LEMMA StageChangeKeeps == OutputInv /\ StageChange => RequestInv'
<1> SUFFICES ASSUME OutputInv, StageChange
             PROVE  RequestInv'
  OBVIOUS
<1>1. /\ Apply /\ RateStillFits
      /\ previous' = active /\ active' = Requested
      /\ UNCHANGED <<answer, request, outputRollingBack, configurationRevision, stopped>>
  BY DEF StageChange, Apply, AnswerLater
<1>2. active # None /\ answer = "none"
  BY <1>1, ApplyFinds, NoneAssumption DEF NoneAssumption, TypeOK, Apply
<1>3. /\ active'.output = request.output
      /\ active'.channels = Width[request.output]
      /\ active'.preset = IF request.preset = Keep THEN active.preset ELSE request.preset
      /\ active'.pipeline = request.pipeline
      /\ active'.buffers = request.pipeline.width
      /\ active'.rate = active.rate
  BY <1>1 DEF Requested
<1>4. Fits(active')
  BY <1>1, <1>3, ApplyFinds DEF Fits, MatchesActive, RateStillFits
<1>5. LayoutFits'
  BY <1>1, <1>4, ApplyFinds DEF LayoutFits, Fits
<1>6. Owned' /\ Pending' /\ Answered' /\ AnswerTellsTheOutcome'
  BY <1>1, <1>2, ApplyFinds DEF Owned, Pending, Answered, AnswerTellsTheOutcome
<1>7. Submitted'
  BY <1>1, ApplyFinds DEF Apply, clientVars, RequestInv, Submitted
<1>8. Staged'
  BY <1>1, <1>2, <1>3, ApplyFinds DEF Staged, MatchesActive, View
<1> QED
  BY <1>5, <1>6, <1>7, <1>8 DEF RequestInv

LEMMA RollBackKeeps == OutputInv /\ RollBack => RequestInv'
<1> SUFFICES ASSUME OutputInv, RollBack
             PROVE  RequestInv'
  OBVIOUS
<1>1. TypeOK /\ RequestInv
  BY DEF OutputInv
<1>2. /\ previous # None /\ ~stopped /\ outputFailure
      /\ outputRollingBack' = TRUE /\ active' = previous
      /\ UNCHANGED <<previous, outputFailure, configurationRevision, request,
                     outputTransitionActive, task>>
  BY DEF RollBack, Restored
<1>3. LayoutFits'
  BY <1>1, <1>2 DEF RequestInv, LayoutFits, Fits
<1>4. request # None /\ answer = "none" /\ current = None /\ request.before = View(previous)
  BY <1>1, <1>2 DEF RequestInv, Staged, Submitted, Owned
<1>5. CASE UNCHANGED <<stopped, current, answer>>
  <2>1. Submitted'
    BY <1>1, <1>2, <1>5 DEF RequestInv, Submitted
  <2>2. Staged'
    BY <1>2, <1>4, <1>5 DEF Staged, View
  <2>3. Owned' /\ Pending' /\ Answered' /\ AnswerTellsTheOutcome'
    BY <1>2, <1>4, <1>5 DEF Owned, Pending, Answered, AnswerTellsTheOutcome
  <2> QED
    BY <1>3, <2>1, <2>2, <2>3 DEF RequestInv
<1>6. CASE Stop
  BY <1>1, <1>2, <1>3, <1>6, StopKeeps
<1> QED
  BY <1>5, <1>6 DEF RollBack

\* A commit leaves what was requested, the end of a rollback what ran before.
LEMMA StreamsReadyKeeps == OutputInv /\ StreamsReady => RequestInv'
<1> SUFFICES ASSUME OutputInv, StreamsReady
             PROVE  RequestInv'
  OBVIOUS
<1>1. /\ TypeOK /\ RequestInv /\ ~stopped
      /\ UNCHANGED <<active, request, outputTransitionActive, stopped, task, current>>
  BY DEF OutputInv, StreamsReady, clientVars
<1>2. CASE Committable /\ previous' = None /\ ~outputRollingBack' /\ ~outputFailure'
           /\ answer' = IF outputFailure THEN "error" ELSE "ok"
  <2>1. /\ request # None /\ answer = "none" /\ request.before = View(previous)
        /\ outputRollingBack => outputFailure /\ View(active) = View(previous)
        /\ ~outputRollingBack =>
             /\ ~outputFailure /\ active.output = request.output
             /\ request.preset # Keep => active.preset = request.preset
    BY <1>1, <1>2 DEF Committable, RequestInv, Staged
  <2>2. LayoutFits'
    BY <1>1, <1>2 DEF RequestInv, LayoutFits, Fits
  <2>3. Owned' /\ Pending'
    BY <1>1, <1>2, <2>1 DEF RequestInv, Submitted, Owned, Pending
  <2>4. Submitted'
    BY <1>1, <2>1 DEF RequestInv, Submitted
  <2>5. Staged' /\ Answered'
    BY <1>2 DEF Staged, Answered
  <2>6. AnswerTellsTheOutcome'
    BY <1>1, <1>2, <2>1 DEF AnswerTellsTheOutcome, View
  <2> QED
    BY <2>2, <2>3, <2>4, <2>5, <2>6 DEF RequestInv
<1>3. CASE UNCHANGED <<changeVars, configurationRevision, answer>>
  BY <1>1, <1>3, FrameKeeps DEF requestVars
<1> QED
  BY <1>2, <1>3 DEF StreamsReady

LEMMA NegotiateRateKeeps ==
  ASSUME OutputInv, NEW r \in Rates, NegotiateRate(r)
  PROVE  RequestInv'
<1>1. /\ TypeOK /\ RequestInv /\ Fits(active) /\ active \in Layouts
      /\ current' = None
      /\ UNCHANGED <<changeVars, configurationRevision, requestVars, stopped, task>>
  BY DEF OutputInv, NegotiateRate, TypeOK, RequestInv, LayoutFits
<1>2. /\ Fits(active')
      /\ active'.output = active.output /\ active'.preset = active.preset
  <2>1. CASE active' = [active EXCEPT !.rate = r, !.pipeline.rate = r]
    <3>1. /\ active'.output = active.output /\ active'.channels = active.channels
          /\ active'.preset = active.preset /\ active'.buffers = active.buffers
          /\ active'.rate = r
          /\ active'.pipeline = [active.pipeline EXCEPT !.rate = r]
      BY <1>1, <2>1 DEF Layouts
    <3>2. [active.pipeline EXCEPT !.rate = r] = PipelineFor(active.output, active.preset, r)
      BY <1>1 DEF Fits, PipelineFor
    <3>3. active'.pipeline.width = active.pipeline.width
      BY <1>1, <3>1, <3>2, PipelineForFields DEF Fits
    <3> QED
      BY <1>1, <3>1, <3>2, <3>3 DEF Fits
  <2>2. CASE UNCHANGED active
    BY <1>1, <2>2
  <2> QED
    BY <2>1, <2>2 DEF NegotiateRate
<1>3. View(active') = View(active)
  BY <1>2 DEF View
<1>4. LayoutFits'
  BY <1>1, <1>2 DEF RequestInv, LayoutFits, changeVars, Fits
<1>5. Owned' /\ Submitted' /\ Answered'
  BY <1>1 DEF RequestInv, Owned, Submitted, Answered, requestVars, changeVars
<1>6. Pending'
  BY <1>1, <1>2, <1>3 DEF RequestInv, Pending, MatchesActive, requestVars, changeVars
<1>7. Staged' /\ AnswerTellsTheOutcome'
  BY <1>1, <1>2, <1>3 DEF RequestInv, Staged, AnswerTellsTheOutcome, requestVars, changeVars
<1> QED
  BY <1>4, <1>5, <1>6, <1>7 DEF RequestInv

-----------------------------------------------------------------------------
LEMMA RequestStep == OutputInv /\ [Next]_vars => RequestInv'
<1> SUFFICES ASSUME OutputInv, [Next]_vars
             PROVE  RequestInv'
  OBVIOUS
<1>1. TypeOK /\ RequestInv
  BY DEF OutputInv
<1>2. ASSUME NEW c \in Clients, ReadStatus(c)
      PROVE  RequestInv'
  BY <1>1, <1>2, FrameKeeps DEF ReadStatus
<1>3. ASSUME NEW c \in Clients, Disconnect(c)
      PROVE  RequestInv'
  BY <1>1, <1>3, DropKeeps DEF Disconnect, runVars
<1>4. ASSUME NEW c \in Clients, Abandon(c)
      PROVE  RequestInv'
  <2>1. current' # c /\ current' \in {current, None}
    BY <1>4, OutputAssumption DEF OutputAssumption, Abandon
  <2> QED
    BY <1>1, <1>4, <2>1, DropKeeps DEF Abandon
<1>5. ASSUME RestartStreams
      PROVE  RequestInv'
  BY <1>1, <1>5, FrameKeeps DEF RestartStreams, clientVars
<1>6. ASSUME GraphFails \/ DeadlineExpires
      PROVE  RequestInv'
  BY <1>1, <1>6, FailedChangeKeeps DEF GraphFails, DeadlineExpires
<1>7. ASSUME CompleteRuntime
      PROVE  RequestInv'
  <2>1. LayoutFits' /\ UNCHANGED changeVars
    BY <1>1, <1>7 DEF CompleteRuntime, RequestInv, LayoutFits, changeVars
  <2> QED
    BY <1>1, <1>7, <2>1, StopKeeps DEF CompleteRuntime, RequestInv, Staged, changeVars
<1>8. CASE UNCHANGED vars
  BY <1>1, <1>8, FrameKeeps DEF vars, clientVars
<1> QED
  BY <1>2, <1>3, <1>4, <1>5, <1>6, <1>7, <1>8, SetOutputKeeps, LoadPresetKeeps,
     SubmitPreparedKeeps, PublishPresetKeeps, BypassKeeps, TakeAnswerKeeps,
     RefuseRequestKeeps, AcceptUnchangedKeeps, ApplyLabelsKeeps, StageChangeKeeps,
     RollBackKeeps, StreamsReadyKeeps, NegotiateRateKeeps, Zenon
  DEF Next, OutputChangeRequested, Resume

LEMMA InitOutputInv == Init => OutputInv
  BY InitTypeOK, InitRequest DEF OutputInv

LEMMA NextOutputInv == OutputInv /\ [Next]_vars => OutputInv'
  BY TypeStep, RequestStep DEF OutputInv, RequestInv

LEMMA OutputInvariant == Spec => []OutputInv
  BY InitOutputInv, NextOutputInv, PTL DEF Spec

\* Every variable keeps its type, with any number of commands.
THEOREM OutputTypeOK == Spec => []TypeOK
BY OutputInvariant, PTL DEF OutputInv

\* No candidate of another width, preset or rate is ever installed or restored:
\* the revision, the ticket and the comparison of rates in outputChangeRequested
\* are enough.
THEOREM OutputLayoutFits == Spec => []LayoutFits
<1>1. OutputInv => LayoutFits
  BY DEF OutputInv, RequestInv
<1> QED
  BY <1>1, OutputInvariant, PTL

\* A client that is told of success has its configuration, one that is told of a
\* failure the configuration it started from.
THEOREM OutputAnswerTellsTheOutcome == Spec => []AnswerTellsTheOutcome
<1>1. OutputInv => AnswerTellsTheOutcome
  BY DEF OutputInv, RequestInv
<1> QED
  BY <1>1, OutputInvariant, PTL

\* A staged change has its one waiting client.
THEOREM OutputStagedChangeIsExclusive == Spec => []StagedChangeIsExclusive
<1>1. OutputInv => StagedChangeIsExclusive
  BY DEF OutputInv, RequestInv, Submitted, Staged, StagedChangeIsExclusive
<1> QED
  BY <1>1, OutputInvariant, PTL

-----------------------------------------------------------------------------
(* What clients saw *)

\* The configuration that the present revision stands for.
Committed == View(IF previous = None THEN active ELSE previous)

\* Clients that read no status during a staged change took the present revision
\* for what it stands for.
ReadsAreCommitted ==
  \A c \in Clients :
    /\ seen[c].revision <= configurationRevision
    /\ seen[c].revision = configurationRevision => seen[c].view = Committed

CandidateWasSeen ==
  current # None /\ task[current].request.saw # None =>
    task[current].request.saw = task[current].request.before

SeenInv == ReadsAreCommitted /\ CandidateWasSeen /\ NamedRevisionWasSeen

LEMMA ReadsStayCommitted ==
  ~StatusDuringChange /\ OutputInv /\ ReadsAreCommitted /\ [Next]_vars => ReadsAreCommitted'
<1> SUFFICES ASSUME ~StatusDuringChange, OutputInv, ReadsAreCommitted, [Next]_vars
             PROVE  ReadsAreCommitted'
  OBVIOUS
<1>1. /\ TypeOK /\ RequestInv
      /\ configurationRevision \in Nat /\ \A c \in Clients : seen[c].revision \in Nat
  BY DEF OutputInv, TypeOK
<1>2. ASSUME seen' = seen, configurationRevision' = configurationRevision + 1
      PROVE  ReadsAreCommitted'
  BY <1>1, <1>2 DEF ReadsAreCommitted
<1>3. ASSUME seen' = seen, configurationRevision' = configurationRevision,
             Committed' = Committed
      PROVE  ReadsAreCommitted'
  BY <1>3 DEF ReadsAreCommitted
<1>4. ASSUME NEW c \in Clients, ReadStatus(c)
      PROVE  ReadsAreCommitted'
  <2>1. /\ previous = None
        /\ UNCHANGED <<active, previous, configurationRevision>>
        /\ seen' = [seen EXCEPT ![c] = Status]
    BY <1>4 DEF ReadStatus, changeVars
  <2>2. Committed' = Committed /\ Committed = View(active)
    BY <2>1 DEF Committed, View
  <2>3. \A d \in Clients : seen'[d] = IF d = c THEN Status ELSE seen[d]
    BY <1>1, <2>1 DEF TypeOK
  <2> QED
    BY <1>1, <2>1, <2>2, <2>3 DEF ReadsAreCommitted, Status
<1>5. ASSUME NEW c \in Clients,
             \/ \E o \in Outputs, p \in Choices \cup {Keep}, saw \in {None, seen[c].view} :
                  SetOutput(c, o, p, saw)
             \/ \E p \in Presets : LoadPreset(c, p)
             \/ Disconnect(c) \/ SubmitPrepared(c) \/ Abandon(c) \/ TakeAnswer(c)
      PROVE  ReadsAreCommitted'
  <2>1. UNCHANGED <<active, previous, configurationRevision, seen>>
    BY <1>5 DEF SetOutput, LoadPreset, Disconnect, SubmitPrepared, Abandon, TakeAnswer,
                changeVars
  <2> QED
    BY <1>3, <2>1 DEF Committed, View
<1>6. ASSUME NEW c \in Clients, PublishPreset(c) \/ Bypass(c)
      PROVE  ReadsAreCommitted'
  BY <1>2, <1>6 DEF PublishPreset, Bypass
<1>7. ASSUME RefuseRequest \/ AcceptUnchanged \/ RestartStreams \/ UNCHANGED vars
      PROVE  ReadsAreCommitted'
  <2>1. UNCHANGED <<active, previous, configurationRevision, seen>>
    BY <1>7 DEF RefuseRequest, AcceptUnchanged, RestartStreams, Apply, vars, changeVars,
                clientVars
  <2> QED
    BY <1>3, <2>1 DEF Committed, View
<1>8. ASSUME GraphFails \/ DeadlineExpires \/ CompleteRuntime
      PROVE  ReadsAreCommitted'
  <2>1. UNCHANGED <<active, previous, configurationRevision, seen>>
    BY <1>8 DEF GraphFails, DeadlineExpires, CompleteRuntime, changeVars
  <2> QED
    BY <1>3, <2>1 DEF Committed, View
<1>9. ASSUME ApplyLabels
      PROVE  ReadsAreCommitted'
  BY <1>2, <1>9 DEF ApplyLabels, Apply, clientVars
<1>10. ASSUME StageChange
       PROVE  ReadsAreCommitted'
  <2>1. /\ previous = None /\ previous' = active /\ active # None
        /\ UNCHANGED <<configurationRevision, seen>>
    BY <1>1, <1>10, NoneAssumption DEF NoneAssumption, StageChange, Apply, clientVars, TypeOK
  <2> QED
    BY <1>3, <2>1 DEF Committed, View
<1>11. ASSUME RollBack
       PROVE  ReadsAreCommitted'
  <2>1. previous # None /\ UNCHANGED <<previous, configurationRevision, seen>>
    BY <1>11 DEF RollBack
  <2> QED
    BY <1>3, <2>1 DEF Committed, View
<1>12. ASSUME StreamsReady
       PROVE  ReadsAreCommitted'
  <2>1. seen' = seen /\ active' = active /\ ~stopped
    BY <1>12 DEF StreamsReady, clientVars
  <2>2. CASE UNCHANGED <<changeVars, configurationRevision, answer>>
    BY <1>3, <2>1, <2>2 DEF Committed, View, changeVars
  <2>3. CASE configurationRevision' = configurationRevision + 1
    BY <1>2, <2>1, <2>3
  <2>4. CASE /\ Committable /\ outputRollingBack /\ previous' = None
             /\ configurationRevision' = configurationRevision
    <3>1. View(active) = View(previous) /\ previous # None
      BY <1>1, <2>1, <2>4 DEF RequestInv, Staged, Committable
    <3> QED
      BY <1>3, <2>1, <2>4, <3>1 DEF Committed, View
  <2> QED
    BY <1>12, <2>2, <2>3, <2>4 DEF StreamsReady
<1>13. ASSUME NEW r \in Rates, NegotiateRate(r)
       PROVE  ReadsAreCommitted'
  <2>1. UNCHANGED <<previous, configurationRevision, seen>>
    BY <1>13 DEF NegotiateRate, changeVars
  <2>2. active'.output = active.output /\ active'.preset = active.preset
    BY <1>1, <1>13 DEF NegotiateRate, TypeOK, Layouts
  <2> QED
    BY <1>3, <2>1, <2>2 DEF Committed, View
<1> QED
  BY <1>4, <1>5, <1>6, <1>7, <1>8, <1>9, <1>10, <1>11, <1>12, <1>13, Zenon
  DEF Next, OutputChangeRequested, Resume

\* If the request names a revision, its sender knew that configuration.
SawTruth(req) == req.saw # None => req.saw = req.before

LEMMA SeenStep == ~StatusDuringChange /\ OutputInv /\ SeenInv /\ [Next]_vars => SeenInv'
<1> SUFFICES ASSUME ~StatusDuringChange, OutputInv, SeenInv, [Next]_vars
             PROVE  CandidateWasSeen' /\ NamedRevisionWasSeen'
  BY ReadsStayCommitted DEF SeenInv
<1>1. TypeOK /\ RequestInv /\ None \notin Clients
  BY OutputAssumption DEF OutputAssumption, OutputInv
<1>2. /\ current # None => SawTruth(task[current].request)
      /\ request # None => SawTruth(request)
  BY DEF SeenInv, CandidateWasSeen, NamedRevisionWasSeen, SawTruth
<1>3. ASSUME request' \in {request, None},
             current' = None \/ (current' = current /\ task'[current] = task[current])
      PROVE  CandidateWasSeen' /\ NamedRevisionWasSeen'
  BY <1>2, <1>3 DEF CandidateWasSeen, NamedRevisionWasSeen, SawTruth
<1>4. ASSUME NEW c \in Clients, NEW req, NEW isLoad, Begin(c, req, isLoad), SawTruth(req) \/ stopped,
             request' = request
      PROVE  CandidateWasSeen' /\ NamedRevisionWasSeen'
  <2>1. task'[c] = [pc |-> "preparing", load |-> isLoad, request |-> req]
    BY <1>1, <1>4 DEF Begin, TypeOK
  <2> QED
    BY <1>2, <1>4, <2>1 DEF Begin, CandidateWasSeen, NamedRevisionWasSeen, SawTruth
<1>5. ASSUME NEW c \in Clients, NEW req, Submit(c, req), SawTruth(req)
      PROVE  CandidateWasSeen' /\ NamedRevisionWasSeen'
  BY <1>5 DEF Submit, CandidateWasSeen, NamedRevisionWasSeen, SawTruth
<1>6. ASSUME NEW c \in Clients, NEW o \in Outputs, NEW p \in Choices \cup {Keep},
             NEW saw \in {None, seen[c].view}, SetOutput(c, o, p, saw)
      PROVE  CandidateWasSeen' /\ NamedRevisionWasSeen'
  <2>1. SawTruth(RequestFor(o, p, saw)) \/ stopped
    <3> SUFFICES ASSUME ~stopped, saw # None
                 PROVE  SawTruth(RequestFor(o, p, saw))
      BY DEF SawTruth, RequestFor
    <3>1. previous = None
      BY <1>1, <1>6, FlagIsDown DEF SetOutput, Receive
    <3>2. saw = View(active)
      BY <1>6, <3>1 DEF SetOutput, RevisionAccepted, SeenInv, ReadsAreCommitted, Committed
    <3> QED
      BY <3>2 DEF SawTruth, RequestFor
  <2>2. CASE Begin(c, RequestFor(o, p, saw), FALSE) /\ UNCHANGED requestVars
    BY <1>4, <2>1, <2>2 DEF requestVars
  <2>3. CASE ~stopped /\ Submit(c, RequestFor(o, p, saw))
    BY <1>5, <2>1, <2>3
  <2> QED
    BY <1>6, <2>2, <2>3 DEF SetOutput
<1>7. ASSUME NEW c \in Clients, NEW p \in Presets, LoadPreset(c, p)
      PROVE  CandidateWasSeen' /\ NamedRevisionWasSeen'
  <2>1. SawTruth(RequestFor(active.output, p, None))
    BY DEF SawTruth, RequestFor
  <2> QED
    BY <1>4, <1>7, <2>1 DEF LoadPreset, requestVars
<1>8. ASSUME NEW c \in Clients, SubmitPrepared(c)
      PROVE  CandidateWasSeen' /\ NamedRevisionWasSeen'
  <2> DEFINE req == task[c].request
             resubmitted == [req EXCEPT !.output = active.output,
                                        !.revision = configurationRevision,
                                        !.before = View(active)]
  <2>1. req \in Requests
    BY <1>1, <1>8, PreparingType DEF SubmitPrepared, Prepared
  <2>2. SawTruth(req) /\ req.before = View(active)
    BY <1>1, <1>2, <1>8 DEF SubmitPrepared, Prepared, RequestInv, Owned, MatchesActive
  <2>3. resubmitted.saw = req.saw /\ resubmitted.before = View(active)
    BY <2>1 DEF Requests
  <2>4. SawTruth(resubmitted)
    BY <2>2, <2>3 DEF SawTruth
  <2>5. Submit(c, resubmitted) \/ Submit(c, req)
    BY <1>8 DEF SubmitPrepared
  <2> QED
    BY <1>5, <2>2, <2>4, <2>5
<1>9. ASSUME NEW c \in Clients, Abandon(c)
      PROVE  CandidateWasSeen' /\ NamedRevisionWasSeen'
  <2>1. current' = None \/ (current' = current /\ task'[current] = task[current])
    BY <1>1, <1>9 DEF Abandon, End, TypeOK
  <2> QED
    BY <1>3, <1>9, <2>1 DEF Abandon, requestVars
<1>10. ASSUME NEW c \in Clients, TakeAnswer(c)
       PROVE  CandidateWasSeen' /\ NamedRevisionWasSeen'
  <2>1. current = None
    BY <1>1, <1>10 DEF TakeAnswer, RequestInv, Submitted, Owned
  <2> QED
    BY <1>3, <1>10, <2>1 DEF TakeAnswer
<1>11. ASSUME NEW c \in Clients,
              ReadStatus(c) \/ PublishPreset(c) \/ Bypass(c) \/ Disconnect(c)
       PROVE  CandidateWasSeen' /\ NamedRevisionWasSeen'
  BY <1>3, <1>11 DEF ReadStatus, PublishPreset, Bypass, Disconnect, requestVars
<1>12. ASSUME RefuseRequest \/ AcceptUnchanged \/ ApplyLabels \/ StageChange \/ StreamsReady
       PROVE  CandidateWasSeen' /\ NamedRevisionWasSeen'
  BY <1>3, <1>12 DEF RefuseRequest, AcceptUnchanged, ApplyLabels, StageChange, StreamsReady,
                     Apply, clientVars
<1>13. ASSUME RollBack \/ GraphFails \/ DeadlineExpires \/ CompleteRuntime
       PROVE  CandidateWasSeen' /\ NamedRevisionWasSeen'
  BY <1>3, <1>13 DEF RollBack, GraphFails, DeadlineExpires, CompleteRuntime, FailRuntime, Stop
<1>14. ASSUME RestartStreams \/ (\E r \in Rates : NegotiateRate(r)) \/ UNCHANGED vars
       PROVE  CandidateWasSeen' /\ NamedRevisionWasSeen'
  BY <1>3, <1>14 DEF RestartStreams, NegotiateRate, vars, requestVars, clientVars
<1> QED
  BY <1>6, <1>7, <1>8, <1>9, <1>10, <1>11, <1>12, <1>13, <1>14, Zenon
  DEF Next, OutputChangeRequested, Resume

\* As long as no status is read during a staged change, a request that names a
\* revision is applied to what its sender saw.
THEOREM OutputNamedRevisionWasSeen == ~StatusDuringChange => (Spec => []NamedRevisionWasSeen)
<1> SUFFICES ASSUME ~StatusDuringChange
             PROVE  Spec => []NamedRevisionWasSeen
  OBVIOUS
<1>1. Init => SeenInv
  <2> SUFFICES ASSUME Init
               PROVE  SeenInv
    OBVIOUS
  <2>1. \A c \in Clients : /\ seen[c].revision = configurationRevision
                           /\ seen[c].view = Committed
    BY DEF Init, Status, Committed
  <2> QED
    BY <2>1 DEF Init, SeenInv, ReadsAreCommitted, CandidateWasSeen, NamedRevisionWasSeen
<1>2. OutputInv /\ SeenInv /\ [Next]_vars => SeenInv'
  BY SeenStep
<1>3. SeenInv => NamedRevisionWasSeen
  BY DEF SeenInv
<1> QED
  BY <1>1, <1>2, <1>3, OutputInvariant, PTL DEF Spec

-----------------------------------------------------------------------------
(* The commands that change and save the configuration. *)

\* A status that was shown in this life is not newer than the daemon, and not
\* outdated if its revision is the present one.
IsShown(view) ==
  /\ view.life <= daemon.life
  /\ view.life = daemon.life =>
       /\ view.revision <= daemon.revision
       /\ view.revision = daemon.revision => view.configuration = daemon.configuration

ShownInv == \A c \in Commands : IsShown(told[c]) /\ IsShown(reply[c])

CommandsInv == CommandsTypeOK /\ ShownInv

-----------------------------------------------------------------------------
(* Types. *)

LEMMA CurrentStatusType == CommandsTypeOK => CurrentStatus \in Statuses
  BY DEF CommandsTypeOK, CurrentStatus, Statuses

LEMMA NewConfigurationType ==
  ASSUME CommandsTypeOK, NEW c \in Commands, NEW old \in Configurations
  PROVE  NewConfiguration(c, old) \in Configurations
  BY CommandsAssumption DEF CommandsTypeOK, NewConfiguration, Configurations, Wishes

LEMMA InitTypes == CommandsInit => CommandsTypeOK
<1> SUFFICES ASSUME CommandsInit PROVE CommandsTypeOK
  OBVIOUS
<1> PICK plan \in Plans : saved = [f \in Fields |-> plan.saved] /\ wish = plan.wish
  BY DEF CommandsInit
<1>0. plan.saved \in FieldValues /\ plan.wish \in [Commands -> Wishes]
  BY CommandsAssumption
<1>1. saved \in Configurations
  BY <1>0 DEF Configurations
<1>2. daemon \in [up : BOOLEAN, configuration : Configurations, revision : Nat, life : Nat]
  BY <1>1 DEF CommandsInit
<1>3. CurrentStatus \in Statuses
  BY <1>2 DEF CurrentStatus, Statuses
<1>4. wish \in [Commands -> Wishes]
  BY <1>0
<1> QED
  BY <1>1, <1>2, <1>3, <1>4
  DEF CommandsInit, CommandsTypeOK, Stages, Reports

LEMMA BeginTypes ==
  ASSUME CommandsTypeOK, NEW c \in Commands, BeginCommand(c) PROVE CommandsTypeOK'
<1>1. alone' \in [Commands -> BOOLEAN]
  BY DEF BeginCommand
<1>2. found' \in [Commands -> [saved : Configurations, running : Configurations]]
  BY DEF BeginCommand, CommandsTypeOK
<1>3. stage' \in [Commands -> Stages]
  BY DEF BeginCommand, CommandsTypeOK, GoTo, Stages
<1> QED
  BY <1>1, <1>2, <1>3 DEF BeginCommand, CommandsTypeOK

\* What most steps of a command do to its own bookkeeping.
LEMMA MeetsType ==
  ASSUME CommandsTypeOK, NEW c \in Commands, Meets(c)
  PROVE  alone' \in [Commands -> BOOLEAN]
  BY DEF CommandsTypeOK, Meets

LEMMA GoToType ==
  ASSUME CommandsTypeOK, NEW c \in Commands, NEW s \in Stages, GoTo(c, s)
  PROVE  stage' \in [Commands -> Stages]
  BY DEF CommandsTypeOK, GoTo

LEMMA ReportType ==
  ASSUME CommandsTypeOK, NEW c \in Commands, NEW r \in Reports, Report(c, r)
  PROVE  stage' \in [Commands -> Stages] /\ report' \in [Commands -> Reports]
  BY DEF CommandsTypeOK, Report, Stages

LEMMA ExchangeFailsType ==
  ASSUME CommandsTypeOK, NEW c \in Commands, ExchangeFails(c)
  PROVE  stage' \in [Commands -> Stages] /\ report' \in [Commands -> Reports]
  BY DEF CommandsTypeOK, ExchangeFails, GoTo, Report, Stages, Reports

LEMMA NewLifeType ==
  CommandsTypeOK =>
    NewLife \in [up : BOOLEAN, configuration : Configurations, revision : Nat, life : Nat]
  BY DEF CommandsTypeOK, NewLife

LEMMA ClosedType ==
  CommandsTypeOK =>
    Closed \in [Commands -> {"none", "request", "undo", "accepted", "refused",
                             "answer", "refusal", "closed"}]
  BY DEF CommandsTypeOK, Closed

LEMMA StepTypes ==
  ASSUME CommandsTypeOK, NEW c \in Commands,
         \/ LoadSaved(c) \/ QueryOutputs(c) \/ SendRequest(c) \/ TakeReply(c)
         \/ LoseReply(c) \/ WriteSaved(c) \/ SendUndo(c) \/ EndUndo(c)
         \/ RestartDaemon(c)
  PROVE  CommandsTypeOK'
<1>1. CASE LoadSaved(c)
  <2>1. stage' \in [Commands -> Stages] /\ report' \in [Commands -> Reports]
    BY <1>1 DEF LoadSaved, ReportUnsaved, CommandsTypeOK, GoTo, Report, Stages, Reports
  <2>2. loaded' \in [Commands -> Configurations] /\ alone' \in [Commands -> BOOLEAN]
    BY <1>1, MeetsType DEF LoadSaved, CommandsTypeOK
  <2> QED
    BY <1>1, <2>1, <2>2 DEF LoadSaved, CommandsTypeOK
<1>2. CASE QueryOutputs(c)
  <2>1. stage' \in [Commands -> Stages] /\ report' \in [Commands -> Reports]
    BY <1>2 DEF QueryOutputs, CommandsTypeOK, GoTo, Report, Stages, Reports
  <2>2. before' \in [Commands -> Statuses] /\ alone' \in [Commands -> BOOLEAN]
    BY <1>2, MeetsType, CurrentStatusType DEF QueryOutputs, CommandsTypeOK
  <2> QED
    BY <1>2, <2>1, <2>2 DEF QueryOutputs, CommandsTypeOK
<1>3. CASE SendRequest(c)
  <2>1. stage' \in [Commands -> Stages] /\ report' \in [Commands -> Reports]
    BY <1>3, ExchangeFailsType DEF SendRequest, CommandsTypeOK, GoTo, Stages
  <2> QED
    BY <1>3, <2>1, MeetsType DEF SendRequest, CommandsTypeOK
<1>4. CASE TakeReply(c)
  <2>1. stage' \in [Commands -> Stages] /\ report' \in [Commands -> Reports]
    BY <1>4 DEF TakeReply, CommandsTypeOK, GoTo, Report, Stages, Reports
  <2>2. live' \in [Commands -> BOOLEAN] /\ reply' \in [Commands -> Statuses]
    <3>1. \/ UNCHANGED <<live, reply>>
          \/ /\ live' = [live EXCEPT ![c] = TRUE]
             /\ reply' = [reply EXCEPT ![c] = told[c]]
      BY <1>4 DEF TakeReply
    <3> QED
      BY <3>1 DEF CommandsTypeOK
  <2>3. mail' \in [Commands -> {"none", "request", "undo", "accepted", "refused",
                                "answer", "refusal", "closed"}]
    BY <1>4 DEF TakeReply, CommandsTypeOK
  <2> QED
    BY <1>4, <2>1, <2>2, <2>3, MeetsType DEF TakeReply, CommandsTypeOK
<1>5. CASE LoseReply(c)
  BY <1>5, MeetsType, ExchangeFailsType DEF LoseReply, CommandsTypeOK
<1>6. CASE WriteSaved(c)
  <2>1. NewConfiguration(c, loaded[c]) \in Configurations
    BY NewConfigurationType DEF CommandsTypeOK
  <2> QED
    BY <1>6, <2>1, MeetsType
       DEF WriteSaved, ReportUnsaved, CommandsTypeOK, GoTo, Report, Stages, Reports
<1>7. CASE SendUndo(c)
  BY <1>7, MeetsType DEF SendUndo, CommandsTypeOK, GoTo, Report, Stages, Reports
<1>8. CASE EndUndo(c)
  BY <1>8, MeetsType DEF EndUndo, CommandsTypeOK, Report, Stages, Reports
<1>9. CASE RestartDaemon(c)
  BY <1>9, MeetsType, NewLifeType, ClosedType
  DEF RestartDaemon, CommandsTypeOK, Report, Stages, Reports
<1> QED
  BY <1>1, <1>2, <1>3, <1>4, <1>5, <1>6, <1>7, <1>8, <1>9

\* The daemon after a request: the same life, another configuration, perhaps.
LEMMA Executed ==
  ASSUME CommandsTypeOK, NEW c \in Commands, Execute(c)
  PROVE  /\ daemon' \in [up : BOOLEAN, configuration : Configurations,
                         revision : Nat, life : Nat]
         /\ daemon'.life = daemon.life
         /\ \/ /\ daemon'.revision = daemon.revision
               /\ daemon'.configuration = daemon.configuration
            \/ daemon'.revision = daemon.revision + 1
<1> PICK newer \in 0 .. 1 :
     \/ /\ RevisionFits(c)
        /\ mail' = [mail EXCEPT ![c] = "accepted"]
        /\ LET next == [daemon.configuration EXCEPT ![Asked(c).field] = Asked(c).value] IN
             /\ next # daemon.configuration => newer = 1
             /\ daemon' = [daemon EXCEPT !.configuration = next, !.revision = @ + newer]
     \/ /\ mail' = [mail EXCEPT ![c] = "refused"]
        /\ daemon' = [daemon EXCEPT !.revision = @ + newer]
  BY DEF Execute
<1> DEFINE next == [daemon.configuration EXCEPT ![Asked(c).field] = Asked(c).value]
<1>1. next \in Configurations
  <2>1. Asked(c).value \in FieldValues
    BY CommandsAssumption DEF Asked, CommandsTypeOK, Wishes, Statuses, Configurations, Fields
  <2> QED
    BY <2>1 DEF CommandsTypeOK, Configurations
<1>2. daemon.revision + newer \in Nat
  BY DEF CommandsTypeOK
<1>3. CASE daemon' = [daemon EXCEPT !.configuration = next, !.revision = @ + newer]
           /\ (next # daemon.configuration => newer = 1)
  <2> HIDE DEF next
  <2>1. daemon' = [up |-> daemon.up, configuration |-> next,
                   revision |-> daemon.revision + newer, life |-> daemon.life]
    BY <1>3 DEF CommandsTypeOK
  <2>2. newer = 0 \/ newer = 1
    OBVIOUS
  <2> QED
    BY <1>1, <1>2, <1>3, <2>1, <2>2 DEF CommandsTypeOK
<1>4. CASE daemon' = [daemon EXCEPT !.revision = @ + newer]
  BY <1>2, <1>4 DEF CommandsTypeOK
<1> QED
  BY <1>3, <1>4

LEMMA DaemonTypes ==
  ASSUME CommandsTypeOK,
         (\E c \in Commands : Execute(c) \/ Answer(c)) \/ StopDaemon \/ StartDaemon
  PROVE  CommandsTypeOK'
<1>1. ASSUME NEW c \in Commands, Execute(c) PROVE CommandsTypeOK'
  <2>1. alone' \in [Commands -> BOOLEAN]
    BY <1>1, MeetsType DEF Execute
  <2>2. mail' \in [Commands -> {"none", "request", "undo", "accepted", "refused",
                                "answer", "refusal", "closed"}]
    <3>1. \/ mail' = [mail EXCEPT ![c] = "accepted"]
          \/ mail' = [mail EXCEPT ![c] = "refused"]
      BY <1>1 DEF Execute
    <3> QED
      BY <3>1 DEF CommandsTypeOK
  <2>3. daemon' \in [up : BOOLEAN, configuration : Configurations, revision : Nat,
                     life : Nat]
    BY <1>1, Executed
  <2> QED
    BY <1>1, <2>1, <2>2, <2>3 DEF Execute, CommandsTypeOK
<1>2. ASSUME NEW c \in Commands, Answer(c) PROVE CommandsTypeOK'
  BY <1>2, CurrentStatusType DEF Answer, CommandsTypeOK
<1>3. CASE StopDaemon
  BY <1>3, ClosedType DEF StopDaemon, CommandsTypeOK
<1>4. CASE StartDaemon
  BY <1>4, NewLifeType DEF StartDaemon, CommandsTypeOK
<1> QED
  BY <1>1, <1>2, <1>3, <1>4

-----------------------------------------------------------------------------
(* What has been shown. *)

LEMMA ShownStep ==
  ASSUME CommandsInv, CommandsNext PROVE ShownInv'
<1> USE DEF CommandsInv
<1>1. ASSUME NEW c \in Commands,
             \/ BeginCommand(c) \/ LoadSaved(c) \/ QueryOutputs(c) \/ SendRequest(c)
             \/ LoseReply(c) \/ WriteSaved(c) \/ SendUndo(c) \/ EndUndo(c)
      PROVE  ShownInv'
  <2>1. UNCHANGED <<daemon, told, reply>>
    BY <1>1 DEF BeginCommand, LoadSaved, QueryOutputs, SendRequest, LoseReply,
                WriteSaved, SendUndo, EndUndo
  <2> QED
    BY <2>1 DEF ShownInv, IsShown
<1>2. ASSUME NEW c \in Commands, TakeReply(c) PROVE ShownInv'
  BY <1>2 DEF TakeReply, ShownInv, IsShown, CommandsTypeOK
<1>3. ASSUME daemon' = NewLife, UNCHANGED <<told, reply>> PROVE ShownInv'
  BY <1>3 DEF NewLife, ShownInv, IsShown, CommandsTypeOK, Statuses
<1>4. ASSUME NEW c \in Commands, RestartDaemon(c) PROVE ShownInv'
  BY <1>3, <1>4 DEF RestartDaemon, ShownInv, IsShown
<1>5. ASSUME NEW c \in Commands, Execute(c) PROVE ShownInv'
  <2>1. UNCHANGED <<told, reply>>
    BY <1>5 DEF Execute
  <2>2. /\ daemon'.life = daemon.life
        /\ \/ /\ daemon'.revision = daemon.revision
              /\ daemon'.configuration = daemon.configuration
           \/ daemon'.revision = daemon.revision + 1
    BY <1>5, Executed
  <2>3. \A v \in Statuses : v.revision \in Nat /\ (IsShown(v) => IsShown(v)')
    BY <2>2 DEF IsShown, CommandsTypeOK, Statuses
  <2> QED
    BY <2>1, <2>3 DEF ShownInv, CommandsTypeOK
<1>6. ASSUME NEW c \in Commands, Answer(c) PROVE ShownInv'
  <2>1. UNCHANGED <<daemon, reply>> /\ told' = [told EXCEPT ![c] = CurrentStatus]
    BY <1>6 DEF Answer
  <2>2. IsShown(CurrentStatus)
    BY DEF IsShown, CurrentStatus, CommandsTypeOK
  <2> QED
    BY <2>1, <2>2 DEF ShownInv, IsShown, CommandsTypeOK
<1>7. CASE StopDaemon
  BY <1>7 DEF StopDaemon, ShownInv, IsShown, CommandsTypeOK
<1>8. CASE StartDaemon
  BY <1>3, <1>8 DEF StartDaemon
<1> QED
  BY <1>1, <1>2, <1>4, <1>5, <1>6, <1>7, <1>8, Zenon DEF CommandsNext, CommandStep

LEMMA InitCommandsInv == CommandsInit => CommandsInv
<1> SUFFICES ASSUME CommandsInit PROVE CommandsInv
  OBVIOUS
<1>1. CommandsTypeOK
  BY InitTypes
<1>2. \A c \in Commands : told[c] = CurrentStatus /\ reply[c] = CurrentStatus
  BY DEF CommandsInit
<1>3. IsShown(CurrentStatus)
  BY <1>1 DEF IsShown, CurrentStatus, CommandsTypeOK
<1> QED
  BY <1>1, <1>2, <1>3 DEF CommandsInv, ShownInv, IsShown

LEMMA NextCommandsInv == CommandsInv /\ [CommandsNext]_commandVars => CommandsInv'
<1> SUFFICES ASSUME CommandsInv, [CommandsNext]_commandVars PROVE CommandsInv'
  OBVIOUS
<1>1. CASE CommandsNext
  <2>1. CommandsTypeOK
    BY DEF CommandsInv
  <2>2. CommandsTypeOK'
    BY <1>1, <2>1, BeginTypes, StepTypes, DaemonTypes, Zenon DEF CommandsNext, CommandStep
  <2> QED
    BY <1>1, <2>2, ShownStep DEF CommandsInv
<1>2. CASE UNCHANGED commandVars
  BY <1>2 DEF commandVars, CommandsInv, CommandsTypeOK, ShownInv, IsShown
<1> QED
  BY <1>1, <1>2

LEMMA CommandsInvariant == CommandsSpec => []CommandsInv
  BY InitCommandsInv, NextCommandsInv, PTL DEF CommandsSpec

-----------------------------------------------------------------------------
(* The theorem. *)

\* output_command.cpp: an undo the daemon executes finds the configuration its
\* command was told of.
THEOREM CommandsUndoOverwritesNobody == CommandsSpec => UndoOverwritesNobody
<1>1. ASSUME CommandsInv, CommandsNext, NEW c \in Commands,
             mail[c] = "undo", mail'[c] = "accepted", reply[c].life = daemon.life
      PROVE  daemon.configuration = reply[c].configuration
  <2> USE DEF CommandsInv
  <2>1. PICK d \in Commands : Execute(d)
    <3>1. ASSUME NEW e \in Commands, ~Execute(e), CommandStep(e)
          PROVE  mail'[c] # "accepted"
      BY <1>1, <3>1
      DEF CommandStep, BeginCommand, LoadSaved, QueryOutputs, SendRequest, TakeReply,
          LoseReply, WriteSaved, SendUndo, EndUndo, RestartDaemon, Answer, Closed,
          CommandsTypeOK
    <3>2. ~StopDaemon /\ ~StartDaemon
      BY <1>1 DEF StopDaemon, StartDaemon, Closed, CommandsTypeOK
    <3> QED
      BY <1>1, <3>1, <3>2 DEF CommandsNext
  <2>2. d = c /\ RevisionFits(c)
    BY <1>1, <2>1 DEF Execute, CommandsTypeOK
  <2> QED
    BY <1>1, <2>2 DEF RevisionFits, ShownInv, IsShown
<1>2. CommandsInv /\ [CommandsNext]_commandVars =>
        [\A c \in Commands :
           mail[c] = "undo" /\ mail'[c] = "accepted" /\ reply[c].life = daemon.life
           => daemon.configuration = reply[c].configuration]_commandVars
  BY <1>1
<1> QED
  BY <1>2, CommandsInvariant, PTL DEF CommandsSpec, UndoOverwritesNobody

-----------------------------------------------------------------------------
(* The truth of the reports.  ReportIsTrue speaks of commands that are done; *)
(* the invariant says, for each stage of a command that has met nobody, what *)
(* it has read, saved and changed so far, and what its request or the answer *)
(* on its way stands for.                                                    *)

\* What a stage means for the command itself, whoever it has met.
StageInv(c) ==
  /\ alone[c] => stage[c] # "begin"
  /\ live[c] => mail[c] = "none" /\ stage[c] \in {"load", "write", "undo", "done"}
  /\ stage[c] \in {"begin", "query", "connect"} => mail[c] = "none" /\ ~live[c]
  /\ stage[c] = "load" /\ ChangesOutputs(c) => mail[c] = "none" /\ ~live[c]
  /\ stage[c] \in {"query", "undo", "wait undo"} => ChangesOutputs(c)
  /\ wish[c].field = "all" => ~live[c]
  /\ stage[c] = "restart" => wish[c].field = "all"
  /\ stage[c] \in {"load", "connect", "wait"} => wish[c].field # "all"
  /\ stage[c] = "undo" => live[c]
  /\ report[c] # "none" => stage[c] = "done"
  /\ report[c] = "restored" => mail[c] = "none"
  /\ report[c] = "success" => live[c] \/ wish[c].field = "all"
  /\ report[c] = "not saved" => live[c]
  /\ stage[c] = "write" /\ ChangesOutputs(c) /\ ~live[c] => mail[c] = "none"

HasSaved(c) ==
  \/ At(c, "restart")
  \/ At(c, "done") /\ report[c] \in {"success", "next start", "not restarted"}

\* What the command has loaded is what it will write back.
HasLoaded(c) ==
  \/ stage[c] \in {"query", "connect", "wait"} /\ ChangesOutputs(c)
  \/ At(c, "write") /\ wish[c].field # "all"

\* It has seen the daemon and has sent nothing yet.
HasAskedNothing(c) ==
  \/ At(c, "load") /\ ChangesOutputs(c)
  \/ stage[c] \in {"query", "connect"}

\* What the daemon runs before and after the change of a command that is alone.
RunsFound(c) == daemon.configuration = found[c].running
RunsChange(c) == daemon.configuration = NewConfiguration(c, found[c].running)

AloneInv(c) ==
  /\ saved = IF HasSaved(c) THEN NewConfiguration(c, found[c].saved) ELSE found[c].saved
  /\ HasLoaded(c) => loaded[c] = found[c].saved
  /\ ChangesOutputs(c) /\ (live[c] \/ stage[c] \in {"connect", "wait", "wait undo"}) =>
       before[c].configuration = found[c].running
  /\ live[c] => RunsChange(c)
  /\ report[c] = "success" /\ wish[c].field = "all" /\ daemon.up => RunsChange(c)
  /\ HasAskedNothing(c) => RunsFound(c)
  /\ At(c, "wait") =>
       /\ mail[c] \in {"request", "refused"} => RunsFound(c)
       /\ mail[c] \in {"accepted", "answer"} => RunsChange(c)
       /\ mail[c] # "undo"
  /\ At(c, "wait undo") =>
       /\ mail[c] = "undo" => RunsChange(c)
       /\ mail[c] \in {"accepted", "answer"} => RunsFound(c)
       /\ mail[c] # "request"
  /\ report[c] = "restored" => RunsFound(c)

ReportInv == \A c \in Commands : StageInv(c) /\ (alone[c] => AloneInv(c))

LEMMA InitReportInv == CommandsInit => ReportInv
BY DEF CommandsInit, ReportInv, StageInv

\* The steps of a command up to the request move it from one stage to the next
\* and change nothing but what it has read.
LEMMA AskingKeepsReport ==
  ASSUME CommandsTypeOK, NEW c \in Commands, StageInv(c), alone[c] => AloneInv(c),
         BeginCommand(c) \/ LoadSaved(c) \/ QueryOutputs(c) \/ SendRequest(c)
  PROVE  StageInv(c)' /\ (alone'[c] => AloneInv(c)')
<1> USE DEF CommandsTypeOK, At, GoTo, Report, Meets, ChangesOutputs
<1>1. CASE BeginCommand(c)
  <2>1. StageInv(c)'
    BY <1>1 DEF BeginCommand, Stages, StageInv
  <2>2. AloneInv(c)'
    <3>1. /\ saved' = found'[c].saved /\ daemon'.configuration = found'[c].running
          /\ stage'[c] = IF ChangesOutputs(c) THEN "load"
                         ELSE IF wish[c].field = "all" THEN "write" ELSE "connect"
          /\ ~live'[c] /\ report'[c] = "none" /\ wish' = wish
      BY <1>1 DEF BeginCommand, StageInv
    <3> QED
      BY <3>1 DEF AloneInv, HasSaved, HasLoaded, HasAskedNothing, RunsFound
  <2> QED
    BY <2>1, <2>2
<1>2. CASE LoadSaved(c)
  <2>1. StageInv(c)'
    BY <1>2 DEF LoadSaved, ReportUnsaved, Stages, StageInv
  <2>2. ASSUME alone'[c]
        PROVE  AloneInv(c)'
    <3>1. alone[c] /\ AloneInv(c)
      BY <1>2, <2>2 DEF LoadSaved, ReportUnsaved
    <3>2. wish[c].field # "all"
      BY <1>2 DEF LoadSaved, ReportUnsaved, StageInv
    <3>3. UNCHANGED <<saved, daemon, wish, before, mail, told, reply, live, found>>
      BY <1>2 DEF LoadSaved, ReportUnsaved
    <3>4. saved = found[c].saved
      BY <1>2, <3>1 DEF LoadSaved, ReportUnsaved, AloneInv, HasSaved
    <3>5. CASE stage'[c] = "done" /\ report'[c] \in {"not saved", "failure"}
      BY <1>2, <3>1, <3>2, <3>3, <3>4, <3>5
         DEF LoadSaved, AloneInv, HasSaved, HasLoaded, HasAskedNothing, RunsChange,
             NewConfiguration
    <3>6. CASE /\ stage'[c] = IF ChangesOutputs(c) THEN "query" ELSE "write"
               /\ loaded'[c] = saved /\ report' = report
      <4>1. /\ report'[c] = "none" /\ ~HasSaved(c)'
            /\ ChangesOutputs(c) => ~live[c] /\ RunsFound(c)
            /\ live[c] => RunsChange(c)
        BY <1>2, <3>1, <3>6 DEF LoadSaved, StageInv, AloneInv, HasSaved, HasAskedNothing
      <4>2. /\ RunsFound(c) => RunsFound(c)'
            /\ RunsChange(c) => RunsChange(c)'
        BY <3>3 DEF RunsFound, RunsChange, NewConfiguration
      <4> QED
        BY <3>2, <3>3, <3>4, <3>6, <4>1, <4>2 DEF AloneInv, HasLoaded, HasAskedNothing
    <3> QED
      BY <1>2, <3>5, <3>6 DEF LoadSaved, ReportUnsaved
  <2> QED
    BY <2>1, <2>2
<1>3. CASE QueryOutputs(c)
  <2>1. StageInv(c)'
    BY <1>3 DEF QueryOutputs, Stages, StageInv
  <2>2. ASSUME alone'[c]
        PROVE  AloneInv(c)'
    <3>1. alone[c] /\ AloneInv(c)
      BY <1>3, <2>2 DEF QueryOutputs
    <3>2. /\ At(c, "query") /\ ~live[c] /\ ChangesOutputs(c) /\ report[c] = "none"
          /\ UNCHANGED <<saved, daemon, wish, loaded, live, found>>
      BY <1>3 DEF QueryOutputs, StageInv
    <3>3. /\ saved = found[c].saved /\ RunsFound(c) /\ loaded[c] = found[c].saved
      BY <3>1, <3>2 DEF AloneInv, HasSaved, HasLoaded, HasAskedNothing
    <3>4. CASE /\ stage'[c] = "connect" /\ report' = report
               /\ before'[c].configuration = daemon.configuration
      BY <3>2, <3>3, <3>4 DEF AloneInv, HasSaved, HasLoaded, HasAskedNothing, RunsFound
    <3>5. CASE stage'[c] = "write" /\ report' = report
      BY <3>2, <3>3, <3>5 DEF AloneInv, HasSaved, HasLoaded, HasAskedNothing, RunsFound
    <3>6. CASE stage'[c] = "done" /\ report'[c] = "failure"
      BY <3>2, <3>3, <3>6 DEF AloneInv, HasSaved, HasLoaded, HasAskedNothing, RunsFound
    <3> QED
      BY <1>3, <3>4, <3>5, <3>6 DEF QueryOutputs, CurrentStatus
  <2> QED
    BY <2>1, <2>2
<1>4. CASE SendRequest(c)
  <2>1. StageInv(c)'
    BY <1>4 DEF SendRequest, ExchangeFails, Stages, StageInv
  <2>2. ASSUME alone'[c]
        PROVE  AloneInv(c)'
    <3>1. alone[c] /\ AloneInv(c)
      BY <1>4, <2>2 DEF SendRequest
    <3>2. /\ At(c, "connect") /\ ~live[c] /\ wish[c].field # "all"
          /\ UNCHANGED <<saved, daemon, wish, loaded, before, live, found>>
      BY <1>4 DEF SendRequest, StageInv
    <3>3. CASE stage'[c] = "wait" /\ mail'[c] = "request" /\ report' = report
      <4>1. /\ saved = found[c].saved /\ RunsFound(c)
            /\ ChangesOutputs(c) => /\ loaded[c] = found[c].saved
                                    /\ before[c].configuration = found[c].running
        BY <3>1, <3>2 DEF AloneInv, HasSaved, HasLoaded, HasAskedNothing
      <4> QED
        BY <3>2, <3>3, <4>1 DEF AloneInv, HasSaved, HasLoaded, HasAskedNothing, RunsFound
    <3>4. CASE stage'[c] = "load" /\ ~ChangesOutputs(c) /\ report' = report
      BY <1>4, <3>1, <3>2, <3>4
         DEF AloneInv, HasSaved, HasLoaded, HasAskedNothing, RunsFound, RunsChange,
             NewConfiguration
    <3>5. CASE stage'[c] = "done" /\ report'[c] = "failure"
      BY <1>4, <3>1, <3>2, <3>5
         DEF AloneInv, HasSaved, HasLoaded, HasAskedNothing, RunsFound, RunsChange,
             NewConfiguration
    <3> QED
      BY <1>4, <3>3, <3>4, <3>5 DEF SendRequest, ExchangeFails
  <2> QED
    BY <2>1, <2>2
<1> QED
  BY <1>1, <1>2, <1>3, <1>4

\* An answer that confirms the change makes it live; a lost one leaves open
\* whether the daemon has made it, which no report then mentions.
LEMMA ReplyKeepsReport ==
  ASSUME CommandsTypeOK, NEW c \in Commands, StageInv(c), alone[c] => AloneInv(c),
         TakeReply(c) \/ LoseReply(c)
  PROVE  StageInv(c)' /\ (alone'[c] => AloneInv(c)')
<1> USE DEF CommandsTypeOK, At, GoTo, Report, Meets, ChangesOutputs
<1>1. /\ At(c, "wait") /\ ~live[c] /\ report[c] = "none"
      /\ wish[c].field # "all"
      /\ UNCHANGED <<saved, daemon, wish, loaded, before, found>>
  BY DEF TakeReply, LoseReply, StageInv
<1>2. StageInv(c)'
  <2>1. CASE TakeReply(c)
    BY <1>1, <2>1 DEF TakeReply, Stages, StageInv
  <2>2. CASE LoseReply(c)
    BY <1>1, <2>2 DEF LoseReply, ExchangeFails, Stages, StageInv
  <2> QED
    BY <2>1, <2>2
<1>3. ASSUME alone'[c]
      PROVE  AloneInv(c)'
  <2>1. alone[c] /\ AloneInv(c)
    BY <1>3 DEF TakeReply, LoseReply
  <2>2. /\ saved = found[c].saved
        /\ mail[c] = "answer" => RunsChange(c)
        /\ ChangesOutputs(c) => /\ loaded[c] = found[c].saved
                                /\ before[c].configuration = found[c].running
    BY <1>1, <2>1 DEF AloneInv, HasSaved, HasLoaded
  <2>3. CASE /\ mail[c] = "answer" /\ live'[c]
             /\ stage'[c] = IF ChangesOutputs(c) THEN "write" ELSE "load"
             /\ report' = report
    BY <1>1, <2>2, <2>3 DEF AloneInv, HasSaved, HasLoaded, HasAskedNothing, RunsChange,
                            NewConfiguration
  <2>4. CASE ~live'[c] /\ stage'[c] = "done" /\ report'[c] = "failure"
    BY <1>1, <2>2, <2>4 DEF AloneInv, HasSaved, HasLoaded, HasAskedNothing
  <2>5. CASE ~live'[c] /\ ~ChangesOutputs(c) /\ stage'[c] = "load" /\ report' = report
    BY <1>1, <2>2, <2>5 DEF AloneInv, HasSaved, HasLoaded, HasAskedNothing
  <2> QED
    BY <1>1, <2>3, <2>4, <2>5 DEF TakeReply, LoseReply, ExchangeFails
<1> QED
  BY <1>2, <1>3

\* The file takes the field and nothing else, unless it was another's meanwhile.
LEMMA SavingKeepsReport ==
  ASSUME CommandsTypeOK, NEW c \in Commands, StageInv(c), alone[c] => AloneInv(c),
         WriteSaved(c) \/ RestartDaemon(c)
  PROVE  StageInv(c)' /\ (alone'[c] => AloneInv(c)')
<1> USE DEF CommandsTypeOK, At, GoTo, Report, Meets, ChangesOutputs
<1>1. StageInv(c)'
  <2>1. CASE WriteSaved(c)
    <3>1. /\ live' = live /\ mail' = mail /\ wish' = wish /\ alone'[c] = alone[c]
          /\ live[c] => mail[c] = "none"
          /\ report[c] = "none"
      BY <2>1 DEF WriteSaved, ReportUnsaved, StageInv
    <3>2. \/ stage'[c] = "restart" /\ wish[c].field = "all" /\ report' = report /\ ~live[c]
          \/ stage'[c] = "undo" /\ ChangesOutputs(c) /\ live[c] /\ report' = report
          \/ /\ stage'[c] = "done" /\ report'[c] # "restored"
             /\ report'[c] \in {"success", "not saved"} => live[c]
      BY <2>1 DEF WriteSaved, ReportUnsaved, StageInv
    <3> QED
      BY <3>1, <3>2 DEF StageInv
  <2>2. CASE RestartDaemon(c)
    <3>1. /\ stage'[c] = "done" /\ report'[c] \in {"success", "not restarted"}
          /\ ~live'[c] /\ alone'[c] = alone[c] /\ wish'[c].field = "all"
      BY <2>2 DEF RestartDaemon, StageInv
    <3> QED
      BY <3>1 DEF StageInv
  <2> QED
    BY <2>1, <2>2
<1>2. ASSUME alone'[c], WriteSaved(c)
      PROVE  AloneInv(c)'
  <2>1. /\ AloneInv(c) /\ At(c, "write") /\ report[c] = "none"
        /\ UNCHANGED <<daemon, wish, loaded, before, live, found>>
    BY <1>2 DEF WriteSaved, ReportUnsaved, StageInv
  <2>2. /\ saved = found[c].saved
        /\ live[c] => RunsChange(c)
        /\ wish[c].field # "all" => loaded[c] = found[c].saved
        /\ ChangesOutputs(c) /\ live[c] => before[c].configuration = found[c].running
    BY <2>1 DEF AloneInv, HasSaved, HasLoaded
  <2>3. NewConfiguration(c, loaded[c]) = NewConfiguration(c, found[c].saved)
    BY <2>2 DEF NewConfiguration
  <2>4. live'[c] => RunsChange(c)'
    <3>1. RunsChange(c) => RunsChange(c)'
      BY <2>1 DEF RunsChange, NewConfiguration
    <3> QED
      BY <2>1, <2>2, <3>1
  <2>5. CASE /\ saved' = NewConfiguration(c, loaded[c])
             /\ \/ stage'[c] = "restart" /\ report' = report /\ wish[c].field = "all"
                \/ /\ stage'[c] = "done" /\ report'[c] \in {"success", "next start"}
                   /\ wish[c].field # "all"
    <3>1. saved' = NewConfiguration(c, found[c].saved)'
      BY <2>1, <2>3, <2>5 DEF NewConfiguration
    <3> QED
      BY <2>1, <2>2, <2>4, <2>5, <3>1 DEF AloneInv, HasSaved, HasLoaded, HasAskedNothing
  <2>6. CASE /\ saved' = saved
             /\ \/ stage'[c] = "undo" /\ report' = report
                \/ stage'[c] = "done" /\ report'[c] \in {"not saved", "failure"}
    BY <2>1, <2>2, <2>4, <2>6 DEF AloneInv, HasSaved, HasLoaded, HasAskedNothing
  <2> QED
    BY <1>2, <2>5, <2>6 DEF WriteSaved, ReportUnsaved
<1>3. ASSUME alone'[c], RestartDaemon(c)
      PROVE  AloneInv(c)'
  <2>1. /\ AloneInv(c) /\ At(c, "restart") /\ report[c] = "none" /\ ~live[c]
        /\ wish[c].field = "all" /\ stage'[c] = "done"
        /\ report'[c] \in {"success", "not restarted"}
        /\ UNCHANGED <<saved, wish, loaded, before, live, found>>
    BY <1>3 DEF RestartDaemon, StageInv
  <2>2. saved' = NewConfiguration(c, found[c].saved)'
    BY <2>1 DEF AloneInv, HasSaved, NewConfiguration
  <2>3. report'[c] = "success" /\ daemon'.up => RunsChange(c)'
    <3>1. report'[c] = "success" /\ daemon'.up => daemon' = NewLife
      BY <1>3 DEF RestartDaemon
    <3>2. NewConfiguration(c, found[c].saved) = NewConfiguration(c, found[c].running)
      BY <2>1 DEF NewConfiguration
    <3> QED
      BY <2>1, <2>2, <3>1, <3>2 DEF NewLife, RunsChange, NewConfiguration
  <2> QED
    BY <2>1, <2>2, <2>3 DEF AloneInv, HasSaved, HasLoaded, HasAskedNothing
<1> QED
  BY <1>1, <1>2, <1>3

LEMMA UndoKeepsReport ==
  ASSUME CommandsTypeOK, NEW c \in Commands, StageInv(c), alone[c] => AloneInv(c),
         SendUndo(c) \/ EndUndo(c)
  PROVE  StageInv(c)' /\ (alone'[c] => AloneInv(c)')
<1> USE DEF CommandsTypeOK, At, GoTo, Report, Meets, ChangesOutputs
<1>1. /\ ChangesOutputs(c) /\ report[c] = "none"
      /\ UNCHANGED <<saved, daemon, wish, loaded, before, found>>
  BY DEF SendUndo, EndUndo, StageInv
<1>2. StageInv(c)'
  BY <1>1 DEF SendUndo, EndUndo, Stages, StageInv
<1>3. ASSUME alone'[c], SendUndo(c)
      PROVE  AloneInv(c)'
  <2>1. /\ AloneInv(c) /\ At(c, "undo") /\ live[c] /\ ~live'[c]
    BY <1>3 DEF SendUndo, StageInv
  <2>2. /\ saved = found[c].saved /\ RunsChange(c)
        /\ before[c].configuration = found[c].running
    BY <1>1, <2>1 DEF AloneInv, HasSaved
  <2>3. RunsChange(c)'
    BY <1>1, <2>2 DEF RunsChange, NewConfiguration
  <2>4. CASE stage'[c] = "wait undo" /\ mail'[c] = "undo" /\ report' = report
    BY <1>1, <2>1, <2>2, <2>3, <2>4 DEF AloneInv, HasSaved, HasLoaded, HasAskedNothing
  <2>5. CASE stage'[c] = "done" /\ report'[c] = "failure"
    BY <1>1, <2>1, <2>2, <2>3, <2>5 DEF AloneInv, HasSaved, HasLoaded, HasAskedNothing
  <2> QED
    BY <1>3, <2>4, <2>5 DEF SendUndo
<1>4. ASSUME alone'[c], EndUndo(c)
      PROVE  AloneInv(c)'
  <2>1. AloneInv(c) /\ At(c, "wait undo") /\ ~live[c] /\ ~live'[c] /\ stage'[c] = "done"
    BY <1>4 DEF EndUndo, StageInv
  <2>2. /\ saved = found[c].saved
        /\ (mail[c] = "answer" => RunsFound(c))
    BY <2>1 DEF AloneInv, HasSaved
  <2>3. report'[c] = "failure" \/ (report'[c] = "restored" /\ mail[c] = "answer")
    BY <1>4 DEF EndUndo
  <2> QED
    BY <1>1, <2>1, <2>2, <2>3
       DEF AloneInv, HasSaved, HasLoaded, HasAskedNothing, RunsFound
<1> QED
  BY <1>2, <1>3, <1>4

\* A request that is executed makes the change its command will save.
LEMMA ChangedField ==
  ASSUME NEW c \in Commands, wish[c].field \in Fields, NEW old \in Configurations
  PROVE  [old EXCEPT ![wish[c].field] = wish[c].value] = NewConfiguration(c, old)
<1>1. wish[c].field # "all"
  BY DEF Fields
<1> QED
  BY <1>1 DEF NewConfiguration, Configurations

\* An undo takes it back.
LEMMA UndoneField ==
  ASSUME NEW c \in Commands, ChangesOutputs(c), NEW old \in Configurations
  PROVE  [NewConfiguration(c, old) EXCEPT !["outputs"] = old["outputs"]] = old
BY DEF NewConfiguration, Configurations, ChangesOutputs, Fields

LEMMA ExecutionKeepsReport ==
  ASSUME CommandsTypeOK, NEW c \in Commands, StageInv(c), alone[c] => AloneInv(c), Execute(c)
  PROVE  StageInv(c)' /\ (alone'[c] => AloneInv(c)')
<1> USE DEF At, Meets
<1>1. /\ mail[c] \in {"request", "undo"} /\ ~live[c] /\ report[c] # "restored"
      /\ UNCHANGED <<saved, wish, stage, loaded, before, live, report, found>>
  BY DEF Execute, StageInv
<1>2. mail'[c] \in {"accepted", "refused"} /\ (alone'[c] => alone[c] /\ stage[c] # "done")
  BY DEF Execute, CommandsTypeOK
<1>3. StageInv(c)'
  BY <1>1, <1>2 DEF StageInv, ChangesOutputs
<1>4. ASSUME alone'[c]
      PROVE  AloneInv(c)'
  <2>1. AloneInv(c) /\ stage[c] # "done" /\ stage[c] \notin {"begin", "query", "connect"}
        /\ ~(stage[c] = "load" /\ ChangesOutputs(c))
    BY <1>1, <1>2, <1>4 DEF StageInv
  <2>2. \/ mail'[c] = "refused" /\ daemon'.configuration = daemon.configuration
        \/ /\ mail'[c] = "accepted"
           /\ daemon'.configuration =
                [daemon.configuration EXCEPT ![Asked(c).field] = Asked(c).value]
    BY DEF Execute, CommandsTypeOK
  <2>3. /\ saved' = IF HasSaved(c)' THEN NewConfiguration(c, found[c].saved)'
                     ELSE found'[c].saved
        /\ HasLoaded(c)' => loaded'[c] = found'[c].saved
        /\ ~HasAskedNothing(c)'
    BY <1>1, <2>1 DEF AloneInv, HasSaved, HasLoaded, HasAskedNothing, NewConfiguration,
                      ChangesOutputs
  <2>4. ChangesOutputs(c)' /\ (live'[c] \/ stage'[c] \in {"connect", "wait", "wait undo"}) =>
          before'[c].configuration = found'[c].running
    BY <1>1, <2>1 DEF AloneInv, ChangesOutputs
  <2>5. /\ found[c].running \in Configurations /\ daemon.configuration \in Configurations
        /\ wish[c] \in Wishes
    BY DEF CommandsTypeOK
  <2>6. ASSUME At(c, "wait")
        PROVE  /\ mail'[c] = "refused" => RunsFound(c)'
               /\ mail'[c] = "accepted" => RunsChange(c)'
    <3>1. mail[c] = "request" /\ RunsFound(c) /\ wish[c].field # "all"
      BY <1>1, <2>1, <2>6 DEF AloneInv, StageInv
    <3>2. mail'[c] = "refused" => RunsFound(c)'
      BY <1>1, <2>2, <3>1 DEF RunsFound
    <3>3. ASSUME mail'[c] = "accepted"
          PROVE  RunsChange(c)'
      <4>1. wish[c].field \in Fields
        BY <2>5, <3>1 DEF Wishes, Fields
      <4>2. daemon'.configuration = NewConfiguration(c, found[c].running)
        BY <2>2, <2>5, <3>1, <3>3, <4>1, ChangedField DEF Asked, RunsFound
      <4> QED
        BY <1>1, <4>2 DEF RunsChange, NewConfiguration
    <3> QED
      BY <3>2, <3>3
  <2>7. ASSUME At(c, "wait undo")
        PROVE  mail'[c] = "accepted" => RunsFound(c)'
    <3>1. /\ mail[c] = "undo" /\ RunsChange(c) /\ ChangesOutputs(c)
          /\ before[c].configuration = found[c].running
      BY <1>1, <2>1, <2>7 DEF AloneInv, StageInv
    <3>2. ASSUME mail'[c] = "accepted"
          PROVE  daemon'.configuration = found[c].running
      BY <2>2, <2>5, <3>1, <3>2, UndoneField DEF Asked, RunsChange
    <3> QED
      BY <1>1, <3>2 DEF RunsFound
  <2> QED
    <3>1. report'[c] = "none" /\ ~live'[c]
      BY <1>1, <2>1 DEF StageInv
    <3> QED
      BY <1>1, <1>2, <2>3, <2>4, <2>6, <2>7, <3>1 DEF AloneInv
<1> QED
  BY <1>3, <1>4

LEMMA AnswerKeepsReport ==
  ASSUME CommandsTypeOK, NEW c \in Commands, StageInv(c), alone[c] => AloneInv(c),
         NEW d \in Commands, Answer(d)
  PROVE  StageInv(c)' /\ (alone'[c] => AloneInv(c)')
<1>1. /\ UNCHANGED <<saved, daemon, wish, stage, loaded, before, live, report, alone, found>>
      /\ \/ mail'[c] = mail[c]
         \/ mail[c] = "accepted" /\ mail'[c] = "answer"
         \/ mail[c] = "refused" /\ mail'[c] = "refusal"
  BY DEF Answer, CommandsTypeOK
<1>2. StageInv(c)'
  BY <1>1 DEF StageInv, ChangesOutputs
<1>3. AloneInv(c) => AloneInv(c)'
  BY <1>1 DEF AloneInv, HasSaved, HasLoaded, HasAskedNothing, RunsFound, RunsChange,
              NewConfiguration, ChangesOutputs, At
<1> QED
  BY <1>1, <1>2, <1>3

\* A step of another command leaves the bookkeeping of this one alone, but it is
\* no longer alone.
LEMMA OthersKeepReport ==
  ASSUME CommandsTypeOK, NEW c \in Commands, StageInv(c), NEW d \in Commands, d # c,
         CommandStep(d), ~Answer(d)
  PROVE  StageInv(c)' /\ ~alone'[c]
<1>1. ~alone'[c]
  BY DEF CommandStep, BeginCommand, LoadSaved, QueryOutputs, SendRequest, TakeReply, LoseReply,
         WriteSaved, SendUndo, EndUndo, RestartDaemon, Execute, Meets, CommandsTypeOK
<1>2. /\ wish' = wish /\ stage'[c] = stage[c] /\ live'[c] = live[c] /\ report'[c] = report[c]
      /\ mail'[c] = mail[c] \/ (mail[c] # "none" /\ mail'[c] = "closed")
  <2>1. wish' = wish
    BY DEF CommandStep, BeginCommand, LoadSaved, QueryOutputs, SendRequest, TakeReply,
           LoseReply, WriteSaved, SendUndo, EndUndo, RestartDaemon, Execute
  <2>2. stage'[c] = stage[c] /\ report'[c] = report[c]
    BY DEF CommandStep, BeginCommand, LoadSaved, QueryOutputs, SendRequest, TakeReply,
           LoseReply, ExchangeFails, WriteSaved, SendUndo, EndUndo, RestartDaemon, Execute,
           GoTo, Report, ReportUnsaved, CommandsTypeOK
  <2>3. live'[c] = live[c]
    BY DEF CommandStep, BeginCommand, LoadSaved, QueryOutputs, SendRequest, TakeReply,
           LoseReply, WriteSaved, SendUndo, EndUndo, RestartDaemon, Execute, CommandsTypeOK
  <2>4. mail'[c] = mail[c] \/ (mail[c] # "none" /\ mail'[c] = "closed")
    BY DEF CommandStep, BeginCommand, LoadSaved, QueryOutputs, SendRequest, TakeReply,
           LoseReply, WriteSaved, SendUndo, EndUndo, RestartDaemon, Closed, Execute,
           CommandsTypeOK
  <2> QED
    BY <2>1, <2>2, <2>3, <2>4
<1> QED
  BY <1>1, <1>2 DEF StageInv, ChangesOutputs

LEMMA LivesKeepReport ==
  ASSUME CommandsTypeOK, NEW c \in Commands, StageInv(c), StopDaemon \/ StartDaemon
  PROVE  StageInv(c)' /\ ~alone'[c]
<1>1. ~alone'[c]
  BY DEF StopDaemon, StartDaemon
<1>2. /\ UNCHANGED <<wish, stage, live, report>>
      /\ mail'[c] = mail[c] \/ (mail[c] # "none" /\ mail'[c] = "closed")
  BY DEF StopDaemon, StartDaemon, Closed, CommandsTypeOK
<1> QED
  BY <1>1, <1>2 DEF StageInv, ChangesOutputs

LEMMA NextReportInv ==
  CommandsTypeOK /\ ReportInv /\ [CommandsNext]_commandVars => ReportInv'
<1> SUFFICES ASSUME CommandsTypeOK, ReportInv, [CommandsNext]_commandVars,
                    NEW c \in Commands
             PROVE  StageInv(c)' /\ (alone'[c] => AloneInv(c)')
  BY DEF ReportInv
<1>0. StageInv(c) /\ (alone[c] => AloneInv(c))
  BY DEF ReportInv
<1>1. CASE CommandStep(c)
  BY <1>0, <1>1, AskingKeepsReport, ReplyKeepsReport, SavingKeepsReport, UndoKeepsReport,
     ExecutionKeepsReport, AnswerKeepsReport, Zenon DEF CommandStep
<1>2. ASSUME NEW d \in Commands, d # c, CommandStep(d)
      PROVE  StageInv(c)' /\ (alone'[c] => AloneInv(c)')
  BY <1>0, <1>2, AnswerKeepsReport, OthersKeepReport
<1>3. CASE StopDaemon \/ StartDaemon
  BY <1>0, <1>3, LivesKeepReport
<1>4. CASE UNCHANGED commandVars
  BY <1>0, <1>4
     DEF commandVars, StageInv, AloneInv, HasSaved, HasLoaded, HasAskedNothing, RunsFound,
         RunsChange, NewConfiguration, ChangesOutputs, At
<1> QED
  BY <1>1, <1>2, <1>3, <1>4 DEF CommandsNext

\* A command that has met neither another nor a restart tells its user the truth:
\* about the file, about what runs, and about the outputs it says are restored.
THEOREM CommandsReportIsTrue == CommandsSpec => []ReportIsTrue
<1>1. CommandsInv /\ ReportInv /\ [CommandsNext]_commandVars => ReportInv'
  BY NextReportInv DEF CommandsInv
<1>2. ReportInv => ReportIsTrue
  BY DEF ReportInv, ReportIsTrue, StageInv, AloneInv, HasSaved, At, RunsFound, RunsChange
<1> QED
  BY <1>1, <1>2, InitReportInv, CommandsInvariant, PTL DEF CommandsSpec

-----------------------------------------------------------------------------
(* The three side by side. *)

\* Each of them keeps its invariant while the others rest, so all variables keep
\* their types.
THEOREM HostIsTypeCorrect == HostSpec => []HostTypeOK
<1> DEFINE AllInv == OutputInv /\ UserSetupInv /\ CommandsInv
<1>1. HostInit => AllInv
  BY InitOutputInv, InitUserSetupInv, InitCommandsInv DEF HostInit
<1>2. AllInv /\ [HostNext]_<<exercised, vars, setupVars, commandVars>> => AllInv'
  <2> SUFFICES ASSUME AllInv, [HostNext]_<<exercised, vars, setupVars, commandVars>>
               PROVE  AllInv'
    OBVIOUS
  <2>1. [Next]_vars /\ [SetupNext]_setupVars /\ [CommandsNext]_commandVars
    BY DEF HostNext
  <2> QED
    BY <2>1, NextOutputInv, NextUserSetupInv, NextCommandsInv
<1>3. AllInv => HostTypeOK
  BY DEF OutputInv, UserSetupInv, SetupTypes, CommandsInv, HostTypeOK
<1> QED
  BY <1>1, <1>2, <1>3, PTL DEF HostSpec
=============================================================================
