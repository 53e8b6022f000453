---------------------------- MODULE ControlServer ----------------------------
(***************************************************************************)
(* The control socket server (control_socket.cpp): one thread on which a   *)
(* coroutine per connection reads one request, answers it and, for a       *)
(* subscription, goes on sending status, beside four loops that accept,    *)
(* publish and observe.  A step runs from one await to the next.  An await *)
(* whose cancellation was requested ends with an exception.                *)
(***************************************************************************)
EXTENDS Integers, FiniteSets

CONSTANTS Sessions,        \* connections
          SlowSessions,    \* those whose client may stop reading
          MaxJobs,         \* connections that are served at once
          MaxSubscribers,  \* subscriptions at once
          MaxStatus,       \* bound of the status of the daemon
          ServerWorkloads  \* what clients do, and bounds: see Plans

ControlRequests == {"none", "status", "command", "subscribe"}

\* The request of each client, how many clients leave early, how often the status
\* changes, how often accept4 may fail and whether the daemon stops.
Plans == [request : [Sessions -> ControlRequests], hangUps : Nat, changes : Nat,
          failures : Nat, stops : BOOLEAN]

ASSUME ServerAssumption ==
  /\ SlowSessions \subseteq Sessions /\ IsFiniteSet(Sessions)
  /\ MaxJobs \in Nat \ {0} /\ MaxSubscribers \in Nat /\ MaxStatus \in Nat \ {0}
  /\ ServerWorkloads \subseteq Plans
  /\ \A plan \in ServerWorkloads : plan.changes < MaxStatus

VARIABLES
  session,       \* per connection: ControlSession and its coroutine
  client,        \* per connection: what its client did and has read
  loop,          \* the loops of the service
  status,        \* what the daemon would report, numbered
  publishEvent,  \* the descriptor publishControlStatus writes to
  server,        \* from startControlServer to the end of the thread
  remaining      \* what remains of the workload

serverVars == <<session, client, loop, status, publishEvent, server, remaining>>

Loops == {"accept", "notify", "periodic", "application"}
Served == {"reading", "handling", "publishing", "responding", "waiting", "sending", "leaving"}
NoStatus == 0
Versions == NoStatus .. MaxStatus

\* A connection that is yet to be made, and one whose descriptor is closed.
Absent == [pc |-> "absent", subscriber |-> FALSE, pendingOutput |-> NoStatus,
           output |-> NoStatus, canceled |-> FALSE, observed |-> FALSE]
Closed == [Absent EXCEPT !.pc = "closed"]

Newcomer == [asked |-> FALSE, gone |-> FALSE, wire |-> NoStatus, seen |-> NoStatus]

Jobs(sessions) == {s \in Sessions : sessions[s].pc \in Served \cup {"completed"}}
Subscribers == {s \in Sessions : session[s].subscriber}

\* Besides the types: both limits hold, and a descriptor that a coroutine still
\* waits for is open, so that no later connection inherits its number.
ServerTypeOK ==
  /\ session \in [Sessions ->
       [pc : Served \cup {"absent", "backlog", "completed", "closed"}, subscriber : BOOLEAN,
        pendingOutput : Versions, output : Versions, canceled : BOOLEAN,
        observed : BOOLEAN]]
  /\ client \in [Sessions ->
       [asked : BOOLEAN, gone : BOOLEAN, wire : Versions, seen : Versions]]
  /\ loop \in [Loops -> {"idle", "publishing", "failed"}]
  /\ status \in Versions \ {NoStatus}
  /\ publishEvent \in BOOLEAN
  /\ server \in {"running", "stopping", "canceled", "stopped"}
  /\ remaining \in Plans
  /\ Cardinality(Jobs(session)) <= MaxJobs
  /\ Cardinality(Subscribers) <= MaxSubscribers
  /\ \A s \in Sessions : session[s].observed => session[s].pc \in Served

ServerInit ==
  /\ session = [s \in Sessions |-> Absent]
  /\ client = [s \in Sessions |-> Newcomer]
  /\ loop = [l \in Loops |-> "idle"]
  /\ status = 1
  /\ publishEvent = FALSE
  /\ server = "running"
  /\ remaining \in ServerWorkloads

-----------------------------------------------------------------------------
(* Clients.  The socket holds one message; one that was sent stays readable *)
(* after the server has closed the connection.                              *)

Consume(bound) == remaining[bound] > 0 /\ remaining' = [remaining EXCEPT ![bound] = @ - 1]

Connect(s) ==
  /\ remaining.request[s] # "none"
  /\ server # "stopped"
  /\ session[s].pc = "absent"
  /\ session' = [session EXCEPT ![s].pc = "backlog"]
  /\ UNCHANGED <<client, loop, status, publishEvent, server, remaining>>

\* The newline of the request is sent.
Ask(s) ==
  /\ session[s].pc \in {"backlog", "reading"}
  /\ ~client[s].asked /\ ~client[s].gone
  /\ client' = [client EXCEPT ![s].asked = TRUE]
  /\ UNCHANGED <<session, loop, status, publishEvent, server, remaining>>

ReadAnswer(s) ==
  /\ client[s].wire # NoStatus
  /\ client' = [client EXCEPT ![s].wire = NoStatus, ![s].seen = client[s].wire]
  /\ UNCHANGED <<session, loop, status, publishEvent, server, remaining>>

\* The client closes its end.
HangUp(s) ==
  /\ session[s].pc \notin {"absent", "closed"} /\ ~client[s].gone
  /\ client' = [client EXCEPT ![s].gone = TRUE, ![s].wire = NoStatus]
  /\ Consume("hangUps")
  /\ UNCHANGED <<session, loop, status, publishEvent, server>>

-----------------------------------------------------------------------------
(* Connections *)

\* collectCompletedClients: the last owner of a session closes its descriptor.
Collected ==
  [s \in Sessions |-> IF session[s].pc = "completed" THEN Closed ELSE session[s]]

Accept(s) ==
  /\ loop["accept"] = "idle" /\ server \in {"running", "stopping"}
  /\ session[s].pc = "backlog"
  /\ session' = [Collected EXCEPT ![s] =
       IF Cardinality(Jobs(Collected)) >= MaxJobs THEN Closed ELSE [@ EXCEPT !.pc = "reading"]]
  /\ UNCHANGED <<client, loop, status, publishEvent, server, remaining>>

\* An error such as that of a process without free descriptors ends the loop.
AcceptFails ==
  /\ loop["accept"] = "idle" /\ server \in {"running", "stopping"}
  /\ \E s \in Sessions : session[s].pc = "backlog"
  /\ Consume("failures")
  /\ loop' = [loop EXCEPT !["accept"] = "failed"]
  /\ UNCHANGED <<session, client, status, publishEvent, server>>

LeavingUnawaited(state) ==
  [state EXCEPT !.pc = "completed", !.subscriber = FALSE, !.canceled = TRUE]

\* The end of handleClient, which awaits the observer of the descriptor.
Leaving(state) ==
  [state EXCEPT !.pc = IF state.observed THEN "leaving" ELSE "completed",
                !.subscriber = FALSE, !.canceled = TRUE]

Leave(s) == session' = [session EXCEPT ![s] = Leaving(session[s])]

\* readServerRequest; from here on observeDisconnect waits as well.
ReadRequest(s) ==
  /\ session[s].pc = "reading" /\ ~session[s].canceled
  /\ \/ /\ client[s].asked
        /\ session' = [session EXCEPT ![s].pc = "handling", ![s].observed = TRUE]
     \/ /\ ~client[s].asked /\ client[s].gone
        /\ Leave(s)
  /\ UNCHANGED <<client, loop, status, publishEvent, server, remaining>>

Change == Consume("changes") /\ status' = status + 1

\* The handler returns.  A command that succeeds changes the status, and the
\* subscribers learn of it before its client is answered.
HandleRequest(s) ==
  /\ session[s].pc = "handling"
  /\ \E changed \in BOOLEAN :
       /\ \/ changed /\ remaining.request[s] = "command" /\ Change
          \/ ~changed /\ UNCHANGED <<status, remaining>>
       /\ \/ session[s].canceled /\ Leave(s)
          \/ /\ ~session[s].canceled
             /\ session' = [session EXCEPT
                  ![s].pc = IF changed /\ Subscribers # {} THEN "publishing" ELSE "responding",
                  ![s].output = status']
  /\ UNCHANGED <<client, loop, publishEvent, server>>

\* writeServerResponse, and a subscription begins unless there are too many.
Respond(s) ==
  /\ session[s].pc = "responding" /\ ~session[s].canceled
  /\ ~client[s].gone /\ client[s].wire = NoStatus
  /\ client' = [client EXCEPT ![s].wire = session[s].output]
  /\ \/ /\ remaining.request[s] = "subscribe" /\ Cardinality(Subscribers) < MaxSubscribers
        /\ session' = [session EXCEPT ![s].pc = "waiting", ![s].subscriber = TRUE,
                                      ![s].output = NoStatus]
     \/ /\ ~(remaining.request[s] = "subscribe" /\ Cardinality(Subscribers) < MaxSubscribers)
        /\ Leave(s)
  /\ UNCHANGED <<loop, status, publishEvent, server, remaining>>

TakeOutput(s) ==
  /\ session[s].pc = "waiting" /\ ~session[s].canceled
  /\ session[s].pendingOutput # NoStatus
  /\ session' = [session EXCEPT ![s].pc = "sending",
                                ![s].output = session[s].pendingOutput,
                                ![s].pendingOutput = NoStatus]
  /\ UNCHANGED <<client, loop, status, publishEvent, server, remaining>>

SendOutput(s) ==
  /\ session[s].pc = "sending" /\ ~session[s].canceled
  /\ ~client[s].gone /\ client[s].wire = NoStatus
  /\ client' = [client EXCEPT ![s].wire = session[s].output]
  /\ session' = [session EXCEPT ![s].pc = "waiting", ![s].output = NoStatus]
  /\ UNCHANGED <<loop, status, publishEvent, server, remaining>>

\* An await throws: it was canceled, or the peer is gone when it is written to.
\* A publication that a command awaits is canceled by the service only.
AwaitThrows(s) ==
  /\ \/ /\ session[s].canceled
        /\ session[s].pc \in {"reading", "handling", "responding", "waiting", "sending"}
     \/ client[s].gone /\ session[s].pc \in {"responding", "sending"}
  /\ Leave(s)
  /\ UNCHANGED <<client, loop, status, publishEvent, server, remaining>>

ObserveDisconnect(s) ==
  /\ session[s].observed
  /\ client[s].gone \/ session[s].canceled
  /\ session' = [session EXCEPT ![s].observed = FALSE, ![s].canceled = TRUE]
  /\ UNCHANGED <<client, loop, status, publishEvent, server, remaining>>

ShutDown(s) ==
  /\ session[s].pc = "leaving" /\ ~session[s].observed
  /\ session' = [session EXCEPT ![s].pc = "completed"]
  /\ UNCHANGED <<client, loop, status, publishEvent, server, remaining>>

-----------------------------------------------------------------------------
(* Publication: publishToSubscribers.  What it awaits may load a preset.    *)

AllHaveDrained == \A s \in Subscribers : session[s].pendingOutput = NoStatus

\* Only the latest unsent status is kept.  A service that is canceled may have
\* nothing to store.
StoredOnceDrained ==
  IF AllHaveDrained
  THEN {[s \in Sessions |-> IF session[s].subscriber
                            THEN [session[s] EXCEPT !.pendingOutput = status] ELSE session[s]]}
  ELSE {}

Stored ==
  {[s \in Sessions |-> IF session[s].subscriber
                       THEN [session[s] EXCEPT !.pendingOutput = status] ELSE session[s]]}
  \cup (IF server = "canceled" THEN {session} ELSE {})

\* The publication of a command is over.
PublishChange(s) ==
  /\ session[s].pc = "publishing"
  /\ \E stored \in Stored : session' = [stored EXCEPT ![s].pc = "responding"]
  /\ UNCHANGED <<client, loop, status, publishEvent, server, remaining>>

PublishFrom(l) ==
  /\ loop[l] = "publishing"
  /\ session' \in Stored
  /\ loop' = [loop EXCEPT ![l] = "idle"]
  /\ UNCHANGED <<client, status, publishEvent, server, remaining>>

\* A loop begins to publish unless nobody listens.
BeginPublication(l) ==
  loop' = [loop EXCEPT ![l] = IF Subscribers # {} THEN "publishing" ELSE "idle"]

Waits(l) == loop[l] = "idle" /\ server \in {"running", "stopping"}

ObservePublication ==
  /\ Waits("notify") /\ publishEvent
  /\ publishEvent' = FALSE
  /\ session' = Collected
  /\ BeginPublication("notify")
  /\ UNCHANGED <<client, status, server, remaining>>

PublishPeriodicallyCollects ==
  /\ Waits("periodic")
  /\ session' = Collected
  /\ UNCHANGED <<client, loop, status, publishEvent, server, remaining>>

PublishPeriodically ==
  /\ Waits("periodic")
  /\ session' = Collected
  /\ BeginPublication("periodic")
  /\ UNCHANGED <<client, status, publishEvent, server, remaining>>

\* The preset file changed and was loaded.
ObserveApplicationEvents ==
  /\ Waits("application")
  /\ Change
  /\ BeginPublication("application")
  /\ UNCHANGED <<session, client, publishEvent, server>>

\* The status changes on other threads, with or without publishControlStatus.
RuntimeChanges ==
  /\ Change
  /\ publishEvent' \in {publishEvent, TRUE}
  /\ UNCHANGED <<session, client, loop, server>>

-----------------------------------------------------------------------------
(* The stop *)

\* The destructor writes stopEvent and joins the thread.
Stop ==
  /\ server = "running" /\ remaining.stops
  /\ server' = "stopping"
  /\ UNCHANGED <<session, client, loop, status, publishEvent, remaining>>

CanceledLoopsOnly == session

\* Every coroutine of a connection registered with the service.
CanceledSessions ==
  [s \in Sessions |-> IF session[s].pc \in Served
                      THEN [session[s] EXCEPT !.canceled = TRUE] ELSE session[s]]

CancelService ==
  /\ server = "stopping"
  /\ server' = "canceled"
  /\ session' = CanceledSessions
  /\ UNCHANGED <<client, loop, status, publishEvent, remaining>>

\* serve has awaited all jobs and the loops, each of which ends where it waits; one
\* that failed throws there, and the dispatcher is never shut down.  The listener
\* closes with the server.
EndService ==
  /\ server = "canceled"
  /\ \A l \in Loops : loop[l] = "idle"
  /\ \A s \in Sessions : session[s].pc \notin Served
  /\ server' = "stopped"
  /\ session' = [s \in Sessions |-> Closed]
  /\ UNCHANGED <<client, loop, status, publishEvent, remaining>>

-----------------------------------------------------------------------------
HandleClient(s) ==
  \/ ReadRequest(s) \/ HandleRequest(s) \/ PublishChange(s) \/ Respond(s)
  \/ TakeOutput(s) \/ SendOutput(s) \/ AwaitThrows(s)

ServerNext ==
  \/ \E s \in Sessions :
       \/ Connect(s) \/ Ask(s) \/ ReadAnswer(s) \/ HangUp(s)
       \/ Accept(s) \/ HandleClient(s) \/ ObserveDisconnect(s) \/ ShutDown(s)
  \/ AcceptFails \/ ObservePublication \/ PublishPeriodically
  \/ ObserveApplicationEvents \/ RuntimeChanges
  \/ \E l \in Loops : PublishFrom(l)
  \/ Stop \/ CancelService \/ EndService

\* The dispatcher resumes what is ready, no handler lasts for ever and most
\* clients read; requests, changes and the stop need not come.
ServerFairness ==
  /\ \A s \in Sessions :
       /\ WF_serverVars(Accept(s)) /\ WF_serverVars(HandleClient(s))
       /\ WF_serverVars(ObserveDisconnect(s)) /\ WF_serverVars(ShutDown(s))
  /\ \A s \in Sessions \ SlowSessions : WF_serverVars(ReadAnswer(s))
  /\ WF_serverVars(ObservePublication) /\ WF_serverVars(PublishPeriodically)
  /\ \A l \in Loops : WF_serverVars(PublishFrom(l))
  /\ WF_serverVars(CancelService) /\ WF_serverVars(EndService)

ServerSpec == ServerInit /\ [][ServerNext]_serverVars

-----------------------------------------------------------------------------
\* A request that was taken up is answered although other clients are slow,
\* leave or subscribe ("A slow peer cannot block other clients"): it does not
\* stay where it is, and no connection ends before its answer was sent.
RequestIsAnswered ==
  /\ [](\A s \in Sessions :
          session[s].pc \in {"leaving", "completed"} /\ server # "canceled" =>
            client[s].gone \/ client[s].wire # NoStatus \/ client[s].seen # NoStatus)
  /\ \A s \in Sessions \ SlowSessions :
       []<>(\/ session[s].pc \notin {"handling", "publishing", "responding"}
            \/ client[s].gone \/ server = "canceled")

\* A subscriber that goes on reading gets to see the status as it is, also when
\* it changed between the first answer and the subscription, or without notice.
SubscriberCatchesUp ==
  \A s \in Sessions \ SlowSessions :
    []<>(session[s].subscriber => client[s].seen = status)

\* The destructor returns, whatever its clients do or leave undone, unless accept
\* has failed.
StopCompletes == []<>(server \in {"running", "stopped"} \/ loop["accept"] = "failed")
=============================================================================
