-------------------------- MODULE ControlServerProofs --------------------------
(***************************************************************************)
(* The limits of the control server and the ownership of its descriptors,  *)
(* for any number of connections, both limits and every workload.          *)
(* ServerTypeOK alone is not inductive: that the status stays within its   *)
(* bound needs the changes that remain.  All but two actions leave the     *)
(* sets of jobs and of subscribers as they are or make them smaller, which *)
(* LimitsStay turns into the limits; accepting and subscribing check them. *)
(***************************************************************************)
EXTENDS ControlServer, FiniteSetTheorems, TLAPS

SessionStates ==
  [pc : Served \cup {"absent", "backlog", "completed", "closed"}, subscriber : BOOLEAN,
   pendingOutput : Versions, output : Versions, canceled : BOOLEAN, observed : BOOLEAN]

ClientStates == [asked : BOOLEAN, gone : BOOLEAN, wire : Versions, seen : Versions]

SessionsOK ==
  /\ session \in [Sessions -> SessionStates]
  /\ \A s \in Sessions : session[s].observed => session[s].pc \in Served

LimitsOK ==
  /\ Cardinality(Jobs(session)) <= MaxJobs
  /\ Cardinality(Subscribers) <= MaxSubscribers

RestOK ==
  /\ client \in [Sessions -> ClientStates]
  /\ loop \in [Loops -> {"idle", "publishing", "failed"}]
  /\ publishEvent \in BOOLEAN
  /\ server \in {"running", "stopping", "canceled", "stopped"}

\* The changes that remain fit below the bound of the status.
StatusOK ==
  /\ status \in Versions \ {NoStatus}
  /\ remaining \in Plans
  /\ status + remaining.changes <= MaxStatus

ServerInv == SessionsOK /\ LimitsOK /\ RestOK /\ StatusOK

LEMMA TypeIsPartOfInvariant == ServerInv => ServerTypeOK
BY DEF ServerInv, SessionsOK, LimitsOK, RestOK, StatusOK, ServerTypeOK, SessionStates,
       ClientStates

\* What a step may leave as it is, or make smaller.
JobsStay ==
  /\ Jobs(session') \subseteq Jobs(session)
  /\ Subscribers' \subseteq Subscribers

LEMMA Constants ==
  /\ IsFiniteSet(Sessions)
  /\ MaxJobs \in Nat \ {0} /\ MaxSubscribers \in Nat /\ MaxStatus \in Nat \ {0}
BY ServerAssumption DEF ServerAssumption

LEMMA ClosedState ==
  /\ Closed \in SessionStates
  /\ Closed.pc = "closed" /\ ~Closed.observed /\ ~Closed.subscriber
<1>1. 0 \in Versions
  BY Constants DEF Versions, NoStatus
<1>2. Absent \in [pc : {"absent"}, subscriber : {FALSE}, pendingOutput : Versions,
                 output : Versions, canceled : {FALSE}, observed : {FALSE}]
  BY <1>1 DEF Absent, NoStatus
<1>3. Closed \in [pc : {"closed"}, subscriber : {FALSE}, pendingOutput : Versions,
                 output : Versions, canceled : {FALSE}, observed : {FALSE}]
  BY <1>2 DEF Closed
<1> QED
  BY <1>3 DEF SessionStates

LEMMA FiniteSets ==
  /\ IsFiniteSet(Jobs(session)) /\ IsFiniteSet(Subscribers)
  /\ Cardinality(Jobs(session)) \in Nat /\ Cardinality(Subscribers) \in Nat
<1>1. Jobs(session) \subseteq Sessions /\ Subscribers \subseteq Sessions
  BY DEF Jobs, Subscribers
<1> QED
  BY <1>1, Constants, FS_Subset, FS_CardinalityType

LEMMA OneMore ==
  ASSUME NEW S, IsFiniteSet(S), NEW x
  PROVE  /\ IsFiniteSet(S \cup {x})
         /\ Cardinality(S \cup {x}) \in Nat
         /\ Cardinality(S \cup {x}) <= Cardinality(S) + 1
<1>1. /\ IsFiniteSet(S \cup {x})
      /\ Cardinality(S \cup {x}) = IF x \in S THEN Cardinality(S) ELSE Cardinality(S) + 1
  BY FS_AddElement
<1>2. Cardinality(S) \in Nat
  BY FS_CardinalityType
<1> QED
  BY <1>1, <1>2

LEMMA LimitsStay ==
  ASSUME LimitsOK, JobsStay
  PROVE  LimitsOK'
<1>1. /\ Cardinality(Jobs(session')) <= Cardinality(Jobs(session))
      /\ Cardinality(Jobs(session')) \in Nat
  BY FiniteSets, FS_Subset, FS_CardinalityType DEF JobsStay
<1>2. /\ Cardinality(Subscribers') <= Cardinality(Subscribers)
      /\ Cardinality(Subscribers') \in Nat
  BY FiniteSets, FS_Subset, FS_CardinalityType DEF JobsStay
<1> QED
  BY <1>1, <1>2, FiniteSets, Constants DEF LimitsOK

\* A session that takes another state, and all others stay.
LEMMA SessionMoves ==
  ASSUME SessionsOK, LimitsOK, NEW s \in Sessions, NEW state \in SessionStates,
         session' = [session EXCEPT ![s] = state],
         state.observed => state.pc \in Served,
         state.subscriber => session[s].subscriber,
         state.pc \in Served \cup {"completed"} =>
           session[s].pc \in Served \cup {"completed"}
  PROVE  SessionsOK' /\ LimitsOK'
<1>1. SessionsOK'
  BY DEF SessionsOK
<1>2. \A r \in Sessions : session'[r] = IF r = s THEN state ELSE session[r]
  BY DEF SessionsOK
<1>3. JobsStay
  BY <1>2 DEF JobsStay, Jobs, Subscribers
<1> QED
  BY <1>1, <1>3, LimitsStay

LEMMA UnchangedSessions ==
  ASSUME SessionsOK, LimitsOK, UNCHANGED session
  PROVE  SessionsOK' /\ LimitsOK'
BY DEF SessionsOK, LimitsOK, Jobs, Subscribers

LEMMA UnchangedStatus ==
  ASSUME StatusOK, UNCHANGED <<status, remaining>>
  PROVE  StatusOK'
BY DEF StatusOK

LEMMA StatusChanges ==
  ASSUME StatusOK, Change
  PROVE  StatusOK'
BY Constants DEF StatusOK, Change, Consume, Plans, Versions, NoStatus

LEMMA HangUpSpends ==
  ASSUME StatusOK, Consume("hangUps") \/ Consume("failures"), UNCHANGED status
  PROVE  StatusOK'
BY DEF StatusOK, Consume, Plans

LEMMA ServerInitially == ServerInit => ServerInv
<1> SUFFICES ASSUME ServerInit
             PROVE  ServerInv
  OBVIOUS
<1>1. SessionsOK
  BY Constants DEF ServerInit, SessionsOK, SessionStates, Absent, Versions, NoStatus
<1>2. Jobs(session) = {} /\ Subscribers = {}
  BY DEF ServerInit, Jobs, Subscribers, Absent, Served
<1>3. LimitsOK
  BY <1>2, Constants, FS_EmptySet DEF LimitsOK
<1>4. RestOK
  <2>1. 0 \in Versions
    BY Constants DEF Versions, NoStatus
  <2>2. Newcomer \in ClientStates
    BY <2>1 DEF ClientStates, Newcomer, NoStatus
  <2> QED
    BY <2>2 DEF ServerInit, RestOK
<1>5. StatusOK
  <2>1. remaining \in Plans /\ remaining.changes < MaxStatus /\ remaining.changes \in Nat
    BY ServerAssumption DEF ServerAssumption, ServerInit, Plans
  <2> QED
    BY <2>1, Constants DEF ServerInit, StatusOK, Versions, NoStatus
<1> QED
  BY <1>1, <1>3, <1>4, <1>5 DEF ServerInv

-----------------------------------------------------------------------------
(* Clients *)

LEMMA ClientSteps ==
  ASSUME ServerInv, NEW s \in Sessions, Ask(s) \/ ReadAnswer(s) \/ HangUp(s)
  PROVE  ServerInv'
<1> USE DEF ServerInv
<1>1. UNCHANGED session
  BY DEF Ask, ReadAnswer, HangUp
<1>2. client' \in [Sessions -> ClientStates]
  <2>1. /\ client \in [Sessions -> ClientStates] /\ client[s] \in ClientStates
        /\ NoStatus \in Versions
    BY Constants DEF RestOK, Versions, NoStatus
  <2>2. CASE Ask(s)
    BY <2>1, <2>2 DEF Ask, ClientStates
  <2>3. CASE ReadAnswer(s)
    BY <2>1, <2>3 DEF ReadAnswer, ClientStates
  <2>4. CASE HangUp(s)
    BY <2>1, <2>4 DEF HangUp, ClientStates
  <2> QED
    BY <2>2, <2>3, <2>4
<1>4. RestOK'
  BY <1>2 DEF Ask, ReadAnswer, HangUp, RestOK
<1>3. StatusOK'
  BY UnchangedStatus, HangUpSpends DEF Ask, ReadAnswer, HangUp
<1> QED
  BY <1>1, <1>3, <1>4, UnchangedSessions

LEMMA ConnectStep ==
  ASSUME ServerInv, NEW s \in Sessions, Connect(s)
  PROVE  ServerInv'
<1> USE DEF ServerInv
<1> DEFINE state == [session[s] EXCEPT !.pc = "backlog"]
<1>1. session[s] \in SessionStates /\ session[s].pc = "absent"
  BY DEF Connect, SessionsOK
<1>2. /\ state \in SessionStates
      /\ ~state.observed /\ state.subscriber = session[s].subscriber
      /\ state.pc = "backlog"
  BY <1>1 DEF SessionStates, SessionsOK, Served
<1>3. session' = [session EXCEPT ![s] = state]
  BY DEF Connect
<1>4. SessionsOK' /\ LimitsOK'
  <2> HIDE DEF state
  <2> QED BY <1>2, <1>3, SessionMoves DEF Served
<1>5. RestOK' /\ StatusOK'
  BY UnchangedStatus DEF Connect, RestOK
<1> QED
  BY <1>4, <1>5

-----------------------------------------------------------------------------
(* Accepting *)

LEMMA CollectedStays ==
  ASSUME SessionsOK
  PROVE  /\ Collected \in [Sessions -> SessionStates]
         /\ \A s \in Sessions : Collected[s].observed => Collected[s].pc \in Served
         /\ Jobs(Collected) \subseteq Jobs(session)
         /\ \A s \in Sessions : Collected[s].subscriber => session[s].subscriber
         /\ \A s \in Sessions : session[s].pc = "backlog" => Collected[s] = session[s]
<1>1. Closed \in SessionStates /\ Closed.pc = "closed" /\ ~Closed.observed
      /\ ~Closed.subscriber
  BY ClosedState
<1>2. \A s \in Sessions : Collected[s] = IF session[s].pc = "completed"
                                         THEN Closed ELSE session[s]
  BY DEF Collected
<1>3. Collected \in [Sessions -> SessionStates]
  BY <1>1 DEF SessionsOK, Collected
<1> QED
  BY <1>1, <1>2, <1>3 DEF SessionsOK, Jobs, Served

\* A loop that collects and begins to publish.
LEMMA CollectedSessions ==
  ASSUME SessionsOK, LimitsOK, session' = Collected
  PROVE  SessionsOK' /\ LimitsOK'
<1>1. SessionsOK'
  BY CollectedStays DEF SessionsOK
<1>2. JobsStay
  BY CollectedStays DEF JobsStay, Subscribers
<1> QED
  BY <1>1, <1>2, LimitsStay

\* A connection is accepted only below the limit.
LEMMA AcceptStep ==
  ASSUME ServerInv, NEW s \in Sessions, Accept(s)
  PROVE  ServerInv'
<1> USE DEF ServerInv
<1> DEFINE full == Cardinality(Jobs(Collected)) >= MaxJobs
           state == IF full THEN Closed ELSE [Collected[s] EXCEPT !.pc = "reading"]
<1>1. session' = [Collected EXCEPT ![s] = state]
  BY DEF Accept
<1>2. /\ session[s].pc = "backlog" /\ Collected[s] = session[s]
      /\ session[s] \in SessionStates
  BY CollectedStays DEF Accept, SessionsOK
<1>3. /\ Closed \in SessionStates /\ Closed.pc = "closed" /\ ~Closed.observed
      /\ ~Closed.subscriber
  BY ClosedState
<1>4. /\ state \in SessionStates
      /\ state.subscriber => session[s].subscriber
      /\ state.pc = IF full THEN "closed" ELSE "reading"
      /\ ~state.observed
  BY <1>2, <1>3 DEF SessionStates, Served, SessionsOK
<1> HIDE DEF state
<1>5. \A r \in Sessions : session'[r] = IF r = s THEN state ELSE Collected[r]
  BY <1>1, CollectedStays
<1>6. SessionsOK'
  BY <1>1, <1>4, <1>5, CollectedStays DEF SessionsOK
<1>7. Subscribers' \subseteq Subscribers
  BY <1>4, <1>5, CollectedStays DEF Subscribers
<1>8. Cardinality(Subscribers') <= MaxSubscribers
  <2>1. /\ Cardinality(Subscribers') <= Cardinality(Subscribers)
        /\ Cardinality(Subscribers') \in Nat
    BY <1>7, FiniteSets, FS_Subset, FS_CardinalityType
  <2> QED
    BY <2>1, FiniteSets, Constants DEF LimitsOK
<1>9. IsFiniteSet(Jobs(Collected)) /\ Cardinality(Jobs(Collected)) \in Nat
      /\ Cardinality(Jobs(Collected)) <= Cardinality(Jobs(session))
  BY CollectedStays, FiniteSets, FS_Subset, FS_CardinalityType
<1>10. Cardinality(Jobs(session')) <= MaxJobs
  <2>1. CASE full
    <3>1. Jobs(session') \subseteq Jobs(Collected)
      BY <1>4, <1>5, <2>1 DEF Jobs, Served
    <3>2. Cardinality(Jobs(session')) <= Cardinality(Jobs(Collected))
          /\ Cardinality(Jobs(session')) \in Nat
      BY <3>1, <1>9, FS_Subset, FS_CardinalityType
    <3> QED
      BY <3>2, <1>9, FiniteSets, Constants DEF LimitsOK
  <2>2. CASE ~full
    <3>1. Jobs(session') \subseteq Jobs(Collected) \cup {s}
      BY <1>5 DEF Jobs
    <3>2. /\ IsFiniteSet(Jobs(Collected) \cup {s})
          /\ Cardinality(Jobs(Collected) \cup {s}) \in Nat
          /\ Cardinality(Jobs(Collected) \cup {s}) <= Cardinality(Jobs(Collected)) + 1
      BY <1>9, OneMore
    <3>3. Cardinality(Jobs(session')) <= Cardinality(Jobs(Collected) \cup {s})
          /\ Cardinality(Jobs(session')) \in Nat
      BY <3>1, <3>2, FS_Subset, FS_CardinalityType
    <3> QED
      BY <2>2, <3>2, <3>3, <1>9, Constants
  <2> QED
    BY <2>1, <2>2
<1>11. RestOK' /\ StatusOK'
  BY UnchangedStatus DEF Accept, RestOK
<1> QED
  BY <1>6, <1>8, <1>10, <1>11 DEF LimitsOK

LEMMA AcceptFailsStep ==
  ASSUME ServerInv, AcceptFails
  PROVE  ServerInv'
<1> USE DEF ServerInv
<1>1. StatusOK'
  BY HangUpSpends DEF AcceptFails
<1>2. RestOK'
  BY DEF AcceptFails, RestOK, Loops
<1> QED
  BY <1>1, <1>2, UnchangedSessions DEF AcceptFails

-----------------------------------------------------------------------------
(* A connection is served *)

LEMMA LeavingMoves ==
  ASSUME SessionsOK, LimitsOK, NEW s \in Sessions,
         session[s].pc \in Served, Leave(s)
  PROVE  SessionsOK' /\ LimitsOK'
<1> DEFINE state == Leaving(session[s])
<1>1. session[s] \in SessionStates
  BY DEF SessionsOK
<1>2. /\ state \in SessionStates
      /\ state.observed = session[s].observed /\ ~state.subscriber
      /\ state.pc = IF session[s].observed THEN "leaving" ELSE "completed"
  BY <1>1 DEF Leaving, SessionStates, Served
<1>3. session' = [session EXCEPT ![s] = state]
  BY DEF Leave
<1> HIDE DEF state
<1> QED
  BY <1>2, <1>3, SessionMoves DEF Served

LEMMA ReadRequestStep ==
  ASSUME ServerInv, NEW s \in Sessions, ReadRequest(s)
  PROVE  ServerInv'
<1> USE DEF ServerInv
<1>1. RestOK' /\ StatusOK'
  BY UnchangedStatus DEF ReadRequest, RestOK
<1>2. session[s].pc = "reading" /\ session[s] \in SessionStates
  BY DEF ReadRequest, SessionsOK
<1>3. CASE Leave(s)
  BY <1>1, <1>2, <1>3, LeavingMoves DEF Served
<1>4. CASE session' = [session EXCEPT ![s].pc = "handling", ![s].observed = TRUE]
  <2> DEFINE state == [session[s] EXCEPT !.pc = "handling", !.observed = TRUE]
  <2>1. /\ state \in SessionStates /\ state.pc = "handling"
        /\ state.subscriber = session[s].subscriber
    BY <1>2 DEF SessionStates, Served
  <2>2. session' = [session EXCEPT ![s] = state]
    BY <1>2, <1>4 DEF SessionStates, SessionsOK
  <2> HIDE DEF state
  <2> QED
    BY <1>1, <1>2, <2>1, <2>2, SessionMoves DEF Served
<1> QED
  BY <1>3, <1>4 DEF ReadRequest

LEMMA HandleRequestStep ==
  ASSUME ServerInv, NEW s \in Sessions, HandleRequest(s)
  PROVE  ServerInv'
<1> USE DEF ServerInv
<1>1. StatusOK'
  BY UnchangedStatus, StatusChanges DEF HandleRequest
<1>2. RestOK'
  BY DEF HandleRequest, RestOK
<1>3. session[s].pc = "handling" /\ session[s] \in SessionStates
  BY DEF HandleRequest, SessionsOK
<1>4. CASE Leave(s)
  BY <1>1, <1>2, <1>3, <1>4, LeavingMoves DEF Served
<1>5. ASSUME NEW pc \in {"publishing", "responding"},
             session' = [session EXCEPT ![s].pc = pc, ![s].output = status']
      PROVE  ServerInv'
  <2> DEFINE state == [session[s] EXCEPT !.pc = pc, !.output = status']
  <2>1. status' \in Versions
    BY <1>1 DEF StatusOK
  <2>2. /\ state \in SessionStates /\ state.pc = pc
        /\ state.subscriber = session[s].subscriber
    BY <1>3, <2>1 DEF SessionStates, Served
  <2>3. session' = [session EXCEPT ![s] = state]
    BY <1>3, <1>5 DEF SessionStates, SessionsOK
  <2> HIDE DEF state
  <2> QED
    BY <1>1, <1>2, <1>3, <2>2, <2>3, SessionMoves DEF Served
<1> QED
  BY <1>4, <1>5 DEF HandleRequest

\* What a client reads is a status.
LEMMA Delivered ==
  ASSUME SessionsOK, RestOK, NEW s \in Sessions,
         client' = [client EXCEPT ![s].wire = session[s].output],
         UNCHANGED <<loop, publishEvent, server>>
  PROVE  RestOK'
<1>1. session[s].output \in Versions /\ client[s] \in ClientStates
  BY DEF SessionsOK, RestOK, SessionStates
<1>2. [client[s] EXCEPT !.wire = session[s].output] \in ClientStates
  BY <1>1 DEF ClientStates
<1> QED
  BY <1>2 DEF RestOK

\* A subscription begins only below the limit.
LEMMA RespondStep ==
  ASSUME ServerInv, NEW s \in Sessions, Respond(s)
  PROVE  ServerInv'
<1> USE DEF ServerInv
<1>1. RestOK' /\ StatusOK'
  BY Delivered, UnchangedStatus DEF Respond
<1>2. session[s].pc = "responding" /\ session[s] \in SessionStates
  BY DEF Respond, SessionsOK
<1>3. CASE Leave(s)
  BY <1>1, <1>2, <1>3, LeavingMoves DEF Served
<1>4. CASE /\ Cardinality(Subscribers) < MaxSubscribers
           /\ session' = [session EXCEPT ![s].pc = "waiting", ![s].subscriber = TRUE,
                                         ![s].output = NoStatus]
  <2> DEFINE state == [session[s] EXCEPT !.pc = "waiting", !.subscriber = TRUE,
                                         !.output = NoStatus]
  <2>1. NoStatus \in Versions
    BY Constants DEF Versions, NoStatus
  <2>2. state \in SessionStates /\ state.pc = "waiting"
    BY <1>2, <2>1 DEF SessionStates, Served
  <2>3. session' = [session EXCEPT ![s] = state]
    BY <1>2, <1>4 DEF SessionStates, SessionsOK
  <2> HIDE DEF state
  <2>4. \A r \in Sessions : session'[r] = IF r = s THEN state ELSE session[r]
    BY <2>3 DEF SessionsOK
  <2>5. SessionsOK'
    BY <2>2, <2>3, <2>4 DEF SessionsOK, Served
  <2>6. /\ Jobs(session') \subseteq Jobs(session)
        /\ Subscribers' \subseteq Subscribers \cup {s}
    BY <1>2, <2>4 DEF Jobs, Subscribers, Served
  <2>7. Cardinality(Jobs(session')) <= MaxJobs
    <3>1. Cardinality(Jobs(session')) <= Cardinality(Jobs(session))
          /\ Cardinality(Jobs(session')) \in Nat
      BY <2>6, FiniteSets, FS_Subset, FS_CardinalityType
    <3> QED
      BY <3>1, FiniteSets, Constants DEF LimitsOK
  <2>8. Cardinality(Subscribers') <= MaxSubscribers
    <3>1. /\ IsFiniteSet(Subscribers \cup {s})
          /\ Cardinality(Subscribers \cup {s}) \in Nat
          /\ Cardinality(Subscribers \cup {s}) <= Cardinality(Subscribers) + 1
      BY FiniteSets, OneMore
    <3>2. Cardinality(Subscribers') <= Cardinality(Subscribers \cup {s})
          /\ Cardinality(Subscribers') \in Nat
      BY <2>6, <3>1, FS_Subset, FS_CardinalityType
    <3> QED
      BY <1>4, <3>1, <3>2, FiniteSets, Constants
  <2> QED
    BY <1>1, <2>5, <2>7, <2>8 DEF LimitsOK
<1> QED
  BY <1>3, <1>4 DEF Respond

\* A subscriber's status is taken, or sent.
LEMMA OutputSteps ==
  ASSUME ServerInv, NEW s \in Sessions, TakeOutput(s) \/ SendOutput(s)
  PROVE  ServerInv'
<1> USE DEF ServerInv
<1>1. session[s] \in SessionStates /\ NoStatus \in Versions
  BY Constants DEF SessionsOK, Versions, NoStatus
<1>2. CASE TakeOutput(s)
  <2> DEFINE state == [session[s] EXCEPT !.pc = "sending", !.output = session[s].pendingOutput,
                                         !.pendingOutput = NoStatus]
  <2>1. /\ state \in SessionStates /\ state.pc = "sending"
        /\ state.subscriber = session[s].subscriber
    BY <1>1 DEF SessionStates, Served
  <2>2. session' = [session EXCEPT ![s] = state] /\ session[s].pc = "waiting"
    BY <1>1, <1>2 DEF TakeOutput, SessionStates, SessionsOK
  <2> HIDE DEF state
  <2>3. SessionsOK' /\ LimitsOK'
    BY <2>1, <2>2, SessionMoves DEF Served
  <2> QED
    BY <1>2, <2>3, UnchangedStatus DEF TakeOutput, RestOK
<1>3. CASE SendOutput(s)
  <2> DEFINE state == [session[s] EXCEPT !.pc = "waiting", !.output = NoStatus]
  <2>1. /\ state \in SessionStates /\ state.pc = "waiting"
        /\ state.subscriber = session[s].subscriber
    BY <1>1 DEF SessionStates, Served
  <2>2. session' = [session EXCEPT ![s] = state] /\ session[s].pc = "sending"
    BY <1>1, <1>3 DEF SendOutput, SessionStates, SessionsOK
  <2> HIDE DEF state
  <2>3. SessionsOK' /\ LimitsOK'
    BY <2>1, <2>2, SessionMoves DEF Served
  <2> QED
    BY <1>3, <2>3, Delivered, UnchangedStatus DEF SendOutput
<1> QED
  BY <1>2, <1>3

LEMMA AwaitThrowsStep ==
  ASSUME ServerInv, NEW s \in Sessions, AwaitThrows(s)
  PROVE  ServerInv'
<1> USE DEF ServerInv
<1>1. session[s].pc \in Served /\ Leave(s)
  BY DEF AwaitThrows, Served
<1> QED
  BY <1>1, LeavingMoves, UnchangedStatus DEF AwaitThrows, RestOK

\* The descriptor is no longer waited for; then the connection ends.
LEMMA EndingSteps ==
  ASSUME ServerInv, NEW s \in Sessions, ObserveDisconnect(s) \/ ShutDown(s)
  PROVE  ServerInv'
<1> USE DEF ServerInv
<1>1. session[s] \in SessionStates
  BY DEF SessionsOK
<1>2. CASE ObserveDisconnect(s)
  <2> DEFINE state == [session[s] EXCEPT !.observed = FALSE, !.canceled = TRUE]
  <2>1. /\ state \in SessionStates /\ state.pc = session[s].pc /\ ~state.observed
        /\ state.subscriber = session[s].subscriber
    BY <1>1 DEF SessionStates
  <2>2. session' = [session EXCEPT ![s] = state]
    BY <1>1, <1>2 DEF ObserveDisconnect, SessionStates, SessionsOK
  <2> HIDE DEF state
  <2>3. SessionsOK' /\ LimitsOK'
    BY <2>1, <2>2, SessionMoves
  <2> QED
    BY <1>2, <2>3, UnchangedStatus DEF ObserveDisconnect, RestOK
<1>3. CASE ShutDown(s)
  <2> DEFINE state == [session[s] EXCEPT !.pc = "completed"]
  <2>1. /\ state \in SessionStates /\ state.pc = "completed" /\ ~state.observed
        /\ state.subscriber = session[s].subscriber
    BY <1>1, <1>3 DEF SessionStates, ShutDown
  <2>2. session' = [session EXCEPT ![s] = state] /\ session[s].pc = "leaving"
    BY <1>3 DEF ShutDown
  <2> HIDE DEF state
  <2>3. SessionsOK' /\ LimitsOK'
    BY <2>1, <2>2, SessionMoves DEF Served
  <2> QED
    BY <1>3, <2>3, UnchangedStatus DEF ShutDown, RestOK
<1> QED
  BY <1>2, <1>3

-----------------------------------------------------------------------------
(* Publication *)

LEMMA StoredStays ==
  ASSUME SessionsOK, StatusOK, NEW stored \in Stored
  PROVE  /\ stored \in [Sessions -> SessionStates]
         /\ \A r \in Sessions : /\ stored[r].pc = session[r].pc
                                /\ stored[r].subscriber = session[r].subscriber
                                /\ stored[r].observed = session[r].observed
<1>1. CASE stored = session
  BY <1>1 DEF SessionsOK
<1>2. CASE stored = [s \in Sessions |->
                       IF session[s].subscriber
                       THEN [session[s] EXCEPT !.pendingOutput = status] ELSE session[s]]
  <2>1. ASSUME NEW r \in Sessions
        PROVE  LET written == [session[r] EXCEPT !.pendingOutput = status]
               IN /\ written \in SessionStates
                  /\ written.pc = session[r].pc
                  /\ written.subscriber = session[r].subscriber
                  /\ written.observed = session[r].observed
    <3>1. session[r] \in SessionStates /\ status \in Versions
      BY DEF SessionsOK, StatusOK
    <3> QED
      BY <3>1 DEF SessionStates
  <2> QED
    BY <1>2, <2>1 DEF SessionsOK
<1> QED
  BY <1>1, <1>2 DEF Stored

LEMMA PublishChangeStep ==
  ASSUME ServerInv, NEW s \in Sessions, PublishChange(s)
  PROVE  ServerInv'
<1> USE DEF ServerInv
<1>1. PICK stored \in Stored : session' = [stored EXCEPT ![s].pc = "responding"]
  BY DEF PublishChange
<1>2. /\ stored \in [Sessions -> SessionStates] /\ session[s].pc = "publishing"
      /\ \A r \in Sessions : /\ stored[r].pc = session[r].pc
                             /\ stored[r].subscriber = session[r].subscriber
                             /\ stored[r].observed = session[r].observed
  BY StoredStays DEF PublishChange
<1> DEFINE state == [stored[s] EXCEPT !.pc = "responding"]
<1>3. /\ state \in SessionStates /\ state.pc = "responding"
      /\ state.subscriber = stored[s].subscriber
  BY <1>2 DEF SessionStates, Served
<1>4. session' = [stored EXCEPT ![s] = state]
  BY <1>1
<1> HIDE DEF state
<1>5. \A r \in Sessions : session'[r] = IF r = s THEN state ELSE stored[r]
  BY <1>2, <1>4
<1>6. SessionsOK'
  BY <1>2, <1>3, <1>4, <1>5 DEF SessionsOK, Served
<1>7. JobsStay
  BY <1>2, <1>3, <1>5 DEF JobsStay, Jobs, Subscribers, Served
<1> QED
  BY <1>6, <1>7, LimitsStay, UnchangedStatus DEF PublishChange, RestOK

LEMMA PublishFromStep ==
  ASSUME ServerInv, NEW l \in Loops, PublishFrom(l)
  PROVE  ServerInv'
<1> USE DEF ServerInv
<1>1. /\ session' \in [Sessions -> SessionStates]
      /\ \A r \in Sessions : /\ session'[r].pc = session[r].pc
                             /\ session'[r].subscriber = session[r].subscriber
                             /\ session'[r].observed = session[r].observed
  BY StoredStays DEF PublishFrom
<1>2. SessionsOK' /\ JobsStay
  BY <1>1 DEF SessionsOK, JobsStay, Jobs, Subscribers
<1>3. RestOK'
  BY DEF PublishFrom, RestOK
<1> QED
  BY <1>2, <1>3, LimitsStay, UnchangedStatus DEF PublishFrom

LEMMA LoopSteps ==
  ASSUME ServerInv,
         ObservePublication \/ PublishPeriodically \/ ObserveApplicationEvents \/ RuntimeChanges
  PROVE  ServerInv'
<1> USE DEF ServerInv
<1>1. SessionsOK' /\ LimitsOK'
  BY CollectedSessions, UnchangedSessions
     DEF ObservePublication, PublishPeriodically, ObserveApplicationEvents, RuntimeChanges
<1>2. StatusOK'
  BY UnchangedStatus, StatusChanges
     DEF ObservePublication, PublishPeriodically, ObserveApplicationEvents, RuntimeChanges
<1>3. loop' \in [Loops -> {"idle", "publishing", "failed"}]
  BY DEF ObservePublication, PublishPeriodically, ObserveApplicationEvents, RuntimeChanges,
         BeginPublication, RestOK
<1>4. RestOK'
  BY <1>3 DEF ObservePublication, PublishPeriodically, ObserveApplicationEvents,
              RuntimeChanges, RestOK
<1> QED
  BY <1>1, <1>2, <1>4

-----------------------------------------------------------------------------
(* The stop *)

LEMMA StopSteps ==
  ASSUME ServerInv, Stop \/ CancelService \/ EndService
  PROVE  ServerInv'
<1> USE DEF ServerInv
<1>1. RestOK' /\ StatusOK'
  BY UnchangedStatus DEF Stop, CancelService, EndService, RestOK
<1>2. CASE Stop
  BY <1>1, <1>2, UnchangedSessions DEF Stop
<1>3. CASE CancelService
  <2>1. ASSUME NEW r \in Sessions
        PROVE  LET canceled == [session[r] EXCEPT !.canceled = TRUE]
               IN /\ canceled \in SessionStates
                  /\ canceled.pc = session[r].pc
                  /\ canceled.subscriber = session[r].subscriber
                  /\ canceled.observed = session[r].observed
    <3>1. session[r] \in SessionStates
      BY DEF SessionsOK
    <3> QED
      BY <3>1 DEF SessionStates
  <2>2. /\ session' \in [Sessions -> SessionStates]
        /\ \A r \in Sessions : /\ session'[r].pc = session[r].pc
                               /\ session'[r].subscriber = session[r].subscriber
                               /\ session'[r].observed = session[r].observed
    BY <1>3, <2>1 DEF CancelService, CanceledSessions, SessionsOK
  <2>3. SessionsOK' /\ JobsStay
    BY <2>2 DEF SessionsOK, JobsStay, Jobs, Subscribers
  <2> QED
    BY <1>1, <2>3, LimitsStay
<1>4. CASE EndService
  <2>1. session' = [s \in Sessions |-> Closed]
    BY <1>4 DEF EndService
  <2>2. SessionsOK' /\ JobsStay
    BY <2>1, ClosedState DEF SessionsOK, JobsStay, Jobs, Subscribers, Served
  <2> QED
    BY <1>1, <2>2, LimitsStay
<1> QED
  BY <1>2, <1>3, <1>4

-----------------------------------------------------------------------------
LEMMA ServerPreserved == ServerInv /\ [ServerNext]_serverVars => ServerInv'
<1> SUFFICES ASSUME ServerInv, [ServerNext]_serverVars
             PROVE  ServerInv'
  OBVIOUS
<1>1. CASE UNCHANGED serverVars
  <2>1. SessionsOK' /\ LimitsOK'
    BY <1>1, UnchangedSessions DEF ServerInv, serverVars
  <2>2. StatusOK' /\ RestOK'
    BY <1>1, UnchangedStatus DEF ServerInv, RestOK, serverVars
  <2> QED
    BY <2>1, <2>2 DEF ServerInv
<1>2. ASSUME NEW s \in Sessions, HandleClient(s)
      PROVE  ServerInv'
  BY <1>2, ReadRequestStep, HandleRequestStep, PublishChangeStep, RespondStep, OutputSteps,
     AwaitThrowsStep DEF HandleClient
<1> QED
  BY <1>1, <1>2, ClientSteps, ConnectStep, AcceptStep, AcceptFailsStep, EndingSteps,
     LoopSteps, PublishFromStep, StopSteps, Zenon DEF ServerNext

\* The server never serves more connections or subscriptions than it may, never
\* closes a descriptor that a coroutine still waits for, and keeps its types.
THEOREM ServerStaysWithinLimits == ServerSpec => []ServerTypeOK
<1>1. ServerInit => ServerInv
  BY ServerInitially
<1>2. ServerInv /\ [ServerNext]_serverVars => ServerInv'
  BY ServerPreserved
<1>3. ServerInv => ServerTypeOK
  BY TypeIsPartOfInvariant
<1> QED
  BY <1>1, <1>2, <1>3, PTL DEF ServerSpec
=============================================================================
