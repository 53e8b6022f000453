---------------------- MODULE SettingsTransactionProofs ----------------------
(***************************************************************************)
(* What holds of the settings window for any settings, values, connections *)
(* and bounds, however its requests, their replies, the events of the      *)
(* subscription and the other clients of the daemon overlap.               *)
(*                                                                         *)
(* The invariant says what the two action properties need:                 *)
(*   AbandonedInv  a draft that was given up is not what the window wants  *)
(*   WindowInv     while nobody disturbs it, the window has confirmed what *)
(*                 the daemon has, but for what its one request changes    *)
(*   EventsInv     meanwhile no status event is ahead of the daemon, and   *)
(*                 one of its revision is its state                        *)
(*                                                                         *)
(* Most steps hand the window to its driver.  Drives says what such a step *)
(* starts from, once for all of them; the driver then closes the window,   *)
(* sends the next setting, or leaves all as it is.  The other steps only   *)
(* watch: they neither close the window nor send.                          *)
(***************************************************************************)
EXTENDS SettingsTransaction, TLAPS, SequenceTheorems, WellFoundedInduction

-----------------------------------------------------------------------------
(* The invariant. *)

\* A draft that was given up is never what the window wants: when the outputs are
\* taken back to what the daemon has, its choice is not that.  A Cancel forgets it.
AbandonedInv ==
  abandoned # NoValue =>
    /\ Ready /\ ~transaction.cancelRequested
    /\ transaction.desired["output"] # abandoned

Recent(status) ==
  /\ status.revision <= daemon.revision
  /\ status.revision = daemon.revision => status = daemon

Confirmed(t) == t.confirmed = daemon.configuration /\ t.revision = daemon.revision

\* The request of a transaction that waits, before and after the daemon took it.
OnItsWay(t, r) ==
  \/ /\ r.stage = "sent" /\ r.operation = t.inFlight.operation
     /\ r.target = t.inFlight.target /\ Confirmed(t)
     /\ r.operation = "output" =>
          IF r.processing = NoValue
          THEN r.target["processing"] = daemon.configuration["processing"]
          ELSE r.processing = r.target["processing"]
  \/ /\ r.stage = "answered" /\ r.ok /\ r.status = daemon
     /\ Matches(t.inFlight.operation, daemon.configuration, t.inFlight.target)
  \/ r.stage = "answered" /\ ~r.ok /\ Confirmed(t)

NoRequest(requests) == \A c \in Connections : requests[c] = Unused

\* What the window has confirmed is what the daemon has, up to its one request.
Accurate(t, requests) ==
  /\ t.connected
  /\ IF t.inFlight = Nothing THEN NoRequest(requests) /\ Confirmed(t)
     ELSE \E c \in Connections :
            /\ OnItsWay(t, requests[c])
            /\ \A d \in Connections \ {c} : requests[d] = Unused

EventsInv ==
  undisturbed =>
    /\ subscription.state = "on"
    /\ \A i \in 1 .. Len(subscription.events) : Recent(subscription.events[i])

WindowInv ==
  undisturbed =>
    IF Ready THEN Accurate(transaction, request) ELSE NoRequest(request)

-----------------------------------------------------------------------------
(* The operators of the transaction keep its types. *)

LEMMA FieldNames == "output" \in Fields /\ "processing" \in Fields
  BY DEF Fields

LEMMA OrderOfFields ==
  DOMAIN Order \subseteq Nat /\ \A i \in DOMAIN Order : Order[i] \in Fields
<1>1. Scalars \in Seq(STRING) /\ DOMAIN Scalars = 1 .. Len(Scalars) /\ Len(Scalars) \in Nat
  BY SettingsAssumption
<1>2. DOMAIN Order = 1 .. Len(Scalars) + 2
  BY <1>1 DEF Order
<1>3. \A i \in DOMAIN Order :
        Order[i] = IF i <= Len(Scalars) THEN Scalars[i]
                   ELSE IF i = Len(Scalars) + 1 THEN "output" ELSE "processing"
  BY <1>1, <1>2 DEF Order
<1>4. \A i \in DOMAIN Scalars : Scalars[i] \in Fields
  BY DEF Fields
<1> QED
  BY <1>1, <1>2, <1>3, <1>4, FieldNames

\* The next operation is for a setting that differs, of a connected transaction
\* that waits for nothing.
LEMMA NextOperationOutcome ==
  ASSUME NEW t, NextOperation(t) # "none"
  PROVE  /\ NextOperation(t) \in Fields /\ t.connected /\ t.inFlight = Nothing
         /\ t.confirmed[NextOperation(t)] # t.desired[NextOperation(t)]
<1> DEFINE D == Differing(t)
           Less == OpToRel(<, Nat)
<1>1. /\ t.connected /\ t.inFlight = Nothing /\ D # {}
      /\ NextOperation(t) = Order[CHOOSE i \in D : \A j \in D : i <= j]
  BY DEF NextOperation
<1>2. D \subseteq Nat /\ D \subseteq DOMAIN Order
  BY OrderOfFields DEF Differing
<1>3. IsWellFoundedOn(Less, Nat)
  BY NatLessThanWellFounded
<1>4. ASSUME NEW x \in Nat, NEW y \in Nat, <<y, x>> \notin Less PROVE x <= y
  BY <1>4 DEF OpToRel
<1> HIDE DEF D, Less
<1>5. PICK i \in D : \A j \in D : ~(<<j, i>> \in Less)
  BY <1>1, <1>2, <1>3, WFMin
<1>6. \A j \in D : i <= j
  BY <1>2, <1>4, <1>5
<1>7. (CHOOSE k \in D : \A j \in D : k <= j) \in D
  BY <1>6
<1> QED
  BY <1>1, <1>2, <1>7, OrderOfFields DEF D, Differing

LEMMA DefaultsAreConfiguration == Defaults \in Configurations
  BY SettingsAssumption DEF Defaults, Configurations

LEMMA StatusTypes ==
  ASSUME NEW s \in Status
  PROVE  s.configuration \in Configurations /\ s.revision \in Nat
  BY DEF Status

\* A transaction that is not waiting keeps the promise of one that is connected.
Sound(t) == t \in Transactions /\ (t.inFlight # Nothing => t.connected)

LEMMA TransactionTypes ==
  ASSUME NEW t \in Transactions
  PROVE  /\ t.baseline \in Configurations /\ t.desired \in Configurations
         /\ t.confirmed \in Configurations /\ t.revision \in Nat
         /\ t.connected \in BOOLEAN /\ t.cancelRequested \in BOOLEAN
         /\ t.conflict \in BOOLEAN /\ t.liveChangeFailed \in BOOLEAN
         /\ t # NoTransaction
         /\ t.inFlight # Nothing =>
              t.inFlight.operation \in Fields /\ t.inFlight.target \in Configurations
  BY DEF Transactions, NoTransaction, Nothing

LEMMA BeginSound ==
  ASSUME NEW s \in Status, NEW connected \in BOOLEAN
  PROVE  LET t == BeginTransaction(s, connected)
         IN /\ Sound(t) /\ t.inFlight = Nothing /\ ~t.cancelRequested
            /\ t.confirmed = s.configuration /\ t.desired = s.configuration
            /\ t.baseline = s.configuration /\ t.revision = s.revision
            /\ t.connected = connected
  BY StatusTypes DEF BeginTransaction, Sound, Transactions

LEMMA EditedSound ==
  ASSUME NEW t, Sound(t), NEW desired \in Configurations
  PROVE  LET q == Edited(t, desired)
         IN /\ Sound(q) /\ q.desired = desired
            /\ q.confirmed = t.confirmed /\ q.revision = t.revision
            /\ q.inFlight = t.inFlight /\ q.connected = t.connected
            /\ q.cancelRequested = t.cancelRequested /\ q.baseline = t.baseline
  BY DEF Edited, Sound, Transactions

LEMMA WithDefaultsSound ==
  ASSUME NEW t, Sound(t)
  PROVE  LET q == WithDefaults(t)
         IN /\ Sound(q) /\ ~q.cancelRequested
            /\ q.confirmed = t.confirmed /\ q.revision = t.revision
            /\ q.inFlight = t.inFlight /\ q.connected = t.connected
            /\ q.baseline = t.baseline
  BY DefaultsAreConfiguration DEF WithDefaults, Sound, Transactions

LEMMA CanceledSound ==
  ASSUME NEW t, Sound(t)
  PROVE  LET q == Canceled(t)
         IN /\ Sound(q) /\ q.confirmed = t.confirmed /\ q.revision = t.revision
            /\ q.inFlight = t.inFlight /\ q.connected = t.connected
            /\ q.baseline = t.baseline
  BY DEF Canceled, Sound, Transactions

LEMMA PersistedSound ==
  ASSUME NEW t, Sound(t)
  PROVE  LET q == Persisted(t)
         IN /\ Sound(q) /\ q.confirmed = t.confirmed /\ q.revision = t.revision
            /\ q.inFlight = t.inFlight /\ q.connected = t.connected
            /\ q.desired = t.desired /\ q.cancelRequested = t.cancelRequested
  BY DEF Persisted, Sound, Transactions

LEMMA GivenUpSound ==
  ASSUME NEW t, Sound(t)
  PROVE  LET q == GivenUp(t)
         IN /\ Sound(q) /\ q.confirmed = t.confirmed /\ q.revision = t.revision
            /\ q.inFlight = t.inFlight /\ q.connected = t.connected
            /\ q.desired["output"] = t.confirmed["output"]
            /\ q.cancelRequested = t.cancelRequested /\ q.baseline = t.baseline
<1> DEFINE desired == [t.desired EXCEPT !["output"] = t.confirmed["output"]]
<1>1. desired \in Configurations /\ desired["output"] = t.confirmed["output"]
  BY TransactionTypes, FieldNames DEF Sound, Configurations
<1>2. GivenUp(t) = [t EXCEPT !.desired = desired]
  BY DEF GivenUp, Sound, Transactions
<1> HIDE DEF desired
<1> QED
  BY <1>1, <1>2 DEF Sound, Transactions

LEMMA DisconnectedSound ==
  ASSUME NEW t, Sound(t)
  PROVE  LET q == Disconnected(t)
         IN /\ Sound(q) /\ q.inFlight = Nothing /\ ~q.connected /\ q.desired = t.desired
            /\ q.confirmed = t.confirmed /\ q.cancelRequested = t.cancelRequested
  BY DEF Disconnected, Sound, Transactions

LEMMA ReconnectedSound ==
  ASSUME NEW t, Sound(t), NEW s \in Status
  PROVE  LET q == Reconnected(t, s)
         IN /\ Sound(q) /\ q.desired = t.desired /\ q.confirmed = s.configuration
            /\ q.cancelRequested = t.cancelRequested /\ q.baseline = t.baseline
  BY StatusTypes DEF Reconnected, Sound, Transactions

LEMMA ObservedSound ==
  ASSUME NEW t, Sound(t), NEW s \in Status
  PROVE  LET q == Observed(t, s)
         IN /\ Sound(q) /\ q.desired = t.desired /\ q.inFlight = t.inFlight
            /\ q.connected = t.connected /\ q.baseline = t.baseline
            /\ q.cancelRequested = t.cancelRequested
            /\ \/ t.inFlight # Nothing /\ q = t
               \/ s.revision < t.revision /\ q = t
               \/ /\ t.inFlight = Nothing /\ s.revision >= t.revision
                  /\ q.revision = s.revision /\ q.confirmed = s.configuration
<1>1. CASE t.inFlight # Nothing \/ s.revision < t.revision
  BY <1>1 DEF Observed
<1>2. CASE t.inFlight = Nothing /\ ~(s.revision < t.revision)
  <2>1. s.revision >= t.revision
    BY <1>2, StatusTypes, TransactionTypes DEF Sound
  <2>2. CASE s.configuration = t.confirmed
    <3>1. Observed(t, s) = [t EXCEPT !.revision = s.revision]
      BY <1>2, <2>2 DEF Observed
    <3> QED
      BY <1>2, <2>1, <2>2, <3>1, StatusTypes DEF Sound, Transactions
  <2>3. CASE s.configuration # t.confirmed
    <3>1. Observed(t, s) = [t EXCEPT !.confirmed = s.configuration,
                                     !.revision = s.revision, !.conflict = TRUE,
                                     !.liveChangeFailed = FALSE]
      BY <1>2, <2>3 DEF Observed
    <3> QED
      BY <1>2, <2>1, <3>1, StatusTypes DEF Sound, Transactions
  <2> QED
    BY <2>2, <2>3
<1> QED
  BY <1>1, <1>2

LEMMA CompletedSound ==
  ASSUME NEW t, Sound(t), NEW reply, reply.ok \in BOOLEAN, reply.status \in Status
  PROVE  LET q == Completed(t, reply)
         IN /\ Sound(q) /\ q.desired = t.desired /\ q.connected = t.connected
            /\ q.baseline = t.baseline /\ q.cancelRequested = t.cancelRequested
            /\ q.inFlight = Nothing
            /\ \/ t.inFlight = Nothing /\ q = t
               \/ /\ t.inFlight # Nothing /\ reply.ok /\ ~q.liveChangeFailed
                  /\ Matches(t.inFlight.operation, reply.status.configuration,
                             t.inFlight.target)
                  /\ q.confirmed = reply.status.configuration
                  /\ q.revision = reply.status.revision
               \/ /\ t.inFlight # Nothing /\ q.liveChangeFailed
                  /\ ~(reply.ok /\ Matches(t.inFlight.operation, reply.status.configuration,
                                           t.inFlight.target))
                  /\ q.confirmed = t.confirmed /\ q.revision = t.revision
<1>1. CASE t.inFlight = Nothing
  BY <1>1 DEF Completed
<1>2. CASE /\ t.inFlight # Nothing /\ reply.ok
           /\ Matches(t.inFlight.operation, reply.status.configuration, t.inFlight.target)
  <2>1. Completed(t, reply) = CompletedUnverified(t, reply)
    BY <1>2 DEF Completed
  <2> QED
    BY <1>2, <2>1, StatusTypes DEF CompletedUnverified, Sound, Transactions
<1>3. CASE /\ t.inFlight # Nothing
           /\ ~(reply.ok /\ Matches(t.inFlight.operation, reply.status.configuration,
                                    t.inFlight.target))
  <2>1. Completed(t, reply) = Failed(t)
    BY <1>3 DEF Completed
  <2> QED
    BY <1>3, <2>1 DEF Failed, Sound, Transactions
<1> QED
  BY <1>1, <1>2, <1>3

-----------------------------------------------------------------------------
(* The driver. *)

\* What the window must be for it to be driven.
Driven(t, closing, d, others) ==
  /\ Sound(t) /\ closing \in BOOLEAN /\ d \in Drafts
  /\ others \in [Connections -> Requests] /\ dialog.open

LEMMA SentIsRequest ==
  ASSUME NEW t, Sound(t), NextOperation(t) # "none"
  PROVE  /\ Sent(t, NextOperation(t)) \in Requests
         /\ Sent(t, NextOperation(t)).stage = "sent"
         /\ Sent(t, NextOperation(t)).operation = NextOperation(t)
         /\ Sent(t, NextOperation(t)).target = t.desired
<1>1. /\ NextOperation(t) \in Fields /\ t.desired \in Configurations
      /\ t.revision \in Nat
  BY NextOperationOutcome, TransactionTypes DEF Sound
<1>2. t.desired["processing"] \in Values
  BY <1>1, FieldNames DEF Configurations
<1> QED
  BY <1>1, <1>2 DEF Sent, Requests

\* The window closes after its rollback, keeps what it has, or sends what differs.
LEMMA DriveOutcome ==
  ASSUME NEW t, NEW closing, NEW d, NEW others, Driven(t, closing, d, others),
         Drive(t, closing, d, others)
  PROVE  \/ /\ closing /\ ShouldClose(t) /\ transaction' = NoTransaction
            /\ draft' = NoDraft /\ dialog' = [open |-> FALSE, closing |-> FALSE]
            /\ request' = others
         \/ /\ transaction' = t /\ draft' = d /\ request' = others
            /\ dialog' = [dialog EXCEPT !.closing = closing]
         \/ /\ NextOperation(t) # "none" /\ draft' = d
            /\ transaction' = [t EXCEPT !.inFlight =
                 [operation |-> NextOperation(t), target |-> t.desired]]
            /\ dialog' = [dialog EXCEPT !.closing = closing]
            /\ \E c \in UnusedIn(others) :
                 request' = [others EXCEPT ![c] = Sent(t, NextOperation(t))]
  BY DEF Drive

SendingTo(t) == [t EXCEPT !.inFlight = [operation |-> NextOperation(t), target |-> t.desired]]

LEMMA SendingSound ==
  ASSUME NEW t, Sound(t), NextOperation(t) # "none"
  PROVE  LET q == SendingTo(t)
         IN /\ Sound(q) /\ q.inFlight.operation = NextOperation(t)
            /\ q.inFlight.target = t.desired /\ q.inFlight # Nothing /\ q.connected
            /\ q.desired = t.desired /\ q.confirmed = t.confirmed /\ q.revision = t.revision
            /\ q.cancelRequested = t.cancelRequested /\ q.baseline = t.baseline
<1> DEFINE sent == [operation |-> NextOperation(t), target |-> t.desired]
           q == [t EXCEPT !.inFlight = sent]
<1>1. t.connected /\ NextOperation(t) \in Fields /\ t.desired \in Configurations
  BY NextOperationOutcome, TransactionTypes DEF Sound
<1>2. /\ sent \in [operation : Fields, target : Configurations]
      /\ sent.operation = NextOperation(t) /\ sent.target = t.desired
  BY <1>1
<1>3. sent # Nothing
  BY <1>1, SettingsAssumption DEF Nothing
<1> HIDE DEF sent
<1>4. /\ q \in Transactions /\ q.inFlight = sent /\ q.connected
      /\ q.desired = t.desired /\ q.confirmed = t.confirmed /\ q.revision = t.revision
      /\ q.cancelRequested = t.cancelRequested /\ q.baseline = t.baseline
  BY <1>1, <1>2 DEF Sound, Transactions
<1> QED
  BY <1>2, <1>3, <1>4 DEF SendingTo, Sound, sent

WindowOK ==
  /\ Ready => Sound(transaction)
  /\ ~Ready => transaction = NoTransaction /\ draft = NoDraft
  /\ dialog \in [open : BOOLEAN, closing : BOOLEAN]
  /\ draft \in Drafts /\ request \in [Connections -> Requests]
  /\ Ready \/ dialog.closing => dialog.open

RestOK ==
  /\ reconciling \in BOOLEAN
  /\ known \in [connected : BOOLEAN, status : Status]
  /\ disk \in Configurations
  /\ daemon \in Status
  /\ subscription \in [state : {"on", "ending", "off"}, events : Seq(Status)]
  /\ abandoned \in Values \cup {NoValue}
  /\ restored \in BOOLEAN /\ undisturbed \in BOOLEAN
  /\ left \in Bounds

LEMMA TypesInParts == SettingsTypeOK <=> WindowOK /\ RestOK
<1>1. NoTransaction \notin Transactions
  BY DEF NoTransaction, Transactions
<1> QED
  BY <1>1 DEF SettingsTypeOK, WindowOK, RestOK, Ready, Sound

LEMMA DriveKeepsWindow ==
  ASSUME WindowOK, NEW t, NEW closing, NEW d, NEW others, Driven(t, closing, d, others),
         Drive(t, closing, d, others)
  PROVE  WindowOK'
<1>1. CASE /\ transaction' = NoTransaction /\ draft' = NoDraft
           /\ dialog' = [open |-> FALSE, closing |-> FALSE] /\ request' = others
  BY <1>1 DEF WindowOK, Driven, Ready, Drafts
<1>2. ASSUME dialog' = [dialog EXCEPT !.closing = closing]
      PROVE  dialog' \in [open : BOOLEAN, closing : BOOLEAN] /\ dialog'.open
  BY <1>2 DEF WindowOK, Driven
<1>3. CASE /\ transaction' = t /\ draft' = d /\ request' = others
           /\ dialog' = [dialog EXCEPT !.closing = closing]
  BY <1>2, <1>3, TransactionTypes DEF WindowOK, Driven, Ready, Sound
<1>4. CASE /\ NextOperation(t) # "none" /\ draft' = d /\ transaction' = SendingTo(t)
           /\ dialog' = [dialog EXCEPT !.closing = closing]
           /\ \E c \in UnusedIn(others) :
                 request' = [others EXCEPT ![c] = Sent(t, NextOperation(t))]
  <2>1. Sound(transaction') /\ transaction' # NoTransaction
    BY <1>4, SendingSound, TransactionTypes DEF Driven, Sound
  <2>2. request' \in [Connections -> Requests]
    BY <1>4, SentIsRequest DEF Driven, UnusedIn
  <2> QED
    BY <1>2, <1>4, <2>1, <2>2 DEF WindowOK, Driven, Ready
<1> QED
  BY <1>1, <1>3, <1>4, DriveOutcome DEF SendingTo

\* What a step that drives the window starts from: the transaction with what the
\* step has changed, and the requests without the one that was answered.
Drives ==
  \E t, closing, d, others :
    /\ Driven(t, closing, d, others) /\ Drive(t, closing, d, others)
    /\ \A c \in Connections : \/ others[c] = request[c]
                              \/ others[c] = Unused /\ request[c].stage = "answered"
    /\ Ready => t.baseline = transaction.baseline
    /\ AbandonedInv /\ abandoned' # NoValue =>
         ~t.cancelRequested /\ t.desired["output"] # abandoned'
    /\ WindowInv /\ EventsInv /\ undisturbed' => Accurate(t, others)

\* The daemon does nothing meanwhile, and what was undisturbed stays so.
DaemonWaits ==
  /\ daemon' = daemon /\ (subscription' = subscription \/ TakeMessage)
  /\ undisturbed' => undisturbed
  /\ Ready /\ undisturbed => undisturbed'

\* The other steps neither send a request nor close the window.
Watches ==
  /\ Ready => Ready'
  /\ \A c \in Connections : request'[c].stage = "sent" => request[c].stage = "sent"

LEMMA SameStaysAccurate ==
  ASSUME NEW t, NEW q, NEW requests,
         q.confirmed = t.confirmed, q.revision = t.revision,
         q.inFlight = t.inFlight, q.connected = t.connected
  PROVE  Accurate(t, requests) => Accurate(q, requests)
  BY DEF Accurate, Confirmed, OnItsWay

-----------------------------------------------------------------------------
(* Every action keeps the types. *)

LEMMA SpendKeepsBounds ==
  ASSUME left \in Bounds, NEW bound \in DOMAIN left, Spend(bound)
  PROVE  left' \in Bounds
  BY DEF Spend, Bounds

LEMMA BoundNames ==
  ASSUME left \in Bounds
  PROVE  DOMAIN left = {"sessions", "edits", "foreign", "rejections", "losses", "restarts"}
  BY DEF Bounds

LEMMA ReadyIsDriven ==
  ASSUME WindowOK, Ready
  PROVE  /\ Driven(transaction, dialog.closing, draft, request)
         /\ Driven(transaction, TRUE, draft, request)
  BY DEF WindowOK, Driven

LEMMA DraftTypes ==
  ASSUME draft \in Drafts, draft.phase # "none"
  PROVE  /\ draft.choice \in Values /\ Reopened(draft) \in Drafts
         /\ \A v \in Values : [draft EXCEPT !.phase = "applying", !.choice = v] \in Drafts
<1>1. draft \in [phase : {"editing", "applying"}, before : Values, choice : Values,
                  revision : Nat]
  BY DEF Drafts, NoDraft
<1>2. [draft EXCEPT !.phase = "editing"] \in Drafts /\ draft.choice \in Values
  BY <1>1 DEF Drafts
<1>3. ASSUME NEW v \in Values
      PROVE  [draft EXCEPT !.phase = "applying", !.choice = v] \in Drafts
  BY <1>1 DEF Drafts
<1> QED
  BY <1>2, <1>3 DEF Reopened

LEMMA EditDrives ==
  ASSUME WindowOK, RestOK, NEW f \in Fields, NEW v \in Values, EditSetting(f, v)
  PROVE  Drives /\ RestOK' /\ DaemonWaits
<1> DEFINE t == Edited(transaction, [transaction.desired EXCEPT ![f] = v])
<1>1. Ready /\ Sound(transaction)
  BY DEF EditSetting, ControlsAreEditable, WindowOK
<1>2. [transaction.desired EXCEPT ![f] = v] \in Configurations
  BY <1>1, TransactionTypes DEF Sound, Configurations
<1>3. /\ Driven(t, dialog.closing, draft, request)
      /\ t.baseline = transaction.baseline /\ t.cancelRequested = transaction.cancelRequested
      /\ t.desired = [transaction.desired EXCEPT ![f] = v]
      /\ t.confirmed = transaction.confirmed /\ t.revision = transaction.revision
      /\ t.inFlight = transaction.inFlight /\ t.connected = transaction.connected
  BY <1>1, <1>2, ReadyIsDriven, EditedSound DEF Driven
<1>4. /\ Drive(t, dialog.closing, draft, request) /\ Spend("edits")
      /\ abandoned' = IF f = "output" THEN NoValue ELSE abandoned
      /\ restored' = FALSE /\ UNCHANGED <<reconciling, known, undisturbed, daemonVars>>
  BY DEF EditSetting
<1> HIDE DEF t
<1>5. AbandonedInv /\ abandoned' # NoValue =>
        ~t.cancelRequested /\ t.desired["output"] # abandoned'
  BY <1>1, <1>3, <1>4, TransactionTypes, FieldNames DEF AbandonedInv, Sound, Configurations
<1>6. WindowInv /\ EventsInv /\ undisturbed' => Accurate(t, request)
  BY <1>1, <1>3, <1>4, SameStaysAccurate DEF WindowInv
<1>7. Drives
  BY <1>3, <1>4, <1>5, <1>6 DEF Drives
<1>8. left' \in Bounds
  BY <1>4, SpendKeepsBounds, BoundNames DEF RestOK
<1> QED
  BY <1>4, <1>7, <1>8 DEF RestOK, daemonVars, DaemonWaits

LEMMA OpenDraftKeepsTypes ==
  ASSUME WindowOK, RestOK, OpenDraft \/ CloseDraft \/ ApplySettings
  PROVE  WindowOK' /\ RestOK'
<1>1. CASE OpenDraft
  <2>1. Ready /\ Sound(transaction)
    BY <1>1 DEF OpenDraft, ControlsAreEditable, WindowOK
  <2>2. draft' \in Drafts
    BY <1>1, <2>1, TransactionTypes, FieldNames DEF OpenDraft, Sound, Configurations, Drafts
  <2> QED
    BY <1>1, <2>1, <2>2 DEF OpenDraft, WindowOK, RestOK, Ready, daemonVars
<1>2. CASE CloseDraft
  BY <1>2 DEF CloseDraft, WindowOK, RestOK, Ready, Drafts, daemonVars
<1>3. CASE ApplySettings
  <2>1. Ready /\ Sound(transaction)
    BY <1>3 DEF ApplySettings, WindowOK
  <2>2. Sound(transaction') /\ transaction' # NoTransaction /\ disk' \in Configurations
    BY <1>3, <2>1, PersistedSound, TransactionTypes DEF ApplySettings, Sound
  <2> QED
    BY <1>3, <2>1, <2>2 DEF ApplySettings, WindowOK, RestOK, Ready
<1> QED
  BY <1>1, <1>2, <1>3

LEMMA ApplyDraftDrives ==
  ASSUME WindowOK, RestOK, NEW choice \in Values, ApplyDraft(choice)
  PROVE  Drives /\ RestOK' /\ DaemonWaits
<1> DEFINE t == Edited(transaction, [transaction.desired EXCEPT !["output"] = choice])
           d == [draft EXCEPT !.phase = "applying", !.choice = choice]
<1>1. Ready /\ Sound(transaction) /\ draft.phase = "editing"
  BY DEF ApplyDraft, ControlsAreEditable, WindowOK
<1>2. [transaction.desired EXCEPT !["output"] = choice] \in Configurations
  BY <1>1, TransactionTypes, FieldNames DEF Sound, Configurations
<1>3. d \in Drafts
  BY <1>1, DraftTypes DEF WindowOK
<1>4. /\ Driven(t, dialog.closing, d, request) /\ t.baseline = transaction.baseline
      /\ t.confirmed = transaction.confirmed /\ t.revision = transaction.revision
      /\ t.inFlight = transaction.inFlight /\ t.connected = transaction.connected
  BY <1>1, <1>2, <1>3, ReadyIsDriven, EditedSound DEF Driven
<1>5. /\ Drive(t, dialog.closing, d, request) /\ Spend("edits")
      /\ abandoned' = NoValue /\ restored' = FALSE
      /\ UNCHANGED <<reconciling, known, undisturbed, daemonVars>>
  BY DEF ApplyDraft
<1> HIDE DEF t, d
<1>6. WindowInv /\ EventsInv /\ undisturbed' => Accurate(t, request)
  BY <1>1, <1>4, <1>5, SameStaysAccurate DEF WindowInv
<1>7. Drives
  BY <1>4, <1>5, <1>6 DEF Drives
<1>8. left' \in Bounds
  BY <1>5, SpendKeepsBounds, BoundNames DEF RestOK
<1> QED
  BY <1>5, <1>7, <1>8 DEF RestOK, daemonVars, DaemonWaits

LEMMA PresentKeepsTypes ==
  ASSUME WindowOK, RestOK, PresentWindow
  PROVE  WindowOK' /\ RestOK'
<1>1. left' \in Bounds /\ undisturbed' \in BOOLEAN
  BY SpendKeepsBounds, BoundNames DEF PresentWindow, RestOK
<1>2. Ready' => Sound(transaction')
  <2> DEFINE connected == TRUE
             begun == BeginTransaction(known.status, connected)
  <2>1. connected \in BOOLEAN /\ known.status \in Status
    BY DEF RestOK
  <2> HIDE DEF connected
  <2>2. Sound(begun)
    BY <2>1, BeginSound
  <2>3. transaction' = begun \/ transaction' = transaction
    BY DEF PresentWindow, connected
  <2> HIDE DEF begun
  <2> QED
    BY <2>2, <2>3 DEF WindowOK, Ready
<1>3. /\ dialog' = [open |-> TRUE, closing |-> FALSE] /\ UNCHANGED <<draft, request>>
      /\ Ready => Ready'
  BY DEF PresentWindow, Ready
<1>4. WindowOK'
  BY <1>2, <1>3 DEF WindowOK, Ready
<1> QED
  BY <1>1, <1>4 DEF PresentWindow, RestOK, daemonVars

LEMMA DefaultsDrive ==
  ASSUME WindowOK, RestOK, RestoreDefaults
  PROVE  Drives /\ RestOK' /\ DaemonWaits
<1> DEFINE connected == FALSE
           status == [configuration |-> disk, revision |-> 0]
           t == IF Ready THEN transaction ELSE BeginTransaction(status, connected)
           q == WithDefaults(t)
<1>1. status \in Status /\ connected \in BOOLEAN
  BY DEF RestOK, Status
<1>2. /\ Drive(q, dialog.closing, draft, request) /\ dialog.open
      /\ Spend("edits") /\ abandoned' = NoValue /\ restored' = TRUE
      /\ undisturbed' = (undisturbed /\ Ready)
      /\ UNCHANGED <<reconciling, known, daemonVars>>
  BY DEF RestoreDefaults
<1> HIDE DEF connected, status
<1>3. Sound(t) /\ (Ready => t = transaction)
  BY <1>1, BeginSound DEF WindowOK
<1> HIDE DEF t
<1>4. /\ Driven(q, dialog.closing, draft, request) /\ q.baseline = t.baseline
      /\ q.confirmed = t.confirmed /\ q.revision = t.revision
      /\ q.inFlight = t.inFlight /\ q.connected = t.connected
  BY <1>2, <1>3, WithDefaultsSound DEF Driven, WindowOK
<1> HIDE DEF q
<1>5. WindowInv /\ EventsInv /\ undisturbed' => Accurate(q, request)
  BY <1>2, <1>3, <1>4, SameStaysAccurate DEF WindowInv
<1>6. Drives
  BY <1>2, <1>3, <1>4, <1>5 DEF Drives
<1>7. left' \in Bounds
  BY <1>2, SpendKeepsBounds, BoundNames DEF RestOK
<1> QED
  BY <1>2, <1>6, <1>7 DEF RestOK, daemonVars, DaemonWaits

LEMMA CancelDrives ==
  ASSUME WindowOK, RestOK, Ready, Cancel
  PROVE  Drives /\ RestOK' /\ DaemonWaits
<1> DEFINE closing == TRUE
           t == Canceled(transaction)
<1>1. Driven(transaction, closing, draft, request)
  BY ReadyIsDriven
<1>2. /\ closing \in BOOLEAN /\ Drive(t, closing, draft, request)
      /\ abandoned' = NoValue /\ restored' = FALSE
      /\ UNCHANGED <<reconciling, known, undisturbed, left, daemonVars>>
  BY DEF Cancel
<1> HIDE DEF closing
<1>3. /\ Driven(t, closing, draft, request) /\ t.baseline = transaction.baseline
      /\ t.confirmed = transaction.confirmed /\ t.revision = transaction.revision
      /\ t.inFlight = transaction.inFlight /\ t.connected = transaction.connected
  BY <1>1, CanceledSound DEF Driven
<1> HIDE DEF t
<1>4. WindowInv /\ EventsInv /\ undisturbed' => Accurate(t, request)
  BY <1>2, <1>3, SameStaysAccurate DEF WindowInv
<1>5. Drives
  BY <1>2, <1>3, <1>4 DEF Drives
<1> QED
  BY <1>2, <1>5 DEF RestOK, daemonVars, DaemonWaits

LEMMA CancelKeepsTypes ==
  ASSUME WindowOK, RestOK, ~Ready, Cancel
  PROVE  WindowOK' /\ RestOK'
<1>1. /\ dialog' = [open |-> FALSE, closing |-> FALSE]
      /\ UNCHANGED <<transaction, draft, request>>
  BY DEF Cancel
<1>2. WindowOK'
  BY <1>1 DEF WindowOK, Ready
<1>3. /\ UNCHANGED <<reconciling, known, undisturbed, left, disk, daemon, subscription>>
      /\ abandoned' = NoValue /\ restored' = FALSE
  BY DEF Cancel, daemonVars
<1> QED
  BY <1>2, <1>3 DEF RestOK

LEMMA MatchingIsConfirmed ==
  ASSUME NEW t, Sound(t), NEW reply, reply.status \in Status, t.inFlight # Nothing, reply.ok,
         Matches(t.inFlight.operation, reply.status.configuration, t.inFlight.target)
  PROVE  /\ Completed(t, reply).confirmed = reply.status.configuration
         /\ Completed(t, reply).revision = reply.status.revision
<1>1. Completed(t, reply) = CompletedUnverified(t, reply)
  BY DEF Completed
<1> QED
  BY <1>1, StatusTypes DEF CompletedUnverified, Sound, Transactions

\* A reply that is no success leaves what the window has confirmed.
LEMMA FailureConfirmsNothing ==
  ASSUME NEW t, Sound(t), NEW reply, ~reply.ok \/ Completed(t, reply).liveChangeFailed
  PROVE  /\ Completed(t, reply).confirmed = t.confirmed
         /\ Completed(t, reply).revision = t.revision
<1>1. CASE Completed(t, reply) = CompletedUnverified(t, reply) /\ reply.ok
  BY <1>1 DEF CompletedUnverified, Sound, Transactions
<1>2. CASE Completed(t, reply) = Failed(t)
  BY <1>2 DEF Failed, Sound, Transactions
<1> QED
  BY <1>1, <1>2 DEF Completed

LEMMA MatchingSucceeds ==
  ASSUME NEW t, Sound(t), NEW reply, t.inFlight # Nothing, reply.ok,
         Matches(t.inFlight.operation, reply.status.configuration, t.inFlight.target)
  PROVE  ~Completed(t, reply).liveChangeFailed
<1>1. Completed(t, reply) = CompletedUnverified(t, reply)
  BY DEF Completed
<1> QED
  BY <1>1 DEF CompletedUnverified, Sound, Transactions

LEMMA RequestTypes ==
  ASSUME NEW r \in Requests
  PROVE  /\ r.stage = "answered" => r.ok \in BOOLEAN /\ r.status \in Status
         /\ r.stage = "sent" => /\ r.operation \in Fields /\ r.target \in Configurations
                                /\ r.processing \in Values \cup {NoValue}
         /\ r = Lost => r.stage = "lost"
         /\ r = Unused => r.stage = "unused"
  BY DEF Requests, Unused, Lost

LEMMA ConnectionLostKeepsTypes ==
  ASSUME WindowOK, RestOK, Ready, LoseConnection, UNCHANGED dialog,
         request' \in [Connections -> Requests]
  PROVE  /\ WindowOK' /\ known' \in [connected : BOOLEAN, status : Status]
         /\ reconciling' \in BOOLEAN /\ abandoned' \in Values \cup {NoValue}
<1> DEFINE t == IF Applying THEN GivenUp(transaction) ELSE transaction
<1>1. Sound(t)
  BY GivenUpSound DEF WindowOK
<1>2. transaction' = Disconnected(t)
  BY DEF LoseConnection
<1> HIDE DEF t
<1>3. Sound(transaction') /\ Ready'
  BY <1>1, <1>2, DisconnectedSound, TransactionTypes DEF Sound, Ready
<1>4. draft' \in Drafts /\ abandoned' \in Values \cup {NoValue}
  BY DraftTypes DEF LoseConnection, WindowOK, RestOK, Applying, Abandon
<1>5. known' \in [connected : BOOLEAN, status : Status] /\ reconciling' \in BOOLEAN
  BY DEF LoseConnection, RestOK, Applying
<1> QED
  BY <1>3, <1>4, <1>5 DEF WindowOK

LEMMA UnusedKeepsRequests ==
  ASSUME request \in [Connections -> Requests], NEW c \in Connections
  PROVE  [request EXCEPT ![c] = Unused] \in [Connections -> Requests]
  BY DEF Requests

LEMMA IgnoredKeepsTypes ==
  ASSUME WindowOK, RestOK, NEW c \in Connections, ReplyIsIgnored(c) \/ ReplyIsLost(c)
  PROVE  WindowOK' /\ RestOK'
<1>1. [request EXCEPT ![c] = Unused] \in [Connections -> Requests]
  BY UnusedKeepsRequests DEF WindowOK
<1>2. CASE ReplyIsIgnored(c)
  BY <1>1, <1>2 DEF ReplyIsIgnored, WindowOK, RestOK, Ready, daemonVars
<1>3. CASE ReplyIsLost(c)
  <2>1. /\ Ready /\ LoseConnection /\ UNCHANGED dialog
        /\ request' = [request EXCEPT ![c] = Unused]
    BY <1>3 DEF ReplyIsLost
  <2>2. /\ WindowOK' /\ known' \in [connected : BOOLEAN, status : Status]
        /\ reconciling' \in BOOLEAN /\ abandoned' \in Values \cup {NoValue}
    BY <1>1, <2>1, ConnectionLostKeepsTypes
  <2> QED
    BY <1>3, <2>2 DEF ReplyIsLost, RestOK, daemonVars
<1> QED
  BY <1>2, <1>3

LEMMA AnswerTypes ==
  ASSUME WindowOK, RestOK, NEW c \in Connections, Ready, request[c].stage = "answered"
  PROVE  /\ Sound(Completed(transaction, request[c]))
         /\ request[c].ok \in BOOLEAN /\ request[c].status \in Status
<1>1. request[c].ok \in BOOLEAN /\ request[c].status \in Status
  BY RequestTypes DEF WindowOK
<1> QED
  BY <1>1, CompletedSound DEF WindowOK

\* The window waits for the answer to its one request.
LEMMA AnswerIsAwaited ==
  ASSUME WindowOK, Accurate(transaction, request), NEW c \in Connections,
         request[c] # Unused
  PROVE  /\ transaction.inFlight # Nothing /\ OnItsWay(transaction, request[c])
         /\ \A d \in Connections \ {c} : request[d] = Unused
  BY DEF Accurate, NoRequest

LEMMA SuccessDrives ==
  ASSUME WindowOK, RestOK, NEW c \in Connections, ReplySucceeds(c)
  PROVE  Drives /\ RestOK' /\ DaemonWaits
<1> DEFINE t == Completed(transaction, request[c])
           d == IF Applying /\ transaction.inFlight.operation = "output"
                THEN NoDraft ELSE draft
           others == [request EXCEPT ![c] = Unused]
<1>1. /\ Ready /\ request[c].stage = "answered"
      /\ Drive(t, dialog.closing, d, others) /\ ForgetDraft(t)
      /\ LearnFrom(request[c].status) /\ request[c].ok
      /\ UNCHANGED <<reconciling, restored, undisturbed, left, daemonVars>>
  BY DEF ReplySucceeds
<1>2. request[c].ok \in BOOLEAN /\ request[c].status \in Status /\ Sound(transaction)
  BY <1>1, AnswerTypes DEF WindowOK
<1>3. /\ Sound(t) /\ t.desired = transaction.desired /\ t.baseline = transaction.baseline
      /\ t.cancelRequested = transaction.cancelRequested
      /\ t.connected = transaction.connected /\ t.inFlight = Nothing
  BY <1>2, CompletedSound
<1>4. /\ d \in Drafts /\ others \in [Connections -> Requests] /\ others[c] = Unused
      /\ \A e \in Connections \ {c} : others[e] = request[e]
  BY UnusedKeepsRequests DEF WindowOK, Drafts
<1> HIDE DEF d, others
<1>5. Driven(t, dialog.closing, d, others)
  BY <1>1, <1>3, <1>4 DEF Driven, WindowOK
<1>6. AbandonedInv /\ abandoned' # NoValue =>
        ~t.cancelRequested /\ t.desired["output"] # abandoned'
  BY <1>1, <1>3 DEF AbandonedInv, ForgetDraft
<1>7. WindowInv /\ EventsInv /\ undisturbed' => Accurate(t, others)
  <2> SUFFICES ASSUME WindowInv, undisturbed PROVE Accurate(t, others)
    BY <1>1
  <2>1. Accurate(transaction, request) /\ request[c] # Unused
    BY <1>1 DEF WindowInv, Unused
  <2>2. /\ transaction.inFlight # Nothing /\ OnItsWay(transaction, request[c])
        /\ \A e \in Connections \ {c} : request[e] = Unused
    BY <2>1, AnswerIsAwaited
  <2>3. /\ request[c].status = daemon
        /\ Matches(transaction.inFlight.operation, request[c].status.configuration,
                   transaction.inFlight.target)
    BY <1>1, <2>2 DEF OnItsWay
  <2>4. /\ t.confirmed = request[c].status.configuration
        /\ t.revision = request[c].status.revision
    BY <1>1, <1>2, <2>2, <2>3, MatchingIsConfirmed
  <2> HIDE DEF t
  <2>5. Confirmed(t)
    BY <2>3, <2>4 DEF Confirmed
  <2>6. NoRequest(others)
    BY <1>4, <2>2 DEF NoRequest
  <2> QED
    BY <1>3, <2>1, <2>5, <2>6 DEF Accurate
<1> HIDE DEF t
<1>8. Drives
  BY <1>1, <1>3, <1>4, <1>5, <1>6, <1>7 DEF Drives
<1> QED
  BY <1>1, <1>2, <1>8 DEF ForgetDraft, LearnFrom, RestOK, daemonVars, DaemonWaits

LEMMA FailureKeepsTypes ==
  ASSUME WindowOK, RestOK, NEW c \in Connections, ReplyFails(c)
  PROVE  WindowOK' /\ RestOK'
<1> DEFINE t == Completed(transaction, request[c])
           ends == Applying /\ transaction.inFlight.operation = "output"
<1>1. /\ Ready /\ request[c].stage = "answered"
      /\ transaction' = (IF ends THEN GivenUp(t) ELSE t)
      /\ draft' = (IF ends THEN Reopened(draft) ELSE draft)
      /\ abandoned' = (IF ends THEN Abandon ELSE abandoned)
      /\ request' = [request EXCEPT ![c] = Unused]
      /\ LearnFrom(IF request[c].ok THEN request[c].status ELSE known.status)
      /\ UNCHANGED <<dialog, reconciling, restored, undisturbed, left, daemonVars>>
  BY DEF ReplyFails
<1>2. Sound(t) /\ request[c].status \in Status /\ known.status \in Status
  BY <1>1, AnswerTypes DEF RestOK
<1>3. ends => draft.phase # "none"
  BY DEF Applying
<1> HIDE DEF t
<1>4. Sound(transaction') /\ Ready'
  BY <1>1, <1>2, GivenUpSound, TransactionTypes DEF Sound, Ready
<1>5. draft' \in Drafts /\ abandoned' \in Values \cup {NoValue}
  BY <1>1, <1>3, DraftTypes DEF WindowOK, RestOK, Abandon
<1>6. request' \in [Connections -> Requests]
  BY <1>1, UnusedKeepsRequests DEF WindowOK
<1>7. WindowOK'
  BY <1>1, <1>4, <1>5, <1>6 DEF WindowOK
<1> QED
  BY <1>1, <1>2, <1>5, <1>7 DEF LearnFrom, RestOK, daemonVars

LEMMA HeadIsStatus ==
  ASSUME RestOK, TakeMessage
  PROVE  /\ Head(subscription.events) \in Status
         /\ subscription' \in [state : {"on", "ending", "off"}, events : Seq(Status)]
         /\ known' \in [connected : BOOLEAN, status : Status]
         /\ subscription'.state = subscription.state
<1>1. subscription.events \in Seq(Status) /\ subscription.events # <<>>
  BY DEF TakeMessage, RestOK
<1>2. Head(subscription.events) \in Status /\ Tail(subscription.events) \in Seq(Status)
  BY <1>1
<1> QED
  BY <1>2 DEF TakeMessage, LearnFrom, RestOK

LEMMA MessageTypes ==
  ASSUME WindowOK, RestOK, TakeMessage, undisturbed' \in BOOLEAN, reconciling' \in BOOLEAN,
         abandoned' \in {abandoned, NoValue}
  PROVE  RestOK' /\ daemon' = daemon
  BY HeadIsStatus DEF RestOK, TakeMessage

LEMMA BeginDrives ==
  ASSUME WindowOK, RestOK, MessageBegins
  PROVE  Drives /\ RestOK' /\ DaemonWaits
<1> DEFINE connected == TRUE
           status == Head(subscription.events)
           t == BeginTransaction(status, connected)
<1>1. /\ TakeMessage /\ Drive(t, dialog.closing, draft, request) /\ dialog.open /\ ~Ready
      /\ undisturbed' = (undisturbed /\ status = daemon)
      /\ UNCHANGED <<reconciling, abandoned>>
  BY DEF MessageBegins
<1>2. connected \in BOOLEAN /\ connected
  OBVIOUS
<1>3. status \in Status
  BY <1>1, HeadIsStatus
<1> HIDE DEF connected, status
<1>4. /\ Sound(t) /\ t.inFlight = Nothing /\ t.connected
      /\ t.confirmed = status.configuration /\ t.revision = status.revision
  BY <1>2, <1>3, BeginSound
<1> HIDE DEF t
<1>5. Driven(t, dialog.closing, draft, request)
  BY <1>1, <1>4 DEF Driven, WindowOK
<1>6. WindowInv /\ EventsInv /\ undisturbed' => Accurate(t, request)
  BY <1>1, <1>4 DEF WindowInv, Accurate, Confirmed
<1>7. AbandonedInv => abandoned' = NoValue
  BY <1>1 DEF AbandonedInv
<1>8. Drives
  BY <1>1, <1>5, <1>6, <1>7 DEF Drives
<1> QED
  BY <1>1, <1>8, MessageTypes DEF RestOK, DaemonWaits

LEMMA ReconnectionDrives ==
  ASSUME WindowOK, RestOK, MessageReconnects
  PROVE  Drives /\ RestOK' /\ DaemonWaits
<1> DEFINE status == Head(subscription.events)
           r == Reconnected(transaction, status)
           t == Reconciled(r)
<1>1. /\ TakeMessage /\ Ready /\ ~transaction.connected
      /\ Drive(t, dialog.closing, draft, request) /\ ForgetDraft(t)
      /\ reconciling' = FALSE /\ UNCHANGED undisturbed
  BY DEF MessageReconnects
<1>2. status \in Status
  BY <1>1, HeadIsStatus
<1> HIDE DEF status
<1>3. /\ Sound(r) /\ r.desired = transaction.desired /\ r.baseline = transaction.baseline
      /\ r.cancelRequested = transaction.cancelRequested
  BY <1>1, <1>2, ReconnectedSound DEF WindowOK
<1> HIDE DEF r
<1>4. /\ Sound(t) /\ t.baseline = transaction.baseline
      /\ t.cancelRequested = transaction.cancelRequested
      /\ \/ t.desired = transaction.desired
         \/ t.desired["output"] = t.confirmed["output"]
  BY <1>3, GivenUpSound DEF Reconciled
<1> HIDE DEF t
<1>5. Driven(t, dialog.closing, draft, request)
  BY <1>1, <1>4, ReadyIsDriven DEF Driven
<1>6. AbandonedInv /\ abandoned' # NoValue =>
        ~t.cancelRequested /\ t.desired["output"] # abandoned'
  BY <1>1, <1>4 DEF AbandonedInv, ForgetDraft
<1>7. WindowInv => ~undisturbed'
  BY <1>1 DEF WindowInv, Accurate
<1>8. Drives
  BY <1>1, <1>4, <1>5, <1>6, <1>7 DEF Drives
<1> QED
  BY <1>1, <1>8, MessageTypes DEF RestOK, ForgetDraft, DaemonWaits

LEMMA ObservationDrives ==
  ASSUME WindowOK, RestOK, MessageIsObserved
  PROVE  Drives /\ RestOK' /\ DaemonWaits
<1> DEFINE status == Head(subscription.events)
           t == Observed(transaction, status)
<1>1. /\ TakeMessage /\ Ready /\ Drive(t, dialog.closing, draft, request) /\ ForgetDraft(t)
      /\ UNCHANGED <<reconciling, undisturbed>>
  BY DEF MessageIsObserved
<1>2. status \in Status /\ Sound(transaction)
  BY <1>1, HeadIsStatus DEF WindowOK
<1>3. EventsInv /\ undisturbed => Recent(status)
  <2>1. subscription.events \in Seq(Status) /\ subscription.events # <<>>
    BY <1>1 DEF TakeMessage, RestOK
  <2>2. 1 \in 1 .. Len(subscription.events) /\ status = subscription.events[1]
    BY <2>1
  <2> QED
    BY <2>2 DEF EventsInv
<1> HIDE DEF status
<1>4. /\ Sound(t) /\ t.desired = transaction.desired /\ t.inFlight = transaction.inFlight
      /\ t.connected = transaction.connected /\ t.baseline = transaction.baseline
      /\ t.cancelRequested = transaction.cancelRequested
      /\ \/ transaction.inFlight # Nothing /\ t = transaction
         \/ status.revision < transaction.revision /\ t = transaction
         \/ /\ transaction.inFlight = Nothing /\ status.revision >= transaction.revision
            /\ t.revision = status.revision /\ t.confirmed = status.configuration
  BY <1>2, ObservedSound
<1> HIDE DEF t
<1>5. Driven(t, dialog.closing, draft, request)
  BY <1>1, <1>4, ReadyIsDriven DEF Driven
<1>6. AbandonedInv /\ abandoned' # NoValue =>
        ~t.cancelRequested /\ t.desired["output"] # abandoned'
  BY <1>1, <1>4 DEF AbandonedInv, ForgetDraft
<1>7. WindowInv /\ EventsInv /\ undisturbed' => Accurate(t, request)
  <2> SUFFICES ASSUME WindowInv, EventsInv, undisturbed PROVE Accurate(t, request)
    BY <1>1
  <2>1. Accurate(transaction, request) /\ Recent(status)
    BY <1>1, <1>3 DEF WindowInv
  <2>2. CASE t = transaction
    BY <2>1, <2>2
  <2>3. CASE /\ transaction.inFlight = Nothing /\ status.revision >= transaction.revision
             /\ t.revision = status.revision /\ t.confirmed = status.configuration
    <3>1. transaction.revision = daemon.revision /\ NoRequest(request)
      BY <2>1, <2>3 DEF Accurate, Confirmed
    <3>2. status.revision \in Nat /\ daemon.revision \in Nat
      BY <1>2, StatusTypes DEF RestOK
    <3>3. status = daemon
      BY <2>1, <2>3, <3>1, <3>2 DEF Recent
    <3>4. Confirmed(t)
      BY <2>3, <3>3 DEF Confirmed
    <3>5. t.connected /\ t.inFlight = Nothing
      BY <1>4, <2>1, <2>3 DEF Accurate
    <3> QED
      BY <3>1, <3>4, <3>5 DEF Accurate
  <2> QED
    BY <1>4, <2>2, <2>3
<1>8. Drives
  BY <1>1, <1>4, <1>5, <1>6, <1>7 DEF Drives
<1> QED
  BY <1>1, <1>8, MessageTypes DEF RestOK, ForgetDraft, DaemonWaits

LEMMA MessageKeepsTypes ==
  ASSUME WindowOK, RestOK, MessageWithoutWindow
  PROVE  WindowOK' /\ RestOK'
<1>1. /\ TakeMessage
      /\ UNCHANGED <<transaction, dialog, draft, reconciling, request, abandoned, undisturbed>>
  BY DEF MessageWithoutWindow
<1> QED
  BY <1>1, MessageTypes DEF WindowOK, RestOK, Ready

LEMMA DaemonKeepsTypes ==
  ASSUME WindowOK, RestOK,
         \/ SubscriptionEnds \/ Reconnect \/ Publish \/ DropSubscription \/ Restart
         \/ \E c \in Connections : Execute(c) \/ Reject(c) \/ Refuse(c)
         \/ \E f \in Fields, v \in Values : ForeignChange(f, v)
  PROVE  WindowOK' /\ RestOK'
<1> USE DEF daemonVars, windowVars
<1>1. CASE SubscriptionEnds
  <2>1. subscription' \in [state : {"on", "ending", "off"}, events : Seq(Status)]
    BY <1>1 DEF SubscriptionEnds, RestOK
  <2>2. CASE Ready
    <3>1. /\ WindowOK' /\ known' \in [connected : BOOLEAN, status : Status]
          /\ reconciling' \in BOOLEAN /\ abandoned' \in Values \cup {NoValue}
      BY <1>1, <2>2, ConnectionLostKeepsTypes DEF SubscriptionEnds, WindowOK
    <3> QED
      BY <1>1, <2>1, <3>1 DEF SubscriptionEnds, RestOK
  <2>3. CASE ~Ready
    <3>1. /\ known' = [known EXCEPT !.connected = FALSE]
          /\ UNCHANGED <<transaction, draft, reconciling, abandoned, dialog, disk, daemon,
                         request, restored, undisturbed, left>>
      BY <1>1, <2>3 DEF SubscriptionEnds
    <3> QED
      BY <2>1, <3>1 DEF WindowOK, RestOK, Ready
  <2> QED
    BY <2>2, <2>3
<1>2. CASE Reconnect
  <2>1. subscription' \in [state : {"on", "ending", "off"}, events : Seq(Status)]
    BY <1>2 DEF Reconnect, RestOK
  <2> QED
    BY <1>2, <2>1 DEF Reconnect, WindowOK, RestOK, Ready
<1>3. CASE Publish
  <2> DEFINE events == subscription.events
             longer == IF Len(events) < MaxEvents THEN Append(events, daemon)
                       ELSE [events EXCEPT ![Len(events)] = daemon]
  <2>1. events \in Seq(Status) /\ daemon \in Status /\ Len(events) \in Nat
    BY DEF RestOK
  <2>2. longer \in Seq(Status)
    <3>1. CASE Len(events) < MaxEvents
      BY <2>1, <3>1
    <3>2. CASE ~(Len(events) < MaxEvents)
      <4> DEFINE replaced == [events EXCEPT ![Len(events)] = daemon]
      <4>0. events \in [1 .. Len(events) -> Status]
        BY <2>1, SeqDef
      <4> HIDE DEF events
      <4>1. replaced \in [1 .. Len(events) -> Status]
        BY <2>1, <4>0
      <4> QED
        BY <2>1, <3>2, <4>1, SeqDef
    <3> QED
      BY <3>1, <3>2
  <2>3. subscription' = [subscription EXCEPT !.events = longer]
    BY <1>3 DEF Publish, RestOK
  <2> HIDE DEF longer, events
  <2>4. subscription' \in [state : {"on", "ending", "off"}, events : Seq(Status)]
    BY <2>2, <2>3 DEF RestOK
  <2> QED
    BY <1>3, <2>4 DEF Publish, WindowOK, RestOK, Ready
<1>4. CASE DropSubscription
  <2>1. left' \in Bounds
    BY <1>4, SpendKeepsBounds, BoundNames DEF DropSubscription, RestOK
  <2> QED
    BY <1>4, <2>1 DEF DropSubscription, WindowOK, RestOK, Ready
<1>5. CASE Restart
  <2>1. left' \in Bounds
    BY <1>5, SpendKeepsBounds, BoundNames DEF Restart, RestOK
  <2>2. daemon' \in Status
    BY <1>5 DEF Restart, RestOK, Status
  <2>3. request' \in [Connections -> Requests]
    BY <1>5 DEF Restart, WindowOK, Requests
  <2> QED
    BY <1>5, <2>1, <2>2, <2>3 DEF Restart, WindowOK, RestOK, Ready
<1>6. ASSUME NEW c \in Connections, Execute(c) PROVE WindowOK' /\ RestOK'
  <2> DEFINE r == request[c]
             configuration == Changed(r)
  <2> DEFINE changes == \/ configuration # daemon.configuration
                        \/ r.operation = "processing" \/ r.processing # NoValue
             revision == daemon.revision + (IF changes THEN 1 ELSE 0)
             after == [configuration |-> configuration, revision |-> revision]
  <2>1. /\ daemon' = after /\ revision \in Nat
        /\ request' = [request EXCEPT ![c] =
                         [stage |-> "answered", ok |-> TRUE, status |-> after]]
    <3>1. revision \in Nat
      BY DEF RestOK, Status
    <3> QED
      BY <1>6, <3>1, Zenon DEF Execute, Answer
  <2>2. /\ r.stage = "sent" /\ UNCHANGED <<windowVars, disk, subscription, undisturbed, left>>
    BY <1>6 DEF Execute
  <2>3. /\ r.operation \in Fields /\ r.target \in Configurations
        /\ r.processing \in Values \cup {NoValue}
    BY <2>2, RequestTypes DEF WindowOK
  <2>4. configuration \in Configurations
    BY <2>3, FieldNames, StatusTypes DEF Changed, Configurations, RestOK
  <2> HIDE DEF configuration, changes, revision
  <2>5. daemon' \in Status /\ request' \in [Connections -> Requests]
    BY <2>1, <2>4 DEF Status, WindowOK, Requests
  <2> QED
    BY <2>2, <2>5 DEF WindowOK, RestOK, Ready
<1>7. ASSUME NEW c \in Connections, Reject(c) PROVE WindowOK' /\ RestOK'
  <2>1. left' \in Bounds
    BY <1>7, SpendKeepsBounds, BoundNames DEF Reject, RestOK
  <2>2. request' \in [Connections -> Requests]
    BY <1>7 DEF Reject, Answer, WindowOK, RestOK, Requests
  <2> QED
    BY <1>7, <2>1, <2>2 DEF Reject, WindowOK, RestOK, Ready
<1>8. ASSUME NEW c \in Connections, Refuse(c) PROVE WindowOK' /\ RestOK'
  <2>1. left' \in Bounds
    BY <1>8, SpendKeepsBounds, BoundNames DEF Refuse, RestOK
  <2>2. request' \in [Connections -> Requests]
    BY <1>8 DEF Refuse, WindowOK, Requests
  <2> QED
    BY <1>8, <2>1, <2>2 DEF Refuse, WindowOK, RestOK, Ready
<1>9. ASSUME NEW f \in Fields, NEW v \in Values, ForeignChange(f, v)
      PROVE  WindowOK' /\ RestOK'
  <2>1. left' \in Bounds
    BY <1>9, SpendKeepsBounds, BoundNames DEF ForeignChange, RestOK
  <2>2. daemon' \in Status
    BY <1>9 DEF ForeignChange, RestOK, Status, Configurations
  <2> QED
    BY <1>9, <2>1, <2>2 DEF ForeignChange, WindowOK, RestOK, Ready
<1> QED
  BY <1>1, <1>2, <1>3, <1>4, <1>5, <1>6, <1>7, <1>8, <1>9

LEMMA InitTypes == SettingsInit => SettingsTypeOK
<1> SUFFICES ASSUME SettingsInit PROVE SettingsTypeOK
  OBVIOUS
<1> DEFINE start == [f \in Fields |-> StartValue]
           connected == TRUE
<1>1. start \in Configurations
  BY SettingsAssumption DEF Configurations
<1>2. /\ transaction = NoTransaction /\ draft = NoDraft
      /\ dialog = [open |-> FALSE, closing |-> FALSE]
      /\ request = [c \in Connections |-> Unused]
  BY DEF SettingsInit
<1>3. /\ disk = start /\ daemon = [configuration |-> start, revision |-> 0]
      /\ known = [connected |-> connected, status |-> daemon]
      /\ subscription = [state |-> "on", events |-> <<>>]
      /\ reconciling = FALSE /\ abandoned = NoValue /\ restored = FALSE
      /\ undisturbed = connected /\ left \in Bounds
  BY SettingsAssumption DEF SettingsInit
<1>4. connected \in BOOLEAN
  OBVIOUS
<1> HIDE DEF start, connected
<1>5. daemon \in Status
  BY <1>1, <1>3 DEF Status
<1>6. WindowOK
  BY <1>2 DEF WindowOK, Ready, Drafts, Requests
<1>7. subscription \in [state : {"on", "ending", "off"}, events : Seq(Status)]
  BY <1>3
<1>8. known \in [connected : BOOLEAN, status : Status]
  BY <1>3, <1>4, <1>5
<1>9. RestOK
  BY <1>1, <1>3, <1>4, <1>5, <1>7, <1>8 DEF RestOK
<1> QED
  BY <1>6, <1>9, TypesInParts

-----------------------------------------------------------------------------
(* The steps that drive the window. *)

LEMMA DriveStep ==
  ASSUME NEW t, NEW closing, NEW d, NEW others, Driven(t, closing, d, others),
         Drive(t, closing, d, others)
  PROVE  \/ ShouldClose(t) /\ ~Ready' /\ request' = others
         \/ Ready' /\ transaction' = t /\ request' = others
         \/ /\ Ready' /\ NextOperation(t) # "none" /\ transaction' = SendingTo(t)
            /\ \E c \in UnusedIn(others) :
                 request' = [others EXCEPT ![c] = Sent(t, NextOperation(t))]
<1>1. t # NoTransaction
  BY TransactionTypes DEF Driven, Sound
<1>2. NextOperation(t) # "none" => SendingTo(t) # NoTransaction
  BY SendingSound, TransactionTypes DEF Driven, Sound
<1> QED
  BY <1>1, <1>2, DriveOutcome DEF Ready, SendingTo

LEMMA DrivesKeepWindow ==
  ASSUME WindowOK, Drives
  PROVE  WindowOK'
  BY DriveKeepsWindow DEF Drives

LEMMA DrivesKeepAbandoned ==
  ASSUME WindowOK, AbandonedInv, Drives
  PROVE  AbandonedInv'
<1>1. PICK t, closing, d, others :
        /\ Driven(t, closing, d, others) /\ Drive(t, closing, d, others)
        /\ abandoned' # NoValue => ~t.cancelRequested /\ t.desired["output"] # abandoned'
  BY DEF Drives
<1>2. NextOperation(t) # "none" =>
        /\ SendingTo(t).desired = t.desired
        /\ SendingTo(t).cancelRequested = t.cancelRequested
  BY <1>1, SendingSound DEF Driven
<1>3. ShouldClose(t) => t.cancelRequested
  BY DEF ShouldClose
<1> QED
  BY <1>1, <1>2, <1>3, DriveStep DEF AbandonedInv

\* What is sent is what the user selected, and nothing else was on its way.
LEMMA SendingIsAccurate ==
  ASSUME NEW t, Sound(t), NextOperation(t) # "none",
         NEW others \in [Connections -> Requests], Accurate(t, others),
         NEW c \in Connections
  PROVE  Accurate(SendingTo(t), [others EXCEPT ![c] = Sent(t, NextOperation(t))])
<1> DEFINE q == SendingTo(t)
           r == Sent(t, NextOperation(t))
           requests == [others EXCEPT ![c] = r]
<1>1. /\ q.inFlight.operation = NextOperation(t) /\ q.inFlight.target = t.desired
      /\ q.inFlight # Nothing /\ q.connected
      /\ q.confirmed = t.confirmed /\ q.revision = t.revision
  BY SendingSound
<1>2. /\ r.stage = "sent" /\ r.operation = NextOperation(t) /\ r.target = t.desired
  BY SentIsRequest
<1>3. NoRequest(others) /\ Confirmed(t)
  BY NextOperationOutcome DEF Accurate
<1>4. r.operation = "output" =>
        IF r.processing = NoValue
        THEN r.target["processing"] = daemon.configuration["processing"]
        ELSE r.processing = r.target["processing"]
  <2>1. t.desired["processing"] \in Values /\ NoValue \notin Values
    BY TransactionTypes, FieldNames, SettingsAssumption DEF Sound, Configurations
  <2>2. r.operation = "output" =>
          r.processing = IF t.desired["processing"] # t.confirmed["processing"]
                         THEN t.desired["processing"] ELSE NoValue
    BY <1>2 DEF Sent
  <2> QED
    BY <1>2, <1>3, <2>1, <2>2 DEF Confirmed
<1> HIDE DEF q, r
<1>5. OnItsWay(q, r)
  BY <1>1, <1>2, <1>3, <1>4 DEF OnItsWay, Confirmed
<1>6. requests[c] = r /\ \A e \in Connections \ {c} : requests[e] = Unused
  BY <1>3 DEF NoRequest
<1> HIDE DEF requests
<1>7. Accurate(q, requests)
  BY <1>1, <1>5, <1>6 DEF Accurate
<1> QED
  BY <1>7 DEF q, r, requests

LEMMA AccurateWhileDaemonWaits ==
  ASSUME daemon' = daemon, Accurate(transaction', request')
  PROVE  Accurate(transaction, request)'
  BY DEF Accurate, NoRequest, Confirmed, OnItsWay

LEMMA DrivesKeepAccurate ==
  ASSUME WindowOK, WindowInv, EventsInv, Drives, DaemonWaits
  PROVE  WindowInv'
<1> SUFFICES ASSUME undisturbed'
             PROVE  IF Ready' THEN Accurate(transaction, request)' ELSE NoRequest(request')
  BY DEF WindowInv, NoRequest
<1>1. PICK t, closing, d, others :
        /\ Driven(t, closing, d, others) /\ Drive(t, closing, d, others)
        /\ Accurate(t, others)
  BY DEF Drives
<1>2. CASE ShouldClose(t) /\ ~Ready' /\ request' = others
  BY <1>1, <1>2 DEF ShouldClose, Accurate
<1>3. CASE Ready' /\ transaction' = t /\ request' = others
  BY <1>1, <1>3, AccurateWhileDaemonWaits DEF DaemonWaits
<1>4. ASSUME Ready', NextOperation(t) # "none", transaction' = SendingTo(t),
             NEW c \in UnusedIn(others),
             request' = [others EXCEPT ![c] = Sent(t, NextOperation(t))]
      PROVE  Accurate(transaction, request)'
  <2>1. Accurate(transaction', request')
    BY <1>1, <1>4, SendingIsAccurate DEF Driven, UnusedIn
  <2> QED
    BY <2>1, AccurateWhileDaemonWaits DEF DaemonWaits
<1> QED
  BY <1>1, <1>2, <1>3, <1>4, DriveStep

\* What the two action properties say of a step.
CloseStep ==
  Ready /\ ~Ready' /\ undisturbed =>
    /\ daemon.configuration = transaction.baseline
    /\ \A c \in Connections : request[c].stage # "sent"

DraftStep ==
  \A c \in Connections :
    /\ request[c].stage # "sent" /\ request'[c].stage = "sent"
    /\ request'[c].operation = "output"
    => request'[c].target["output"] # abandoned'

LEMMA DrivesCloseAfterRollback ==
  ASSUME WindowOK, WindowInv, EventsInv, Drives, DaemonWaits
  PROVE  CloseStep
<1> SUFFICES ASSUME Ready, ~Ready', undisturbed
             PROVE  /\ daemon.configuration = transaction.baseline
                    /\ \A c \in Connections : request[c].stage # "sent"
  BY DEF CloseStep
<1>1. PICK t, closing, d, others :
        /\ Driven(t, closing, d, others) /\ Drive(t, closing, d, others)
        /\ \A c \in Connections : \/ others[c] = request[c]
                                  \/ others[c] = Unused /\ request[c].stage = "answered"
        /\ t.baseline = transaction.baseline /\ Accurate(t, others)
  BY DEF Drives, DaemonWaits
<1>2. ShouldClose(t) /\ NoRequest(others) /\ Confirmed(t)
  BY <1>1, DriveStep DEF ShouldClose, Accurate
<1> QED
  BY <1>1, <1>2 DEF ShouldClose, Confirmed, NoRequest, Unused

LEMMA DrivesSendNoDraft ==
  ASSUME WindowOK, AbandonedInv, Drives
  PROVE  DraftStep
<1> SUFFICES ASSUME NEW b \in Connections, request[b].stage # "sent",
                    request'[b].stage = "sent"
             PROVE  request'[b].target["output"] # abandoned'
  BY DEF DraftStep
<1>1. PICK t, closing, d, others :
        /\ Driven(t, closing, d, others) /\ Drive(t, closing, d, others)
        /\ \A c \in Connections : \/ others[c] = request[c]
                                  \/ others[c] = Unused /\ request[c].stage = "answered"
        /\ abandoned' # NoValue => t.desired["output"] # abandoned'
  BY DEF Drives
<1>2. others[b].stage # "sent"
  BY <1>1 DEF Unused
<1>3. PICK c \in UnusedIn(others) :
        /\ NextOperation(t) # "none"
        /\ request' = [others EXCEPT ![c] = Sent(t, NextOperation(t))]
  BY <1>1, <1>2, DriveStep
<1>4. b = c /\ request'[b].target = t.desired
  BY <1>1, <1>2, <1>3, SentIsRequest DEF Driven, UnusedIn
<1>5. t.desired["output"] # NoValue
  BY <1>1, TransactionTypes, FieldNames, SettingsAssumption DEF Driven, Sound, Configurations
<1> QED
  BY <1>1, <1>4, <1>5

-----------------------------------------------------------------------------
(* The steps that do not drive it. *)

LEMMA WatchesSatisfiesSteps ==
  Watches => CloseStep /\ DraftStep
  BY DEF Watches, CloseStep, DraftStep

\* All that the window has stays as it was.
WindowWaits ==
  /\ UNCHANGED <<transaction, abandoned>>
  /\ undisturbed' => undisturbed

LEMMA WaitingKeepsInvariants ==
  ASSUME WindowWaits
  PROVE  /\ AbandonedInv => AbandonedInv'
         /\ UNCHANGED <<request, daemon>> /\ WindowInv => WindowInv'
         /\ UNCHANGED request => Watches
<1> USE DEF WindowWaits
<1>1. AbandonedInv => AbandonedInv'
  BY DEF AbandonedInv, Ready
<1>2. UNCHANGED <<request, daemon>> /\ WindowInv => WindowInv'
  BY DEF WindowInv, Ready, Accurate, NoRequest, Confirmed, OnItsWay
<1>3. UNCHANGED request => Watches
  BY DEF Watches, Ready
<1> QED
  BY <1>1, <1>2, <1>3

LEMMA EventsStay ==
  ASSUME EventsInv, UNCHANGED <<subscription, daemon>>, undisturbed' => undisturbed
  PROVE  EventsInv'
  BY DEF EventsInv, Recent

LEMMA MessageKeepsEvents ==
  ASSUME RestOK, EventsInv, TakeMessage, undisturbed' => undisturbed
  PROVE  EventsInv'
<1> SUFFICES ASSUME undisturbed'
             PROVE  /\ subscription'.state = "on"
                    /\ \A i \in 1 .. Len(subscription'.events) :
                         Recent(subscription'.events[i])
  BY DEF EventsInv, Recent, TakeMessage
<1> DEFINE events == subscription.events
<1>1. events \in Seq(Status) /\ events # <<>> /\ subscription'.state = "on"
      /\ subscription'.events = Tail(events)
  BY DEF TakeMessage, RestOK, EventsInv
<1>2. \A i \in 1 .. Len(events) : Recent(events[i])
  BY DEF EventsInv
<1> HIDE DEF events
<1>3. /\ Len(events) \in Nat /\ Len(Tail(events)) = Len(events) - 1
      /\ \A i \in 1 .. Len(Tail(events)) : Tail(events)[i] = events[i + 1]
  BY <1>1
<1> QED
  BY <1>1, <1>2, <1>3

LEMMA DrivesKeepEvents ==
  ASSUME RestOK, EventsInv, DaemonWaits
  PROVE  EventsInv'
  BY EventsStay, MessageKeepsEvents DEF DaemonWaits

LEMMA PresentKeepsInvariants ==
  ASSUME WindowOK, RestOK, AbandonedInv, WindowInv, EventsInv, PresentWindow
  PROVE  Watches /\ AbandonedInv' /\ WindowInv' /\ EventsInv'
<1>1. EventsInv'
  BY EventsStay DEF PresentWindow, daemonVars
<1>2. CASE UNCHANGED transaction
  BY <1>1, <1>2, WaitingKeepsInvariants DEF WindowWaits, PresentWindow, daemonVars
<1>3. CASE ~(UNCHANGED transaction)
  <2> DEFINE connected == TRUE
             t == BeginTransaction(known.status, connected)
  <2>1. /\ ~Ready /\ transaction' = t /\ connected /\ connected \in BOOLEAN
        /\ undisturbed' => undisturbed /\ known.status = daemon
        /\ UNCHANGED <<request, daemon, abandoned>>
    BY <1>3 DEF PresentWindow, daemonVars
  <2> HIDE DEF connected
  <2>2. /\ Sound(t) /\ t.inFlight = Nothing /\ t.connected
        /\ t.confirmed = known.status.configuration /\ t.revision = known.status.revision
    BY <2>1, BeginSound DEF RestOK
  <2> HIDE DEF t
  <2>3. Ready' /\ Watches
    BY <2>1, <2>2, TransactionTypes DEF Sound, Ready, Watches
  <2>4. AbandonedInv'
    BY <2>1 DEF AbandonedInv
  <2>5. WindowInv'
    BY <2>1, <2>2, <2>3 DEF WindowInv, Accurate, NoRequest, Confirmed
  <2> QED
    BY <1>1, <2>3, <2>4, <2>5
<1> QED
  BY <1>2, <1>3

LEMMA OpenDraftKeepsInvariants ==
  ASSUME WindowOK, RestOK, AbandonedInv, WindowInv, EventsInv,
         OpenDraft \/ CloseDraft \/ ApplySettings
  PROVE  Watches /\ AbandonedInv' /\ WindowInv' /\ EventsInv'
<1>1. EventsInv'
  BY EventsStay DEF OpenDraft, CloseDraft, ApplySettings, daemonVars
<1>2. CASE OpenDraft \/ CloseDraft
  BY <1>1, <1>2, WaitingKeepsInvariants
     DEF WindowWaits, OpenDraft, CloseDraft, daemonVars
<1>3. CASE ApplySettings
  <2> DEFINE t == Persisted(transaction)
  <2>1. /\ Ready /\ transaction' = t /\ UNCHANGED <<request, daemon, abandoned, undisturbed>>
    BY <1>3 DEF ApplySettings
  <2>2. /\ Sound(t) /\ t.confirmed = transaction.confirmed
        /\ t.revision = transaction.revision
        /\ t.inFlight = transaction.inFlight /\ t.connected = transaction.connected
        /\ t.desired = transaction.desired
        /\ t.cancelRequested = transaction.cancelRequested
    BY <2>1, PersistedSound DEF WindowOK
  <2> HIDE DEF t
  <2>3. Ready' /\ Watches
    BY <2>1, <2>2, TransactionTypes DEF Sound, Ready, Watches
  <2>4. AbandonedInv'
    BY <2>1, <2>2, <2>3 DEF AbandonedInv
  <2>5. WindowInv'
    BY <2>1, <2>2, <2>3, SameStaysAccurate, AccurateWhileDaemonWaits DEF WindowInv
  <2> QED
    BY <1>1, <2>3, <2>4, <2>5
<1> QED
  BY <1>2, <1>3

LEMMA CancelKeepsInvariants ==
  ASSUME WindowOK, RestOK, AbandonedInv, WindowInv, EventsInv, ~Ready, Cancel
  PROVE  Watches /\ AbandonedInv' /\ WindowInv' /\ EventsInv'
<1>1. /\ abandoned' = NoValue
      /\ UNCHANGED <<transaction, request, daemon, subscription, undisturbed>>
  BY DEF Cancel, daemonVars
<1>2. WindowWaits
  BY <1>1 DEF WindowWaits, AbandonedInv
<1> QED
  BY <1>1, <1>2, EventsStay, WaitingKeepsInvariants

LEMMA ConnectionLostKeepsAbandoned ==
  ASSUME WindowOK, RestOK, AbandonedInv, Ready, LoseConnection
  PROVE  AbandonedInv' /\ Ready'
<1> DEFINE t == IF Applying THEN GivenUp(transaction) ELSE transaction
<1>1. /\ Sound(t) /\ t.cancelRequested = transaction.cancelRequested
      /\ ~Applying => t.desired = transaction.desired
      /\ Applying => t.desired["output"] = transaction.confirmed["output"]
  BY GivenUpSound DEF WindowOK
<1>2. transaction' = Disconnected(t)
  BY DEF LoseConnection
<1> HIDE DEF t
<1>3. /\ Sound(transaction') /\ Ready' /\ transaction'.desired = t.desired
      /\ transaction'.cancelRequested = t.cancelRequested
  BY <1>1, <1>2, DisconnectedSound, TransactionTypes DEF Sound, Ready
<1>4. CASE Applying
  BY <1>1, <1>3, <1>4 DEF LoseConnection, Abandon, AbandonedInv
<1>5. CASE ~Applying
  BY <1>1, <1>3, <1>5 DEF LoseConnection, AbandonedInv
<1> QED
  BY <1>3, <1>4, <1>5

LEMMA IgnoredKeepsInvariants ==
  ASSUME WindowOK, RestOK, AbandonedInv, WindowInv, EventsInv,
         NEW c \in Connections, ReplyIsIgnored(c) \/ ReplyIsLost(c)
  PROVE  Watches /\ AbandonedInv' /\ WindowInv' /\ EventsInv'
<1>1. /\ request' = [request EXCEPT ![c] = Unused]
      /\ UNCHANGED <<subscription, daemon, undisturbed>>
  BY DEF ReplyIsIgnored, ReplyIsLost, daemonVars
<1>2. EventsInv' /\ \A e \in Connections : request'[e].stage = "sent" => request[e].stage = "sent"
  BY <1>1, EventsStay DEF WindowOK, Unused
<1>3. ~undisturbed
  <2>1. CASE ReplyIsIgnored(c)
    BY <2>1 DEF ReplyIsIgnored, WindowInv, NoRequest, Unused, Lost
  <2>2. CASE ReplyIsLost(c)
    <3>1. Ready /\ request[c] = Lost /\ Lost # Unused /\ Lost.stage = "lost"
      BY <2>2 DEF ReplyIsLost, Lost, Unused
    <3>2. ~OnItsWay(transaction, request[c])
      BY <3>1 DEF OnItsWay
    <3> QED
      BY <3>1, <3>2, AnswerIsAwaited DEF WindowInv
  <2> QED
    BY <2>1, <2>2
<1>4. WindowInv'
  BY <1>1, <1>3 DEF WindowInv
<1>5. CASE ReplyIsIgnored(c)
  BY <1>2, <1>4, <1>5, WaitingKeepsInvariants
     DEF ReplyIsIgnored, WindowWaits, Watches, daemonVars
<1>6. CASE ReplyIsLost(c)
  BY <1>2, <1>4, <1>6, ConnectionLostKeepsAbandoned DEF ReplyIsLost, Watches
<1> QED
  BY <1>5, <1>6

LEMMA FailureKeepsInvariants ==
  ASSUME WindowOK, RestOK, AbandonedInv, WindowInv, EventsInv,
         NEW c \in Connections, ReplyFails(c)
  PROVE  Watches /\ AbandonedInv' /\ WindowInv' /\ EventsInv'
<1> DEFINE t == Completed(transaction, request[c])
           ends == Applying /\ transaction.inFlight.operation = "output"
<1>1. /\ Ready /\ request[c].stage = "answered"
      /\ ~request[c].ok \/ t.liveChangeFailed
      /\ transaction' = (IF ends THEN GivenUp(t) ELSE t)
      /\ abandoned' = (IF ends THEN Abandon ELSE abandoned)
      /\ request' = [request EXCEPT ![c] = Unused]
      /\ UNCHANGED <<subscription, daemon, undisturbed>>
  BY DEF ReplyFails, daemonVars
<1>2. Sound(transaction) /\ request[c].ok \in BOOLEAN /\ request[c].status \in Status
  BY <1>1, AnswerTypes DEF WindowOK
<1>3. /\ Sound(t) /\ t.desired = transaction.desired /\ t.inFlight = Nothing
      /\ t.cancelRequested = transaction.cancelRequested
      /\ t.connected = transaction.connected
  BY <1>2, CompletedSound
<1>4. t.confirmed = transaction.confirmed /\ t.revision = transaction.revision
  BY <1>1, <1>2, FailureConfirmsNothing
<1> HIDE DEF t
<1>5. /\ Sound(transaction') /\ transaction'.inFlight = Nothing
      /\ transaction'.confirmed = transaction.confirmed
      /\ transaction'.revision = transaction.revision
      /\ transaction'.connected = transaction.connected
      /\ transaction'.cancelRequested = transaction.cancelRequested
      /\ ~ends => transaction'.desired = transaction.desired
      /\ ends => transaction'.desired["output"] = transaction.confirmed["output"]
  BY <1>1, <1>3, <1>4, GivenUpSound
<1> HIDE DEF ends
<1>6. Ready'
  BY <1>5, TransactionTypes DEF Sound, Ready
<1>7. EventsInv' /\ Watches
  BY <1>1, <1>6, EventsStay DEF WindowOK, Unused, Watches
<1>8. AbandonedInv'
  BY <1>1, <1>5, <1>6 DEF Abandon, AbandonedInv
<1>9. WindowInv'
  <2> SUFFICES ASSUME undisturbed PROVE Accurate(transaction', request')
    BY <1>1, <1>6, AccurateWhileDaemonWaits DEF WindowInv
  <2>1. Accurate(transaction, request) /\ request[c] # Unused
    BY <1>1 DEF WindowInv, Unused
  <2>2. /\ transaction.inFlight # Nothing /\ OnItsWay(transaction, request[c])
        /\ \A e \in Connections \ {c} : request[e] = Unused
    BY <2>1, AnswerIsAwaited
  <2>3. ~(/\ request[c].ok /\ request[c].status = daemon
          /\ Matches(transaction.inFlight.operation, daemon.configuration,
                     transaction.inFlight.target))
    <3> SUFFICES ASSUME request[c].ok, request[c].status = daemon,
                        Matches(transaction.inFlight.operation, daemon.configuration,
                                transaction.inFlight.target)
                 PROVE  FALSE
      OBVIOUS
    <3>1. Matches(transaction.inFlight.operation, request[c].status.configuration,
                  transaction.inFlight.target)
      OBVIOUS
    <3>2. ~t.liveChangeFailed
      BY <1>2, <2>2, <3>1, MatchingSucceeds DEF t
    <3> QED
      BY <1>1, <3>2
  <2>4. Confirmed(transaction)
    BY <1>1, <2>2, <2>3 DEF OnItsWay
  <2>5. NoRequest(request')
    BY <1>1, <2>2 DEF NoRequest, WindowOK
  <2> QED
    BY <1>5, <2>1, <2>4, <2>5 DEF Accurate, Confirmed
<1> QED
  BY <1>7, <1>8, <1>9

\* Nothing the daemon does is unknown to the window, except what its one request did.
LEMMA ExecutionIsAccurate ==
  ASSUME WindowOK, RestOK, Ready, Accurate(transaction, request),
         NEW c \in Connections, Execute(c)
  PROVE  Accurate(transaction, request)'
<1> DEFINE r == request[c]
           t == transaction
           changed == Changed(r)
           answer == request'[c]
<1>1. /\ r.stage = "sent" /\ r # Unused
      /\ transaction' = t /\ daemon'.configuration = changed
      /\ answer.stage = "answered" /\ answer.ok /\ answer.status = daemon'
      /\ \A d \in Connections \ {c} : request'[d] = request[d]
  BY DEF Execute, Answer, WindowOK, windowVars, Unused
<1>2. /\ t.inFlight # Nothing /\ OnItsWay(t, r) /\ t.connected
      /\ \A d \in Connections \ {c} : request[d] = Unused
  BY <1>1, AnswerIsAwaited DEF Accurate
<1>3. /\ r.operation = t.inFlight.operation /\ r.target = t.inFlight.target
      /\ r.operation = "output" =>
           IF r.processing = NoValue
           THEN r.target["processing"] = daemon.configuration["processing"]
           ELSE r.processing = r.target["processing"]
  BY <1>1, <1>2 DEF OnItsWay
<1>4. r.operation \in Fields /\ DOMAIN daemon.configuration = Fields
  BY <1>1, RequestTypes, StatusTypes DEF WindowOK, RestOK, Configurations
<1>5. Matches(r.operation, changed, r.target)
  BY <1>3, <1>4, FieldNames DEF Matches, Changed
<1> HIDE DEF t, r, changed, answer
<1>6. Matches(t.inFlight.operation, daemon'.configuration, t.inFlight.target)
  BY <1>1, <1>3, <1>5
<1>7. OnItsWay(transaction, request[c])'
  BY <1>1, <1>6 DEF OnItsWay, answer
<1> QED
  BY <1>1, <1>2, <1>7 DEF Accurate

LEMMA RejectionIsAccurate ==
  ASSUME WindowOK, RestOK, Ready, Accurate(transaction, request),
         NEW c \in Connections, Reject(c)
  PROVE  Accurate(transaction, request)'
<1>1. /\ request[c].stage = "sent" /\ request[c] # Unused
      /\ UNCHANGED <<transaction, daemon>>
      /\ request'[c].stage = "answered" /\ ~request'[c].ok
      /\ \A d \in Connections \ {c} : request'[d] = request[d]
  BY DEF Reject, Answer, WindowOK, windowVars, Unused
<1>2. /\ transaction.inFlight # Nothing /\ OnItsWay(transaction, request[c])
      /\ \A d \in Connections \ {c} : request[d] = Unused
      /\ transaction.connected
  BY <1>1, AnswerIsAwaited DEF Accurate
<1>3. Confirmed(transaction)
  BY <1>1, <1>2 DEF OnItsWay
<1>4. OnItsWay(transaction, request[c])'
  BY <1>1, <1>3 DEF OnItsWay, Confirmed
<1> QED
  BY <1>1, <1>2, <1>4 DEF Accurate

LEMMA ExecutionKeepsEvents ==
  ASSUME WindowOK, RestOK, EventsInv, NEW c \in Connections, Execute(c)
  PROVE  EventsInv'
<1>1. /\ UNCHANGED <<subscription, undisturbed>>
      /\ \/ daemon' = [configuration |-> daemon.configuration, revision |-> daemon.revision]
         \/ daemon'.revision = daemon.revision + 1
  <2> DEFINE r == request[c]
             configuration == Changed(r)
             changes == \/ configuration # daemon.configuration
                        \/ r.operation = "processing" \/ r.processing # NoValue
             revision == daemon.revision + (IF changes THEN 1 ELSE 0)
  <2>1. /\ daemon' = [configuration |-> configuration, revision |-> revision]
        /\ UNCHANGED <<windowVars, disk, subscription, undisturbed, left>>
    BY Zenon DEF Execute, Answer
  <2>2. ~changes => configuration = daemon.configuration
    OBVIOUS
  <2>3. revision = daemon.revision + (IF changes THEN 1 ELSE 0)
    OBVIOUS
  <2>4. daemon.revision + 0 = daemon.revision
    BY StatusTypes DEF RestOK
  <2> HIDE DEF changes, configuration, revision
  <2> QED
    BY <2>1, <2>2, <2>3, <2>4
<1>2. daemon = [configuration |-> daemon.configuration, revision |-> daemon.revision]
  BY DEF RestOK, Status
<1>3. daemon.revision \in Nat
  BY StatusTypes DEF RestOK
<1>4. ASSUME NEW s \in Status, Recent(s) PROVE Recent(s)'
  BY <1>1, <1>2, <1>3, <1>4, StatusTypes DEF Recent
<1>5. \A i \in 1 .. Len(subscription.events) : subscription.events[i] \in Status
  BY DEF RestOK
<1> QED
  BY <1>1, <1>4, <1>5 DEF EventsInv

LEMMA PublicationKeepsEvents ==
  ASSUME WindowOK, RestOK, EventsInv, Publish
  PROVE  EventsInv'
<1> DEFINE events == subscription.events
<1>1. /\ events \in Seq(Status) /\ Len(events) \in Nat /\ daemon \in Status
      /\ MaxEvents \in Nat \ {0}
  BY SettingsAssumption DEF RestOK
<1>2. /\ UNCHANGED <<daemon, undisturbed>> /\ subscription'.state = "on"
      /\ subscription'.events = IF Len(events) < MaxEvents THEN Append(events, daemon)
                                ELSE [events EXCEPT ![Len(events)] = daemon]
  BY DEF Publish, RestOK
<1>3. Recent(daemon)
  BY StatusTypes DEF Recent, RestOK
<1> SUFFICES ASSUME undisturbed
             PROVE  \A i \in 1 .. Len(subscription'.events) :
                      Recent(subscription'.events[i])
  BY <1>2 DEF EventsInv, Recent
<1>4. \A i \in 1 .. Len(events) : Recent(events[i])
  BY DEF EventsInv
<1> HIDE DEF events
<1>5. CASE Len(events) < MaxEvents
  BY <1>1, <1>2, <1>3, <1>4, <1>5
<1>6. CASE ~(Len(events) < MaxEvents)
  <2> DEFINE replaced == [events EXCEPT ![Len(events)] = daemon]
  <2>1. events \in [1 .. Len(events) -> Status]
    BY <1>1, SeqDef
  <2>2. /\ replaced \in [1 .. Len(events) -> Status] /\ subscription'.events = replaced
        /\ \A i \in 1 .. Len(events) : replaced[i] = events[i] \/ replaced[i] = daemon
    BY <1>1, <1>2, <1>6, <2>1
  <2> HIDE DEF replaced
  <2>3. Len(replaced) = Len(events)
    BY <1>1, <2>2, SeqDef
  <2> QED
    BY <1>3, <1>4, <2>2, <2>3
<1> QED
  BY <1>5, <1>6

LEMMA DaemonKeepsInvariants ==
  ASSUME WindowOK, RestOK, AbandonedInv, WindowInv, EventsInv,
         \/ SubscriptionEnds \/ Reconnect \/ Publish \/ DropSubscription \/ Restart
         \/ \E c \in Connections : Execute(c) \/ Reject(c) \/ Refuse(c)
         \/ \E f \in Fields, v \in Values : ForeignChange(f, v)
  PROVE  Watches /\ AbandonedInv' /\ WindowInv' /\ EventsInv'
<1> USE DEF daemonVars, windowVars
<1>1. CASE SubscriptionEnds
  <2>1. ~undisturbed /\ ~undisturbed' /\ UNCHANGED request
    BY <1>1 DEF SubscriptionEnds, EventsInv
  <2>2. AbandonedInv' /\ (Ready => Ready')
    <3>1. CASE Ready
      BY <1>1, <3>1, ConnectionLostKeepsAbandoned DEF SubscriptionEnds
    <3>2. CASE ~Ready
      BY <1>1, <3>2 DEF SubscriptionEnds, AbandonedInv
    <3> QED
      BY <3>1, <3>2
  <2> QED
    BY <2>1, <2>2 DEF Watches, WindowInv, EventsInv
<1>2. CASE Reconnect
  <2>1. ~undisturbed /\ ~undisturbed' /\ UNCHANGED request /\ WindowWaits
    BY <1>2 DEF Reconnect, EventsInv, WindowWaits
  <2> QED
    BY <2>1, WaitingKeepsInvariants DEF WindowInv, EventsInv
<1>3. CASE Publish
  <2>1. WindowWaits /\ UNCHANGED <<request, daemon>>
    BY <1>3 DEF Publish, WindowWaits
  <2> QED
    BY <1>3, <2>1, WaitingKeepsInvariants, PublicationKeepsEvents
<1>4. ASSUME ~undisturbed', WindowWaits,
             \A c \in Connections : request'[c].stage = "sent" => request[c].stage = "sent"
      PROVE  Watches /\ AbandonedInv' /\ WindowInv' /\ EventsInv'
  BY <1>4, WaitingKeepsInvariants DEF Watches, Ready, WindowWaits, WindowInv, EventsInv
<1>5. CASE DropSubscription
  BY <1>4, <1>5 DEF DropSubscription, WindowWaits
<1>6. CASE Restart
  <2>1. ~undisturbed' /\ WindowWaits
    BY <1>6 DEF Restart, WindowWaits
  <2>2. \A c \in Connections : request'[c].stage = "sent" => request[c].stage = "sent"
    BY <1>6 DEF Restart, Lost
  <2> QED
    BY <1>4, <2>1, <2>2
<1>7. ASSUME NEW c \in Connections, Refuse(c)
      PROVE  Watches /\ AbandonedInv' /\ WindowInv' /\ EventsInv'
  <2>1. ~undisturbed' /\ WindowWaits
    BY <1>7 DEF Refuse, WindowWaits
  <2>2. \A d \in Connections : request'[d].stage = "sent" => request[d].stage = "sent"
    BY <1>7 DEF Refuse, WindowOK, Lost
  <2> QED
    BY <1>4, <2>1, <2>2
<1>8. ASSUME NEW f \in Fields, NEW v \in Values, ForeignChange(f, v)
      PROVE  Watches /\ AbandonedInv' /\ WindowInv' /\ EventsInv'
  BY <1>4, <1>8 DEF ForeignChange, WindowWaits
<1>9. ASSUME NEW c \in Connections, Execute(c) \/ Reject(c)
      PROVE  Watches /\ AbandonedInv' /\ WindowInv' /\ EventsInv'
  <2>1. WindowWaits /\ UNCHANGED <<subscription, undisturbed>> /\ request[c].stage = "sent"
    <3>1. CASE Execute(c)
      <4>1. /\ UNCHANGED <<windowVars, disk, subscription, undisturbed, left>>
            /\ request[c].stage = "sent"
        BY <3>1, Zenon DEF Execute
      <4> QED
        BY <4>1 DEF WindowWaits
    <3>2. CASE Reject(c)
      BY <3>2 DEF Reject, WindowWaits
    <3> QED
      BY <1>9, <3>1, <3>2
  <2>2. \A d \in Connections : request'[d].stage = "sent" => request[d].stage = "sent"
    BY <1>9, <2>1 DEF Execute, Reject, Answer, WindowOK
  <2>3. Watches /\ AbandonedInv' /\ (Ready <=> Ready')
    BY <2>1, <2>2, WaitingKeepsInvariants DEF Watches, Ready, WindowWaits
  <2>4. EventsInv'
    <3>1. CASE Execute(c)
      BY <3>1, ExecutionKeepsEvents
    <3>2. CASE Reject(c)
      BY <2>1, <3>2, EventsStay DEF Reject
    <3> QED
      BY <1>9, <3>1, <3>2
  <2>5. undisturbed => Ready /\ Accurate(transaction, request)
    BY <2>1 DEF WindowInv, NoRequest, Unused
  <2>6. undisturbed /\ Execute(c) => Accurate(transaction, request)'
    BY <2>5, ExecutionIsAccurate
  <2>7. undisturbed /\ Reject(c) => Accurate(transaction, request)'
    BY <2>1, <2>5, RejectionIsAccurate
  <2> QED
    BY <1>9, <2>1, <2>3, <2>4, <2>5, <2>6, <2>7 DEF WindowInv
<1> QED
  BY <1>1, <1>2, <1>3, <1>5, <1>6, <1>7, <1>8, <1>9

-----------------------------------------------------------------------------
(* The invariant and the theorems. *)

SettingsInv == SettingsTypeOK /\ AbandonedInv /\ WindowInv /\ EventsInv

LEMMA SettingsInitInv == SettingsInit => SettingsInv
<1> SUFFICES ASSUME SettingsInit PROVE SettingsInv
  OBVIOUS
<1>1. SettingsTypeOK
  BY InitTypes
<1>2. /\ transaction = NoTransaction /\ abandoned = NoValue
      /\ request = [c \in Connections |-> Unused]
      /\ subscription.state = "on" /\ subscription.events = <<>>
  BY DEF SettingsInit
<1>3. AbandonedInv /\ WindowInv /\ EventsInv
  BY <1>2 DEF AbandonedInv, WindowInv, EventsInv, Ready, NoRequest
<1> QED
  BY <1>1, <1>3 DEF SettingsInv

\* A step that drives the window, and one that does not.
LEMMA DrivingStep ==
  ASSUME WindowOK, RestOK, AbandonedInv, WindowInv, EventsInv,
         Drives, RestOK', DaemonWaits
  PROVE  /\ WindowOK' /\ AbandonedInv' /\ WindowInv' /\ EventsInv'
         /\ CloseStep /\ DraftStep
<1>1. AbandonedInv'
  BY DrivesKeepAbandoned
<1> QED
  BY <1>1, DrivesKeepWindow, DrivesKeepAccurate, DrivesKeepEvents,
     DrivesCloseAfterRollback, DrivesSendNoDraft

LEMMA SettingsNextInv ==
  ASSUME SettingsInv, [SettingsNext]_settingsVars
  PROVE  SettingsInv' /\ CloseStep /\ DraftStep
<1>1. WindowOK /\ RestOK /\ AbandonedInv /\ WindowInv /\ EventsInv
  BY TypesInParts DEF SettingsInv
<1>2. SettingsTypeOK' <=> WindowOK' /\ RestOK'
  BY TypesInParts, PTL
<1> SUFFICES /\ WindowOK' /\ RestOK' /\ AbandonedInv' /\ WindowInv' /\ EventsInv'
             /\ CloseStep /\ DraftStep
  BY <1>2 DEF SettingsInv
<1>3. CASE Drives /\ RestOK' /\ DaemonWaits
  BY <1>1, <1>3, DrivingStep
<1>4. CASE /\ WindowOK' /\ RestOK' /\ Watches
           /\ AbandonedInv' /\ WindowInv' /\ EventsInv'
  BY <1>4, WatchesSatisfiesSteps
<1>5. CASE User
  <2>1. CASE PresentWindow
    BY <1>1, <1>4, <2>1, PresentKeepsTypes, PresentKeepsInvariants
  <2>2. CASE OpenDraft \/ CloseDraft \/ ApplySettings
    BY <1>1, <1>4, <2>2, OpenDraftKeepsTypes, OpenDraftKeepsInvariants
  <2>3. CASE RestoreDefaults
    BY <1>1, <1>3, <2>3, DefaultsDrive
  <2>4. CASE Cancel /\ Ready
    BY <1>1, <1>3, <2>4, CancelDrives
  <2>5. CASE Cancel /\ ~Ready
    BY <1>1, <1>4, <2>5, CancelKeepsTypes, CancelKeepsInvariants
  <2>6. ASSUME NEW f \in Fields, NEW v \in Values, EditSetting(f, v)
        PROVE  Drives /\ RestOK' /\ DaemonWaits
    BY <1>1, <2>6, EditDrives
  <2>7. ASSUME NEW choice \in Values, ApplyDraft(choice)
        PROVE  Drives /\ RestOK' /\ DaemonWaits
    BY <1>1, <2>7, ApplyDraftDrives
  <2> QED
    BY <1>3, <1>5, <2>1, <2>2, <2>3, <2>4, <2>5, <2>6, <2>7 DEF User
<1>6. CASE \E c \in Connections : Reply(c)
  <2>1. ASSUME NEW c \in Connections, ReplyIsIgnored(c) \/ ReplyIsLost(c)
        PROVE  /\ WindowOK' /\ RestOK' /\ Watches
               /\ AbandonedInv' /\ WindowInv' /\ EventsInv'
    BY <1>1, <2>1, IgnoredKeepsTypes, IgnoredKeepsInvariants
  <2>2. ASSUME NEW c \in Connections, ReplyFails(c)
        PROVE  /\ WindowOK' /\ RestOK' /\ Watches
               /\ AbandonedInv' /\ WindowInv' /\ EventsInv'
    BY <1>1, <2>2, FailureKeepsTypes, FailureKeepsInvariants
  <2>3. ASSUME NEW c \in Connections, ReplySucceeds(c)
        PROVE  Drives /\ RestOK' /\ DaemonWaits
    BY <1>1, <2>3, SuccessDrives
  <2> QED
    BY <1>3, <1>4, <1>6, <2>1, <2>2, <2>3 DEF Reply
<1>7. CASE SubscriptionMessage
  <2>1. CASE MessageWithoutWindow
    <3>1. WindowWaits /\ UNCHANGED <<request, daemon, undisturbed>> /\ TakeMessage
      BY <2>1 DEF MessageWithoutWindow, TakeMessage, WindowWaits
    <3> QED
      BY <1>1, <1>4, <2>1, <3>1, MessageKeepsTypes, MessageKeepsEvents,
         WaitingKeepsInvariants
  <2>2. CASE MessageBegins
    BY <1>1, <1>3, <2>2, BeginDrives
  <2>3. CASE MessageReconnects
    BY <1>1, <1>3, <2>3, ReconnectionDrives
  <2>4. CASE MessageIsObserved
    BY <1>1, <1>3, <2>4, ObservationDrives
  <2> QED
    BY <1>7, <2>1, <2>2, <2>3, <2>4 DEF SubscriptionMessage
<1>8. CASE \/ SubscriptionEnds \/ Reconnect \/ Publish \/ DropSubscription \/ Restart
           \/ \E c \in Connections : Execute(c) \/ Reject(c) \/ Refuse(c)
           \/ \E f \in Fields, v \in Values : ForeignChange(f, v)
  BY <1>1, <1>4, <1>8, DaemonKeepsTypes, DaemonKeepsInvariants
<1>9. CASE UNCHANGED settingsVars
  <2>1. WindowWaits /\ UNCHANGED <<request, daemon, subscription, undisturbed>>
    BY <1>9 DEF settingsVars, WindowWaits
  <2>2. WindowOK' /\ RestOK'
    BY <1>1, <1>9 DEF settingsVars, WindowOK, RestOK, Ready
  <2> QED
    BY <1>1, <1>4, <2>1, <2>2, WaitingKeepsInvariants, EventsStay
<1> QED
  BY <1>5, <1>6, <1>7, <1>8, <1>9 DEF SettingsNext

LEMMA SettingsInvariant == SettingsSpec => []SettingsInv
<1>1. SettingsInv /\ [SettingsNext]_settingsVars => SettingsInv'
  BY SettingsNextInv
<1> QED
  BY <1>1, SettingsInitInv, PTL DEF SettingsSpec

\* However the user, the replies and the subscription overlap, every part of
\* the window keeps its type; only an open window has settings or a draft, and
\* only a connected one waits for a reply.
THEOREM SettingsTypeIsInvariant == SettingsSpec => []SettingsTypeOK
<1>1. SettingsInv => SettingsTypeOK
  BY DEF SettingsInv
<1> QED
  BY <1>1, SettingsInvariant, PTL

\* When Cancel closes the window, the daemon has what was live before and no
\* request of the window can still change it, unless another client changed the
\* daemon or a connection failed.
THEOREM SettingsClosesAfterRollback == SettingsSpec => ClosesAfterRollback
<1>1. SettingsInv /\ [SettingsNext]_settingsVars => CloseStep
  BY SettingsNextInv
<1>2. SettingsInv /\ [SettingsNext]_settingsVars =>
        [Ready /\ ~Ready' /\ undisturbed =>
           /\ daemon.configuration = transaction.baseline
           /\ \A c \in Connections : request[c].stage # "sent"]_settingsVars
  BY <1>1 DEF CloseStep
<1> QED
  BY <1>2, SettingsInvariant, PTL DEF SettingsSpec, ClosesAfterRollback

\* Device assignments that failed or were interrupted are not sent again by the
\* window: whatever it sends by itself afterwards has other outputs.
THEOREM SettingsDraftIsNotResubmitted == SettingsSpec => DraftIsNotResubmitted
<1>1. SettingsInv /\ [SettingsNext]_settingsVars => DraftStep
  BY SettingsNextInv
<1>2. SettingsInv /\ [SettingsNext]_settingsVars =>
        [\A c \in Connections :
           /\ request[c].stage # "sent" /\ request'[c].stage = "sent"
           /\ request'[c].operation = "output"
           => request'[c].target["output"] # abandoned']_settingsVars
  BY <1>1 DEF DraftStep
<1> QED
  BY <1>2, SettingsInvariant, PTL DEF SettingsSpec, DraftIsNotResubmitted
=============================================================================
