------------------------ MODULE SettingsTransaction ------------------------
(***************************************************************************)
(* The settings window of the GTK application (settings-transaction.cpp,   *)
(* its driver in main.cpp and control-client.cpp) against a daemon.        *)
(*                                                                         *)
(* Every edit is shown live: the window sends one request after the other  *)
(* until the daemon has what the user selected.  Apply saves it, Cancel    *)
(* brings back what was live when the window opened.  Device assignments   *)
(* are edited in a modal draft and sent when it is confirmed.              *)
(*                                                                         *)
(* Each request has a connection of its own, which the loss of the         *)
(* subscription does not close.  Other clients change the daemon, it       *)
(* restarts with the saved configuration, and it ends subscriptions.       *)
(*                                                                         *)
(* Outside: OS card profiles, which travel with the outputs, choices that  *)
(* take effect only at a start, the language, and how the daemon works.    *)
(***************************************************************************)
EXTENDS Integers, Sequences

CONSTANTS Scalars,       \* the settings with a request each, in their order
          Values,
          StartValue, DefaultValue, NoValue,
          Connections,   \* connections for requests
          MaxEvents,     \* status events on their way
          Disturbances   \* bounds to start with, see Bounds

Fields == {Scalars[i] : i \in DOMAIN Scalars} \cup {"output", "processing"}
Order == Scalars \o <<"output", "processing">>
Configurations == [Fields -> Values]
Defaults == [f \in Fields |-> DefaultValue]

\* How often the window opens and the user edits; other clients change a
\* setting, requests are refused, connections end and the daemon restarts.
Bounds == [sessions : Nat, edits : Nat, foreign : Nat, rejections : Nat,
           losses : Nat, restarts : Nat]

ASSUME SettingsAssumption ==
  /\ Scalars \in Seq(STRING) /\ "none" \notin Fields
  /\ StartValue \in Values /\ DefaultValue \in Values /\ NoValue \notin Values
  /\ Connections \subseteq Nat /\ MaxEvents \in Nat \ {0}
  /\ Disturbances \subseteq Bounds

VARIABLES
  transaction,    \* SettingsTransaction, or NoTransaction
  dialog,         \* the window is open; it closes after the rollback
  draft,          \* outputDraft
  reconciling,    \* outputReconciliationPending
  known,          \* the state of the application: its last status
  disk,           \* the saved configuration
  daemon,         \* its configuration and configurationRevision
  request,        \* per connection
  subscription,   \* status events on their way; "off" until the next attempt
  \* History: the draft that was given up; the selection is Restore Defaults;
  \* nothing but this window has changed the daemon, no connection failed, and
  \* the window began with the daemon's status of that moment.
  abandoned, restored, undisturbed,
  left            \* what remains of the bounds

settingsVars == <<transaction, dialog, draft, reconciling, known, disk, daemon,
                  request, subscription, abandoned, restored, undisturbed, left>>

Status == [configuration : Configurations, revision : Nat]
NoTransaction == [ready |-> FALSE]
NoDraft == [phase |-> "none"]
Nothing == [operation |-> "none"]
Unused == [stage |-> "unused"]
Lost == [stage |-> "lost"]

Transactions ==
  [ready : {TRUE}, baseline : Configurations, desired : Configurations,
   confirmed : Configurations, revision : Nat,
   inFlight : {Nothing} \cup [operation : Fields, target : Configurations],
   connected : BOOLEAN, cancelRequested : BOOLEAN, conflict : BOOLEAN,
   liveChangeFailed : BOOLEAN]

Drafts == {NoDraft} \cup
  [phase : {"editing", "applying"}, before : Values, choice : Values, revision : Nat]

\* processing is the choice that an output request carries, if any.
Requests == {Unused, Lost} \cup
  [stage : {"sent"}, operation : Fields, target : Configurations,
   processing : Values \cup {NoValue}, revision : Nat] \cup
  [stage : {"answered"}, ok : BOOLEAN, status : Status]

Ready == transaction # NoTransaction

\* Besides the types: only an open window has settings and drafts, and only a
\* connected one waits for a reply.
SettingsTypeOK ==
  /\ transaction \in Transactions \cup {NoTransaction}
  /\ dialog \in [open : BOOLEAN, closing : BOOLEAN]
  /\ draft \in Drafts
  /\ reconciling \in BOOLEAN
  /\ known \in [connected : BOOLEAN, status : Status]
  /\ disk \in Configurations
  /\ daemon \in Status
  /\ request \in [Connections -> Requests]
  /\ subscription \in [state : {"on", "ending", "off"}, events : Seq(Status)]
  /\ abandoned \in Values \cup {NoValue}
  /\ restored \in BOOLEAN /\ undisturbed \in BOOLEAN
  /\ left \in Bounds
  /\ Ready \/ dialog.closing => dialog.open
  /\ ~Ready => draft = NoDraft
  /\ Ready /\ transaction.inFlight # Nothing => transaction.connected

SettingsInit ==
  /\ transaction = NoTransaction /\ draft = NoDraft
  /\ dialog = [open |-> FALSE, closing |-> FALSE]
  /\ reconciling = FALSE
  /\ disk = [f \in Fields |-> StartValue]
  /\ daemon = [configuration |-> disk, revision |-> 0]
  /\ known = [connected |-> TRUE, status |-> daemon]
  /\ request = [c \in Connections |-> Unused]
  /\ subscription = [state |-> "on", events |-> <<>>]
  /\ abandoned = NoValue /\ restored = FALSE /\ undisturbed = TRUE
  /\ left \in Disturbances

-----------------------------------------------------------------------------
\* The transaction (settings-transaction.cpp)

BeginTransaction(status, connected) ==
  [ready |-> TRUE, baseline |-> status.configuration, desired |-> status.configuration,
   confirmed |-> status.configuration, revision |-> status.revision,
   inFlight |-> Nothing, connected |-> connected, cancelRequested |-> FALSE,
   conflict |-> FALSE, liveChangeFailed |-> FALSE]

Edited(t, desired) ==
  [t EXCEPT !.desired = desired, !.liveChangeFailed = FALSE]

WithDefaults(t) ==
  [t EXCEPT !.desired = Defaults, !.cancelRequested = FALSE, !.conflict = FALSE,
            !.liveChangeFailed = FALSE]

Differing(t) == {i \in DOMAIN Order : t.confirmed[Order[i]] # t.desired[Order[i]]}

\* nextSettingsOperation
NextOperation(t) ==
  IF \/ ~t.connected \/ t.inFlight # Nothing
     \/ t.conflict \/ t.liveChangeFailed \/ Differing(t) = {}
  THEN "none"
  ELSE Order[CHOOSE i \in Differing(t) : \A j \in Differing(t) : i <= j]

Matches(operation, left_, right) ==
  /\ left_[operation] = right[operation]
  /\ operation = "output" => left_["processing"] = right["processing"]

Failed(t) == [t EXCEPT !.inFlight = Nothing, !.liveChangeFailed = TRUE]

CompletedUnverified(t, reply) ==
  [t EXCEPT !.inFlight = Nothing, !.confirmed = reply.status.configuration,
            !.revision = reply.status.revision, !.liveChangeFailed = FALSE]

\* completeSettingsOperation: the reply has to show the value that was sent.
Completed(t, reply) ==
  IF t.inFlight = Nothing THEN t
  ELSE IF /\ reply.ok
          /\ Matches(t.inFlight.operation, reply.status.configuration, t.inFlight.target)
       THEN CompletedUnverified(t, reply)
       ELSE Failed(t)

DisconnectedWaiting(t) == [t EXCEPT !.connected = FALSE, !.liveChangeFailed = FALSE]

Disconnected(t) ==
  [t EXCEPT !.connected = FALSE, !.inFlight = Nothing, !.liveChangeFailed = FALSE]

Reconnected(t, status) ==
  [t EXCEPT !.connected = TRUE, !.confirmed = status.configuration,
            !.revision = status.revision, !.inFlight = Nothing, !.conflict = FALSE,
            !.liveChangeFailed = FALSE]

\* observeSettingsRuntime, connected: any other configuration is a conflict.
Observed(t, status) ==
  IF t.inFlight # Nothing \/ status.revision < t.revision THEN t
  ELSE IF status.configuration = t.confirmed
       THEN [t EXCEPT !.revision = status.revision]
       ELSE [t EXCEPT !.confirmed = status.configuration, !.revision = status.revision,
                      !.conflict = TRUE, !.liveChangeFailed = FALSE]

Canceled(t) ==
  [t EXCEPT !.desired = t.baseline, !.cancelRequested = TRUE, !.conflict = FALSE,
            !.liveChangeFailed = FALSE]

CanApply(t) ==
  /\ t.connected /\ ~t.cancelRequested /\ ~t.conflict /\ ~t.liveChangeFailed
  /\ t.inFlight = Nothing /\ t.desired = t.confirmed /\ t.desired # disk

Persisted(t) == [t EXCEPT !.baseline = t.confirmed, !.conflict = FALSE]

ShouldCloseEarly(t) ==
  /\ t.cancelRequested /\ t.connected /\ ~t.conflict /\ ~t.liveChangeFailed
  /\ t.confirmed = t.baseline

ShouldClose(t) ==
  /\ t.cancelRequested /\ t.connected /\ ~t.conflict /\ ~t.liveChangeFailed
  /\ t.inFlight = Nothing /\ t.confirmed = t.baseline

-----------------------------------------------------------------------------
\* The driver (main.cpp)

ControlsAreEditable ==
  /\ dialog.open /\ Ready
  /\ transaction.connected /\ ~transaction.cancelRequested /\ ~transaction.conflict

Sent(t, operation) ==
  [stage |-> "sent", operation |-> operation, target |-> t.desired,
   processing |-> IF operation = "output"
                     /\ t.desired["processing"] # t.confirmed["processing"]
                  THEN t.desired["processing"] ELSE NoValue,
   revision |-> t.revision]

UnusedIn(others) == {c \in Connections : others[c] = Unused}

\* driveSettings and dispatchSettingsOperation: the window closes after its
\* rollback, or the next setting that differs is sent.
Drive(t, closing, d, others) ==
  LET operation == NextOperation(t)
      hides == closing /\ ShouldClose(t)
  IN \/ /\ hides
        /\ transaction' = NoTransaction /\ draft' = NoDraft
        /\ dialog' = [open |-> FALSE, closing |-> FALSE]
        /\ request' = others
     \/ /\ ~hides /\ operation = "none"
        /\ transaction' = t /\ draft' = d /\ request' = others
        /\ dialog' = [dialog EXCEPT !.closing = closing]
     \/ /\ ~hides /\ operation # "none"
        /\ \E c \in UnusedIn(others) :
             /\ \A b \in UnusedIn(others) : c <= b
             /\ request' = [others EXCEPT ![c] = Sent(t, operation)]
        /\ transaction' = [t EXCEPT !.inFlight =
                             [operation |-> operation, target |-> t.desired]]
        /\ draft' = d
        /\ dialog' = [dialog EXCEPT !.closing = closing]

GivenUpStaysDesired(t) == t

\* interruptOutputConfiguration and a draft that failed: the outputs stay what
\* the daemon last confirmed.
GivenUp(t) == [t EXCEPT !.desired["output"] = t.confirmed["output"]]

Reopened(d) == [d EXCEPT !.phase = "editing"]
Applying == draft.phase = "applying"

\* What a Cancel brings back is no draft; one that is given up counts until the
\* daemon shows its choice.
Abandon == IF \/ transaction.cancelRequested
              \/ transaction.confirmed["output"] = draft.choice
           THEN NoValue ELSE draft.choice
ForgetDraft(t) == abandoned' = IF t.confirmed["output"] = abandoned THEN NoValue ELSE abandoned

Spend(bound) == left[bound] > 0 /\ left' = [left EXCEPT ![bound] = @ - 1]

daemonVars == <<disk, daemon, subscription>>
windowVars == <<transaction, dialog, draft, reconciling, known, abandoned, restored>>

-----------------------------------------------------------------------------
\* The user

PresentWindow ==
  /\ ~dialog.open \/ dialog.closing
  /\ Spend("sessions")
  /\ dialog' = [open |-> TRUE, closing |-> FALSE]
  /\ transaction' = IF ~Ready /\ known.connected
                    THEN BeginTransaction(known.status, TRUE) ELSE transaction
  /\ undisturbed' = (undisturbed /\ (~Ready /\ known.connected => known.status = daemon))
  /\ UNCHANGED <<draft, reconciling, known, request, abandoned, restored, daemonVars>>

\* The window itself offers only the single mode as an output.
EditSetting(f, v) ==
  /\ ControlsAreEditable /\ draft = NoDraft
  /\ f = "output" => v = DefaultValue
  /\ v # transaction.desired[f]
  /\ Spend("edits")
  /\ Drive(Edited(transaction, [transaction.desired EXCEPT ![f] = v]),
           dialog.closing, draft, request)
  /\ restored' = FALSE
  /\ abandoned' = IF f = "output" THEN NoValue ELSE abandoned
  /\ UNCHANGED <<reconciling, known, undisturbed, daemonVars>>

OpenDraft ==
  /\ ControlsAreEditable /\ draft = NoDraft /\ transaction.inFlight = Nothing
  /\ left.edits > 0
  /\ draft' = [phase |-> "editing", before |-> transaction.desired["output"],
               choice |-> transaction.desired["output"], revision |-> transaction.revision]
  /\ UNCHANGED <<transaction, dialog, reconciling, known, request, abandoned,
                 restored, undisturbed, left, daemonVars>>

CloseDraft ==
  /\ draft.phase = "editing"
  /\ draft' = NoDraft
  /\ UNCHANGED <<transaction, dialog, reconciling, known, request, abandoned,
                 restored, undisturbed, left, daemonVars>>

\* Apply configuration, unless the settings changed under the draft.
ApplyDraft(choice) ==
  /\ draft.phase = "editing" /\ ControlsAreEditable
  /\ draft.revision = transaction.revision
  /\ draft.before = transaction.desired["output"] /\ choice # draft.before
  /\ Spend("edits")
  /\ Drive(Edited(transaction, [transaction.desired EXCEPT !["output"] = choice]),
           dialog.closing, [draft EXCEPT !.phase = "applying", !.choice = choice], request)
  /\ abandoned' = NoValue /\ restored' = FALSE
  /\ UNCHANGED <<reconciling, known, undisturbed, daemonVars>>

\* Apply.  A file that cannot be written leaves everything as it was.
ApplySettings ==
  /\ dialog.open /\ Ready /\ draft = NoDraft /\ CanApply(transaction)
  /\ disk' = transaction.desired
  /\ transaction' = Persisted(transaction)
  /\ UNCHANGED <<dialog, draft, reconciling, known, daemon, request, subscription,
                 abandoned, restored, undisturbed, left>>

RestoreDefaults ==
  /\ dialog.open /\ draft = NoDraft /\ ~restored
  /\ Spend("edits")
  /\ LET t == IF Ready THEN transaction
              ELSE BeginTransaction([configuration |-> disk, revision |-> 0], FALSE)
     IN Drive(WithDefaults(t), dialog.closing, draft, request)
  /\ abandoned' = NoValue /\ restored' = TRUE
  /\ undisturbed' = (undisturbed /\ Ready)
  /\ UNCHANGED <<reconciling, known, daemonVars>>

\* Cancel, Escape and closing the window; the tray's Quit also while a draft
\* is open, and the application then starts anew.
Cancel ==
  /\ dialog.open
  /\ Ready => \/ ~dialog.closing \/ ~transaction.cancelRequested
              \/ transaction.conflict \/ transaction.liveChangeFailed
  /\ \/ /\ ~Ready
        /\ dialog' = [open |-> FALSE, closing |-> FALSE]
        /\ UNCHANGED <<transaction, draft, request>>
     \/ /\ Ready
        /\ Drive(Canceled(transaction), TRUE, draft, request)
  /\ abandoned' = NoValue /\ restored' = FALSE
  /\ UNCHANGED <<reconciling, known, undisturbed, left, daemonVars>>

-----------------------------------------------------------------------------
\* Replies (onSettingsOperationReply).  Whatever request a reply belongs to, it
\* is taken for the operation in flight.

ReplyIsIgnored(c) ==
  /\ ~Ready
  /\ request[c] = Lost \/ request[c].stage = "answered"
  /\ request' = [request EXCEPT ![c] = Unused]
  /\ UNCHANGED <<transaction, dialog, draft, reconciling, known, abandoned,
                 restored, undisturbed, left, daemonVars>>

\* markControlDisconnected, and what depends on it while a window is open:
\* interruptOutputConfiguration and markSettingsDisconnected.
LoseConnection ==
  /\ known' = [known EXCEPT !.connected = FALSE]
  /\ transaction' = Disconnected(IF Applying THEN GivenUp(transaction) ELSE transaction)
  /\ draft' = IF Applying THEN Reopened(draft) ELSE draft
  /\ reconciling' = (reconciling \/ Applying)
  /\ abandoned' = IF Applying THEN Abandon ELSE abandoned

ReplyIsLostUnnoticed(c) ==
  /\ Ready /\ request[c] = Lost
  /\ request' = [request EXCEPT ![c] = Unused]
  /\ UNCHANGED <<windowVars, undisturbed, left, daemonVars>>

ReplyIsLost(c) ==
  /\ Ready /\ request[c] = Lost
  /\ LoseConnection
  /\ request' = [request EXCEPT ![c] = Unused]
  /\ UNCHANGED <<dialog, restored, undisturbed, left, daemonVars>>

\* applyControlResponse
LearnFrom(status) == known' = [connected |-> TRUE, status |-> status]

ReplySucceeds(c) ==
  /\ Ready /\ request[c].stage = "answered"
  /\ LET t == Completed(transaction, request[c])
     IN /\ request[c].ok /\ ~t.liveChangeFailed
        /\ Drive(t, dialog.closing,
                 IF Applying /\ transaction.inFlight.operation = "output"
                 THEN NoDraft ELSE draft,
                 [request EXCEPT ![c] = Unused])
        /\ ForgetDraft(t)
  /\ LearnFrom(request[c].status)
  /\ UNCHANGED <<reconciling, restored, undisturbed, left, daemonVars>>

ReplyFails(c) ==
  /\ Ready /\ request[c].stage = "answered"
  /\ LET t == Completed(transaction, request[c])
         ends == Applying /\ transaction.inFlight.operation = "output"
     IN /\ ~request[c].ok \/ t.liveChangeFailed
        /\ transaction' = IF ends THEN GivenUp(t) ELSE t
        /\ draft' = IF ends THEN Reopened(draft) ELSE draft
        /\ abandoned' = IF ends THEN Abandon ELSE abandoned
  /\ request' = [request EXCEPT ![c] = Unused]
  /\ LearnFrom(IF request[c].ok THEN request[c].status ELSE known.status)
  /\ UNCHANGED <<dialog, reconciling, restored, undisturbed, left, daemonVars>>

-----------------------------------------------------------------------------
\* The subscription (onSubscriptionMessage, onConnectionChanged)

TakeMessage ==
  /\ subscription.events # <<>>
  /\ subscription' = [subscription EXCEPT !.events = Tail(@)]
  /\ LearnFrom(Head(subscription.events))
  /\ UNCHANGED <<disk, daemon, restored, left>>

MessageWithoutWindow ==
  /\ TakeMessage /\ ~dialog.open
  /\ UNCHANGED <<transaction, dialog, draft, reconciling, request, abandoned, undisturbed>>

MessageBegins ==
  /\ TakeMessage /\ dialog.open /\ ~Ready
  /\ Drive(BeginTransaction(Head(subscription.events), TRUE), dialog.closing, draft, request)
  /\ undisturbed' = (undisturbed /\ Head(subscription.events) = daemon)
  /\ UNCHANGED <<reconciling, abandoned>>

Reconciled(t) ==
  IF reconciling /\ ~t.cancelRequested THEN GivenUp(t) ELSE t

MessageReconnects ==
  /\ TakeMessage /\ Ready /\ ~transaction.connected
  /\ LET t == Reconciled(Reconnected(transaction, Head(subscription.events)))
     IN Drive(t, dialog.closing, draft, request) /\ ForgetDraft(t)
  /\ reconciling' = FALSE /\ UNCHANGED undisturbed

MessageIsObserved ==
  /\ TakeMessage /\ Ready /\ transaction.connected
  /\ LET t == Observed(transaction, Head(subscription.events))
     IN Drive(t, dialog.closing, draft, request) /\ ForgetDraft(t)
  /\ UNCHANGED <<reconciling, undisturbed>>

SubscriptionMessage ==
  MessageWithoutWindow \/ MessageBegins \/ MessageReconnects \/ MessageIsObserved

SubscriptionEnds ==
  /\ subscription = [state |-> "ending", events |-> <<>>]
  /\ subscription' = [subscription EXCEPT !.state = "off"]
  /\ IF Ready THEN LoseConnection
     ELSE /\ known' = [known EXCEPT !.connected = FALSE]
          /\ UNCHANGED <<transaction, draft, reconciling, abandoned>>
  /\ UNCHANGED <<dialog, disk, daemon, request, restored, undisturbed, left>>

\* reconnectControl; the answer to the subscription is the first event.
Reconnect ==
  /\ subscription.state = "off"
  /\ subscription' = [state |-> "on", events |-> <<daemon>>]
  /\ UNCHANGED <<windowVars, disk, daemon, request, undisturbed, left>>

-----------------------------------------------------------------------------
\* The daemon and its other clients

Answer(c, ok, status) ==
  request' = [request EXCEPT ![c] = [stage |-> "answered", ok |-> ok, status |-> status]]

Changed(r) ==
  IF r.operation # "output"
  THEN [daemon.configuration EXCEPT ![r.operation] = r.target[r.operation]]
  ELSE [daemon.configuration EXCEPT
          !["output"] = r.target["output"],
          !["processing"] = IF r.processing = NoValue THEN @ ELSE r.processing]

\* Only a preset that is loaded again counts as a change without being one.
Execute(c) ==
  /\ request[c].stage = "sent"
  /\ LET r == request[c]
         configuration == Changed(r)
         changes == \/ configuration # daemon.configuration
                    \/ r.operation = "processing" \/ r.processing # NoValue
         after == [configuration |-> configuration,
                   revision |-> daemon.revision + (IF changes THEN 1 ELSE 0)]
     IN /\ r.operation = "output" => r.revision = daemon.revision
        /\ daemon' = after
        /\ Answer(c, TRUE, after)
  /\ UNCHANGED <<windowVars, disk, subscription, undisturbed, left>>

\* Outputs chosen for another revision are refused, the rest for reasons of its own.
Reject(c) ==
  /\ request[c].stage = "sent"
  /\ \/ /\ request[c].operation = "output" /\ request[c].revision # daemon.revision
        /\ UNCHANGED left
     \/ Spend("rejections")
  /\ Answer(c, FALSE, daemon)
  /\ UNCHANGED <<windowVars, disk, daemon, subscription, undisturbed>>

\* publishToSubscribers keeps the latest status until the socket takes it.
Publish ==
  /\ subscription.state = "on"
  /\ subscription.events # <<>> => subscription.events[Len(subscription.events)] # daemon
  /\ subscription' = [subscription EXCEPT !.events =
       IF Len(@) < MaxEvents THEN Append(@, daemon) ELSE [@ EXCEPT ![Len(@)] = daemon]]
  /\ UNCHANGED <<windowVars, disk, daemon, request, undisturbed, left>>

ForeignChange(f, v) ==
  /\ Spend("foreign") /\ v # daemon.configuration[f]
  /\ daemon' = [configuration |-> [daemon.configuration EXCEPT ![f] = v],
                revision |-> daemon.revision + 1]
  /\ undisturbed' = FALSE
  /\ UNCHANGED <<windowVars, disk, request, subscription>>

\* The daemon ends a subscription while it goes on working (control_socket.cpp).
DropSubscription ==
  /\ subscription.state = "on" /\ Spend("losses")
  /\ subscription' = [subscription EXCEPT !.state = "ending"]
  /\ undisturbed' = FALSE
  /\ UNCHANGED <<windowVars, disk, daemon, request>>

\* A connection for a request is turned away.
Refuse(c) ==
  /\ request[c].stage = "sent" /\ Spend("losses")
  /\ request' = [request EXCEPT ![c] = Lost]
  /\ undisturbed' = FALSE
  /\ UNCHANGED <<windowVars, disk, daemon, subscription>>

Restart ==
  /\ Spend("restarts")
  /\ daemon' = [configuration |-> disk, revision |-> 0]
  /\ request' = [c \in Connections |->
                   IF request[c].stage = "sent" THEN Lost ELSE request[c]]
  /\ subscription' = [subscription EXCEPT !.state = IF @ = "off" THEN "off" ELSE "ending"]
  /\ undisturbed' = FALSE
  /\ UNCHANGED <<windowVars, disk>>

-----------------------------------------------------------------------------
User ==
  \/ PresentWindow \/ OpenDraft \/ CloseDraft \/ ApplySettings \/ RestoreDefaults \/ Cancel
  \/ \E f \in Fields, v \in Values : EditSetting(f, v)
  \/ \E choice \in Values : ApplyDraft(choice)

Reply(c) == ReplyIsIgnored(c) \/ ReplyIsLost(c) \/ ReplySucceeds(c) \/ ReplyFails(c)

SettingsNext ==
  \/ User \/ SubscriptionMessage \/ SubscriptionEnds \/ Reconnect
  \/ \E c \in Connections : Reply(c) \/ Execute(c) \/ Reject(c) \/ Refuse(c)
  \/ Publish \/ DropSubscription \/ Restart
  \/ \E f \in Fields, v \in Values : ForeignChange(f, v)

\* The application and the daemon go on; users, other clients and failures need not.

SettingsFairness ==
  /\ WF_settingsVars(SubscriptionMessage) /\ WF_settingsVars(SubscriptionEnds)
  /\ WF_settingsVars(Reconnect) /\ WF_settingsVars(Publish)
  /\ \A c \in Connections : WF_settingsVars(Reply(c))
                         /\ WF_settingsVars(Execute(c) \/ Reject(c))

SettingsSpec == SettingsInit /\ [][SettingsNext]_settingsVars /\ SettingsFairness

-----------------------------------------------------------------------------
\* Unless somebody else changed the daemon or a connection failed, Cancel closes
\* the window only when what was live before is live again and no request is
\* left that could still change it, however edits, drafts, replies and status
\* events overlapped.
ClosesAfterRollback ==
  [][Ready /\ ~Ready' /\ undisturbed =>
       /\ daemon.configuration = transaction.baseline
       /\ \A c \in Connections : request[c].stage # "sent"]_settingsVars

\* A draft that failed or was interrupted is never sent again by the window
\* itself: after a reconnection it sends something else than that choice.
DraftIsNotResubmitted ==
  [][\A c \in Connections :
       /\ request[c].stage # "sent" /\ request'[c].stage = "sent"
       /\ request'[c].operation = "output"
       => request'[c].target["output"] # abandoned']_settingsVars

\* Cancel closes the window, also when connections and replies were lost, unless
\* the user is asked (a change failed or the daemon has changed) or restores the
\* defaults instead.  Not in the scope: the tray's Quit while a draft is being
\* applied that is then given up.
CancelCloses ==
  []<>(\/ ~dialog.closing \/ ~Ready \/ ~transaction.cancelRequested
       \/ transaction.liveChangeFailed \/ transaction.conflict
       \/ transaction.desired # transaction.baseline)

\* settings-transaction.h: the defaults stay selected until the reconnection.
DefaultsStaySelected ==
  restored /\ Ready => transaction.desired = Defaults
=============================================================================
