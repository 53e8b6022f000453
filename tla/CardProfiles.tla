----------------------------- MODULE CardProfiles -----------------------------
(***************************************************************************)
(* The profiles of sound cards (pipewire_pipeline.cpp).                    *)
(*                                                                         *)
(* A setOutput request may switch the profiles of cards.  The control      *)
(* thread asks the main loop for one stage after the other: apply, the     *)
(* change of the output, verify, finalize, or roll back.  A card that was  *)
(* missing, or that comes back while the configuration remembers a profile *)
(* for it, has its profile restored by the main loop alone.  Both hold     *)
(* outputTransitionActive, and both and the output change use one timer.   *)
(*                                                                         *)
(* The daemon knows a card from snapshots of the registry.  What it has    *)
(* asked for is on its way until a snapshot shows the card has taken it;   *)
(* session managers and users interfere, cards come and go.                *)
(*                                                                         *)
(* The main loop begins a restoration between a load and a store of the    *)
(* flag, and the control thread may take it in between.  Every other       *)
(* handler is one step.                                                    *)
(*                                                                         *)
(* Outside: how streams and pipelines are replaced (OutputTransaction).    *)
(***************************************************************************)
EXTENDS Integers

CONSTANTS NumCards,
          Profiles,
          NodeCount,       \* 0 or 1 output node a profile exposes; None: not reported
          None,
          RequestDuringStart,  \* a request may arrive while a restoration begins
          Starts           \* profiles, intents and what cards refuse at the start, and
                           \* bounds: how many requests there are, and how often
                           \* others disturb the cards

Cards == 1 .. NumCards

Choice == [Cards -> Profiles \cup {None}]

\* What a card turns down: the other profiles, because they are unavailable or
\* would change an input; the one it shows as well, when that is unavailable; or
\* everything, because the card cannot be written.
Refusals == {"nothing", "others", "profiles", "all"}

ASSUME CardAssumption ==
  /\ NumCards \in Nat /\ None \notin Profiles /\ RequestDuringStart \in BOOLEAN
  /\ NodeCount \in [Profiles -> {0, 1, None}]
  /\ Starts \subseteq [profile : Choice, refuses : [Cards -> Refusals], intent : Choice,
                       commands : Nat, disturbances : Nat]

VARIABLES
  runtime,       \* what the main loop keeps, with its view of the cards
  intent,        \* the profile the running configuration remembers for a card
  staged,        \* a change of the output is staged, with the intent before it
  client,        \* the coroutine that serves setOutput
  stopped,
  disturbances, commandsLeft

vars == <<runtime, intent, staged, client, stopped, disturbances, commandsLeft>>

\* Nodes are "old" when a change has recorded their serials.  input: the
\* routes of the inputs are the ones that were recorded.
CardStates == [profile : Profiles \cup {None}, nodes : {"none", "old", "new"},
               input : BOOLEAN, refuses : Refusals]

Stages == {"apply", "change", "verify", "finalize", "rollback"}

Phases == {"idle", "applying", "settling", "prepared", "restoring"}

Restorations == [card : Cards, target : Profiles, previous : Profiles,
                 observed : BOOLEAN, settling : BOOLEAN, retries : 0 .. 2,
                 routesRequested : BOOLEAN]

Runtimes ==
  [cards : [Cards -> CardStates],
   asked : Choice,              \* profiles on their way to a card
   routes : SUBSET Cards,       \* cards whose inputs are being restored
   \* profileTransition
   phase : Phases, requested : Choice, optional : SUBSET Cards, previous : Choice,
   replaced : SUBSET Cards, missing : SUBSET Cards,
   routesRequested : SUBSET Cards, attempts : 0 .. 2,
   failure : SUBSET {"change", "restoration"},
   \* pendingProfileRestorations, the one in progress, and its rollback
   pending : Choice, restore : Restorations \cup {None}, rollback : BOOLEAN,
   outputTransitionActive : BOOLEAN,
   starting : BOOLEAN,          \* the flag is found free, and not taken yet
   timer : BOOLEAN,             \* outputChangeTimer is armed
   \* the event of the stage that was asked for, and its completion
   signaled : Stages \cup {"none"}, awaited : BOOLEAN,
   answer : {"none", "ok", "error"},
   \* what the last restoration reported, to its client or in the status
   report : SUBSET {"change", "restoration"}]

Idle == [pc |-> "idle", selection |-> [c \in Cards |-> None], optional |-> {},
         intent |-> [c \in Cards |-> None], before |-> [c \in Cards |-> None]]

Clients == [pc : {"idle", "apply", "change", "verify", "finalize", "rollback",
                  "undo", "revert"},
            selection : Choice, optional : SUBSET Cards, intent : Choice,
            before : Choice]

ASSUME NoneAssumption == None \notin Restorations \cup Choice

TypeOK ==
  /\ runtime \in Runtimes
  /\ intent \in Choice
  /\ staged \in Choice \cup {None}
  /\ client \in Clients
  /\ stopped \in BOOLEAN
  /\ disturbances \in Nat /\ commandsLeft \in Nat

NoCards == [c \in Cards |-> None]

NoTransition(r) ==
  [r EXCEPT !.phase = "idle", !.requested = NoCards, !.optional = {},
            !.previous = NoCards, !.replaced = {}, !.missing = {},
            !.routesRequested = {}, !.attempts = 0, !.failure = {}]

Exposed(p) == IF p = None \/ NodeCount[p] = 0 THEN "none" ELSE "new"

Init ==
  /\ \E s \in Starts :
     /\ runtime =
         [cards |-> [c \in Cards |-> [profile |-> s.profile[c], input |-> TRUE,
                                      nodes |-> Exposed(s.profile[c]),
                                      refuses |-> s.refuses[c]]],
          asked |-> NoCards, routes |-> {}, phase |-> "idle", requested |-> NoCards,
          optional |-> {}, previous |-> NoCards, replaced |-> {}, missing |-> {},
          routesRequested |-> {}, attempts |-> 0, failure |-> {}, pending |-> NoCards,
          restore |-> None, rollback |-> FALSE, outputTransitionActive |-> FALSE,
          starting |-> FALSE, timer |-> FALSE, signaled |-> "none",
          awaited |-> FALSE, answer |-> "none", report |-> {}]
     /\ intent = s.intent
     /\ commandsLeft = s.commands /\ disturbances = s.disturbances
  /\ staged = None /\ client = Idle /\ stopped = FALSE

-----------------------------------------------------------------------------
(* Cards. *)

Present(r, c) == r.cards[c].profile # None

Touched(r) == {c \in Cards : r.previous[c] # None}

First(S) == CHOOSE c \in S : \A d \in S : c <= d

Locked(r, c) == r.cards[c].refuses = "all"

\* setPipeWireOutputProfile.  Nothing is sent when the card shows the profile,
\* yet the card must permit it.
Accepts(r, c, p) ==
  /\ Present(r, c)
  /\ \/ r.cards[c].refuses = "nothing"
     \/ r.cards[c].refuses = "others" /\ r.cards[c].profile = p

Ask(r, c, p) ==
  IF r.cards[c].profile = p THEN r ELSE [r EXCEPT !.asked[c] = p]

\* The serials of the present nodes are recorded.
Recorded(r, S) ==
  [r EXCEPT !.cards = [c \in Cards |->
     IF c \in S /\ r.cards[c].nodes = "new" THEN [r.cards[c] EXCEPT !.nodes = "old"]
                                            ELSE r.cards[c]]]

Answered(r, a) == IF r.awaited THEN [r EXCEPT !.awaited = FALSE, !.answer = a] ELSE r

\* verifyAppliedProfileOutputs
OutputsVerified(r) ==
  \A c \in Cards : r.requested[c] # None =>
    \/ ~Present(r, c) /\ c \in r.optional
    \/ /\ r.cards[c].profile = r.requested[c]
       /\ NodeCount[r.requested[c]] # None =>
            /\ (r.cards[c].nodes = "none") = (NodeCount[r.requested[c]] = 0)
            /\ c \in r.replaced /\ NodeCount[r.requested[c]] = 1 =>
                 r.cards[c].nodes = "new"

DisturbedInputs(r) == {c \in Touched(r) : Present(r, c) /\ ~r.cards[c].input}

Verified(r) == OutputsVerified(r) /\ DisturbedInputs(r) = {}

-----------------------------------------------------------------------------
(* The transition of a request, and every rollback. *)

FinishRestoration(r) ==
  LET done == [Answered(NoTransition(r), IF r.failure = {} THEN "ok" ELSE "error")
                 EXCEPT !.timer = FALSE, !.report = r.failure]
  IN IF ~r.rollback THEN done
     ELSE [done EXCEPT
             !.pending = [c \in Cards |->
                IF c = r.restore.card /\ Present(r, c) THEN None ELSE r.pending[c]],
             !.rollback = FALSE, !.restore = None, !.outputTransitionActive = FALSE]

NotReserved(r, S) == r

\* queueProfileRestoration
Reserved(r, S) ==
  [r EXCEPT !.pending = [c \in Cards |-> IF c \in S THEN r.previous[c] ELSE @[c]]]

BeginRestoration(r, failure) ==
  LET gone     == {c \in Touched(r) : ~Present(r, c)}
      switched == {c \in Touched(r) \ gone : r.cards[c].profile # r.previous[c]}
      refusing == {c \in Touched(r) \ gone : ~Accepts(r, c, r.previous[c])}
      begun    == [Recorded(Reserved(r, gone), switched) EXCEPT
                     !.phase = "restoring", !.routesRequested = {},
                     !.replaced = switched, !.timer = TRUE,
                     !.failure = failure \cup IF refusing = {} THEN {} ELSE {"restoration"},
                     !.asked = [c \in Cards |->
                                  IF c \in switched \ refusing THEN r.previous[c]
                                                               ELSE r.asked[c]]]
  IN IF Touched(r) = {} THEN FinishRestoration(begun) ELSE begun

\* The first selected card that is not ready.
Lags(r, c, p) ==
  \/ r.cards[c].profile # p
  \/ /\ c \in r.replaced
     /\ \/ r.cards[c].nodes # Exposed(p)
        \/ NodeCount[p] = None /\ r.phase = "applying"

Lagging(r) ==
  LET selected == IF r.phase = "restoring" THEN r.previous ELSE r.requested
      excused  == {c \in Cards : ~Present(r, c) /\ (r.phase = "restoring" \/ c \in r.optional)}
  IN {c \in Cards \ excused : selected[c] # None /\ Lags(r, c, selected[c])}

RestoreInputs(r, S) ==
  [r EXCEPT !.routes = r.routes \cup {c \in S : ~r.cards[c].input}]

\* advanceProfileTransition, when it is restoring
AdvanceRestoration(r) ==
  LET c == First(DisturbedInputs(r))
  IN IF Lagging(r) # {} THEN r
     ELSE IF DisturbedInputs(r) = {} THEN FinishRestoration(r)
     ELSE IF c \in r.routesRequested THEN r
     ELSE [RestoreInputs(r, IF Locked(r, c) THEN {} ELSE {c}) EXCEPT
             !.routesRequested = @ \cup {c},
             !.failure = IF Locked(r, c) THEN @ \cup {"restoration"} ELSE @]

RollBack(r, failure) ==
  LET begun == BeginRestoration(r, failure)
  IN IF begun.phase = "restoring" THEN AdvanceRestoration(begun) ELSE begun

Abandons(r, c) ==
  \/ ~Present(r, c)
  \/ r.cards[c].profile = r.requested[c] /\ r.cards[c].nodes = "new"
     /\ NodeCount[r.requested[c]] = None

PreparedUnanswered(r) == [r EXCEPT !.phase = "prepared", !.timer = FALSE]

Prepared(r) == [Answered(r, "ok") EXCEPT !.phase = "prepared", !.timer = FALSE]

\* advanceProfileTransition, when it is applying
AdvanceApplication(r) ==
  LET c == First(DisturbedInputs(r))
  IN IF Lagging(r) # {}
     THEN IF Abandons(r, First(Lagging(r))) THEN RollBack(r, {"change"}) ELSE r
     ELSE IF DisturbedInputs(r) # {}
     THEN IF c \in r.routesRequested THEN r
          ELSE IF Locked(r, c) THEN RollBack(r, {"change"})
          ELSE [RestoreInputs(r, {c}) EXCEPT !.routesRequested = @ \cup {c}]
     ELSE IF r.replaced = {}
     THEN Prepared(r)
     ELSE [r EXCEPT !.phase = "settling", !.timer = TRUE]

Advance(r) == IF r.phase = "applying" THEN AdvanceApplication(r)
              ELSE IF r.phase = "restoring" THEN AdvanceRestoration(r)
              ELSE r

-----------------------------------------------------------------------------
(* The restoration of pending profiles. *)

\* Also when a request replaces what its cards were to be restored to.
Forget(r, S) ==
  [r EXCEPT !.pending = [c \in Cards |-> IF c \in S THEN None ELSE r.pending[c]]]

EndOfRestoreTimed(r) ==
  [r EXCEPT !.restore = None, !.outputTransitionActive = FALSE]

EndOfRestore(r) ==
  [r EXCEPT !.restore = None, !.outputTransitionActive = FALSE, !.timer = FALSE]

\* The profile before the restoration is brought back like that of a request.
RollBackRestore(r) ==
  LET back == [NoTransition(r) EXCEPT !.previous[r.restore.card] = r.restore.previous]
  IN RollBack([back EXCEPT !.rollback = TRUE], {"change"})

RetriedUntimed(r) ==
  [Ask(Recorded(r, {r.restore.card}), r.restore.card, r.restore.target) EXCEPT
     !.restore = [r.restore EXCEPT !.retries = r.restore.retries + 1, !.observed = FALSE]]

Retried(r) ==
  [Ask(Recorded(r, {r.restore.card}), r.restore.card, r.restore.target) EXCEPT
     !.restore = [r.restore EXCEPT !.retries = r.restore.retries + 1, !.observed = FALSE,
                                   !.routesRequested = FALSE],
     !.timer = TRUE]

CanRetry(r) ==
  r.restore.retries < 2 /\ Accepts(r, r.restore.card, r.restore.target)

\* advancePendingProfileRestorations, while the card shows the target
AdvanceTarget(r) ==
  LET card == r.cards[r.restore.card]
  IN IF card.nodes # Exposed(card.profile) /\ NodeCount[card.profile] # None THEN r
     ELSE IF card.input THEN [r EXCEPT !.restore.settling = TRUE,
                                       !.timer = @ \/ ~r.restore.settling]
     ELSE IF r.restore.routesRequested THEN r
     ELSE IF Locked(r, r.restore.card) THEN RollBackRestore(r)
     ELSE [RestoreInputs(r, {r.restore.card}) EXCEPT !.restore.routesRequested = TRUE]

\* The profiles that are restored already are dropped up to the first one that
\* is not; a card that cannot be set keeps its place.  The flag and the timer are
\* set by StoreTransitionActive.
StartRestore(r) ==
  LET due   == {c \in Cards : /\ r.pending[c] # None /\ Accepts(r, c, r.pending[c])
                              /\ r.cards[c].profile # r.pending[c]}
      met   == {c \in Cards : /\ r.pending[c] # None
                              /\ r.cards[c].profile = r.pending[c]
                              /\ \A d \in due : c < d}
      c     == First(due)
      asked == [Ask(Recorded(Forget(r, met), {c}), c, r.pending[c]) EXCEPT
                  !.cards[c].input = TRUE, !.routes = @ \ {c}, !.report = {},
                  !.restore = [card |-> c, target |-> r.pending[c],
                               previous |-> r.cards[c].profile, observed |-> FALSE,
                               settling |-> FALSE, retries |-> 0,
                               routesRequested |-> FALSE],
                  !.starting = TRUE]
  IN IF r.outputTransitionActive \/ r.phase # "idle" THEN r
     ELSE IF due = {} THEN Forget(r, met) ELSE asked

\* advancePendingProfileRestorations
AdvancePending(r) ==
  IF r.restore = None THEN StartRestore(r)
  ELSE IF r.cards[r.restore.card].profile = r.restore.target
       THEN AdvanceTarget([r EXCEPT !.restore.observed = TRUE])
  ELSE IF ~Present(r, r.restore.card) THEN StartRestore(EndOfRestore(r))
  ELSE IF ~r.restore.observed THEN r
  ELSE IF CanRetry(r) THEN [Retried(r) EXCEPT !.restore.settling = FALSE]
  ELSE RollBackRestore(Forget(r, {r.restore.card}))

\* The timer while a pending profile is restored.
RestoreTimeout(r) ==
  LET card == r.cards[r.restore.card]
  IN IF ~r.restore.settling
     THEN IF CanRetry(r) /\ card.profile # r.restore.target THEN Retried(r)
          ELSE RollBackRestore(r)
     ELSE IF card.profile # r.restore.target THEN AdvancePending(r)
     ELSE IF card.nodes = Exposed(card.profile) /\ card.input
     THEN EndOfRestore([Forget(r, {r.restore.card}) EXCEPT !.report = {}])
     ELSE RollBackRestore(r)

\* The timer while a transition settles.
SettleTimeout(r) ==
  IF Verified(r) THEN Prepared(r)
  ELSE IF OutputsVerified(r) /\ r.attempts < 2
  THEN IF \E c \in Touched(r) : Present(r, c) /\ Locked(r, c)
       THEN RollBack([r EXCEPT !.attempts = @ + 1], {"change"})
       ELSE [RestoreInputs(r, Touched(r)) EXCEPT !.attempts = @ + 1, !.timer = TRUE]
  ELSE RollBack(r, {"change"})

\* The main loop takes no other event before it has begun the restoration.
Dispatches == ~stopped /\ ~runtime.starting

\* A plain store, whoever has taken the flag since it was loaded.
StoreTransitionActive ==
  /\ runtime.starting
  /\ runtime' = [runtime EXCEPT !.starting = FALSE, !.outputTransitionActive = TRUE,
                                !.timer = TRUE]
  /\ UNCHANGED <<intent, staged, client, stopped, disturbances, commandsLeft>>

-----------------------------------------------------------------------------
(* The registry. *)

Fresh(c, p) ==
  {Exposed(p), "none"} \cup ({runtime.cards[c].nodes} \ {"new"})

Shown(c, card, asked, routes) ==
  [runtime EXCEPT !.cards[c] = card, !.asked[c] = asked, !.routes = routes]

\* What the next snapshot may show of a card, and what is still on its way.  The
\* card takes what it was asked for, or answers with an error.
Snapshots(c) ==
  LET card  == runtime.cards[c]
      asked == runtime.asked[c]
      Taken(input) ==
        {Shown(c, [card EXCEPT !.profile = asked, !.nodes = n, !.input = input],
               None, runtime.routes) :
           n \in IF asked = None \/ card.profile = None THEN {} ELSE Fresh(c, asked)}
  IN Taken(card.input) \cup Taken(FALSE)
     \cup {Shown(c, [card EXCEPT !.nodes = n], asked, runtime.routes) :
             n \in IF card.profile = None THEN {} ELSE {Exposed(card.profile)} \ {card.nodes}}
     \cup {Shown(c, [card EXCEPT !.input = TRUE], asked, runtime.routes \ {c}) :
             d \in runtime.routes \cap {c}}

\* A user, a session manager or a plug.
Interferences(c) ==
  LET card  == runtime.cards[c]
      asked == runtime.asked[c]
      Switched(nodes) ==
        {Shown(c, [card EXCEPT !.profile = p, !.nodes = nodes], asked, runtime.routes) :
           p \in Profiles \ {card.profile}}
  IN IF card.profile = None
     THEN {Shown(c, [card EXCEPT !.profile = p, !.nodes = Exposed(p)],
                 asked, runtime.routes) : p \in Profiles}
     ELSE Switched("none") \cup Switched("new")
          \cup {Shown(c, [card EXCEPT !.refuses = f], asked, runtime.routes) :
                  f \in IF Locked(runtime, c) THEN {}
                        ELSE Refusals \ {card.refuses, "all"}}
          \cup {Shown(c, [card EXCEPT !.input = FALSE], asked, runtime.routes),
                Shown(c, [card EXCEPT !.profile = None, !.nodes = "none", !.input = TRUE],
                      None, runtime.routes \ {c})}

\* A card that comes back is to have the profile the configuration remembers.
Returned(r, c) ==
  IF ~Present(runtime, c) /\ Present(r, c) /\ intent[c] # None /\ r.pending[c] = None
  THEN [r EXCEPT !.pending[c] = intent[c]] ELSE r

\* outputInventoryChanged
Handled(r) == IF Advance(r).phase # "idle" THEN Advance(r) ELSE AdvancePending(Advance(r))

InventoryChanged(c) ==
  /\ Dispatches
  /\ \/ /\ \E r \in Snapshots(c) : runtime' = Handled(Returned(r, c))
        /\ UNCHANGED disturbances
     \/ /\ disturbances > 0 /\ disturbances' = disturbances - 1
        /\ \E r \in Interferences(c) : runtime' = Handled(Returned(r, c))
  /\ UNCHANGED <<intent, staged, client, stopped, commandsLeft>>

-----------------------------------------------------------------------------
(* The stages of a request in the main loop. *)

Serves(stage) == Dispatches /\ runtime.signaled = stage

\* profileChangeRequested, apply.  The selections are taken in order up to the
\* first that fails.
Applied(r, selection, optional) ==
  LET selected == {c \in Cards : selection[c] # None}
      failing  == {c \in selected : ~Accepts(r, c, selection[c])
                                       /\ (Present(r, c) \/ c \notin optional)}
      taken    == {c \in selected : Present(r, c) /\ \A d \in failing : c <= d}
      switched == {c \in taken : r.cards[c].profile # selection[c]}
      started  == [Recorded(NoTransition(r), switched) EXCEPT
                     !.cards = [c \in Cards |-> IF c \in taken
                                                THEN [@[c] EXCEPT !.input = TRUE] ELSE @[c]],
                     !.routes = @ \ taken,
                     !.phase = "applying", !.requested = selection, !.optional = optional,
                     !.previous = [c \in Cards |-> IF c \in taken THEN r.cards[c].profile
                                                                  ELSE None],
                     !.replaced = switched,
                     !.missing = {c \in selected : ~Present(r, c)},
                     !.asked = [c \in Cards |-> IF c \in switched \ failing
                                                THEN selection[c] ELSE r.asked[c]],
                     !.timer = TRUE]
  IN IF failing # {} THEN RollBack(started, {"change"}) ELSE Advance(started)

\* The inventory may have moved on since the client read it.
ApplyProfiles ==
  /\ Serves("apply")
  /\ LET r == [runtime EXCEPT !.signaled = "none"]
     IN \/ runtime' = Answered(r, "error")
        \/ runtime' = Applied(r, client.selection, client.optional)
  /\ UNCHANGED <<intent, staged, client, stopped, disturbances, commandsLeft>>

\* An output of the configuration may be missing although its card is right.
VerifyProfiles ==
  /\ Serves("verify")
  /\ \E connected \in BOOLEAN :
       runtime' = Answered([runtime EXCEPT !.signaled = "none"],
                           IF Verified(runtime) /\ connected THEN "ok" ELSE "error")
  /\ UNCHANGED <<intent, staged, client, stopped, disturbances, commandsLeft>>

Finalized(r) ==
  [Answered(NoTransition(r), "ok") EXCEPT
     !.timer = FALSE,
     !.pending = [c \in Cards |-> IF c \in r.missing THEN r.requested[c]
                                  ELSE IF r.requested[c] # None THEN None
                                  ELSE r.pending[c]]]

FinalizeProfiles ==
  /\ Serves("finalize")
  /\ LET r == [runtime EXCEPT !.signaled = "none"]
     IN runtime' = IF Verified(r) THEN Finalized(r) ELSE Answered(r, "error")
  /\ UNCHANGED <<intent, staged, client, stopped, disturbances, commandsLeft>>

RollBackProfiles ==
  /\ Serves("rollback")
  /\ runtime' = RollBack([runtime EXCEPT !.signaled = "none"], runtime.failure)
  /\ UNCHANGED <<intent, staged, client, stopped, disturbances, commandsLeft>>

Unverified == runtime.phase = "prepared" /\ ~Verified(runtime)

\* discardReplacedProfileRestorations
Discarded(r, before, after) == Forget(r, {c \in Cards : before[c] # after[c]})

\* outputChangeRequested: refused, without an effect on the streams, or staged.
ChangeOutput ==
  /\ Serves("change")
  /\ LET r == [runtime EXCEPT !.signaled = "none"]
     IN \/ /\ runtime' = Answered(r, "error")
           /\ UNCHANGED <<intent, staged>>
        \/ /\ ~Unverified
           /\ runtime' = Answered(Discarded(r, intent, client.intent), "ok")
           /\ intent' = client.intent
           /\ UNCHANGED staged
        \/ /\ ~Unverified
           /\ runtime' = [r EXCEPT !.timer = TRUE]
           /\ staged' = intent /\ intent' = client.intent
  /\ UNCHANGED <<client, stopped, disturbances, commandsLeft>>

\* finishOutputChange
CommitOutput ==
  /\ Dispatches /\ staged # None /\ ~Unverified
  /\ runtime' = Answered([Discarded(runtime, staged, intent) EXCEPT !.timer = FALSE], "ok")
  /\ staged' = None
  /\ UNCHANGED <<intent, client, stopped, disturbances, commandsLeft>>

\* An error of the graph, the deadline, or cards that are not as they were.
RollBackOutput ==
  /\ Dispatches /\ staged # None
  /\ runtime' = Answered([runtime EXCEPT !.timer = FALSE], "error")
  /\ intent' = staged /\ staged' = None
  /\ UNCHANGED <<client, stopped, disturbances, commandsLeft>>

\* outputChangeTimer.  When nothing waits, the daemon takes it for a failure.
Timeout(r) ==
  CASE r.phase = "settling"  -> SettleTimeout(r)
    [] r.phase = "applying"  -> RollBack(r, {"change"})
    [] r.phase = "restoring" -> FinishRestoration([r EXCEPT !.failure = @ \cup {"restoration"}])
    [] OTHER                 -> IF r.restore = None THEN r ELSE RestoreTimeout(r)

TimerFires ==
  /\ Dispatches /\ runtime.timer
  /\ staged = None \/ runtime.phase \notin {"idle", "prepared"} \/ runtime.restore # None
  /\ runtime' = Timeout([runtime EXCEPT !.timer = FALSE])
  /\ stopped' = (runtime.phase \in {"idle", "prepared"} /\ runtime.restore = None)
  /\ UNCHANGED <<intent, staged, client, disturbances, commandsLeft>>

\* completeRuntime and failRuntime
Stop ==
  /\ Dispatches /\ stopped' = TRUE
  /\ runtime' = Answered([runtime EXCEPT !.signaled = "none"], "error")
  /\ UNCHANGED <<intent, staged, client, disturbances, commandsLeft>>

-----------------------------------------------------------------------------
(* The control thread. *)

\* requestOutputProfileStage and requestLiveOutputChange
Requested(r, stage) ==
  IF stopped THEN [r EXCEPT !.answer = "error"]
  ELSE [r EXCEPT !.signaled = stage, !.awaited = TRUE, !.answer = "none"]

SetOutput(selection, optional, remembered) ==
  LET stage == IF selection = NoCards THEN "change" ELSE "apply"
  IN /\ client.pc = "idle" /\ commandsLeft > 0 /\ ~stopped
     /\ ~runtime.outputTransitionActive /\ (RequestDuringStart \/ ~runtime.starting)
     /\ runtime' = [Requested(runtime, stage) EXCEPT !.outputTransitionActive = TRUE]
     /\ client' = [pc |-> stage, selection |-> selection, optional |-> optional,
                   intent |-> remembered, before |-> intent]
     /\ commandsLeft' = commandsLeft - 1
     /\ UNCHANGED <<intent, staged, stopped, disturbances>>

Proceed(pc, stage) ==
  /\ runtime' = Requested([runtime EXCEPT !.answer = "none"], stage)
  /\ client' = [client EXCEPT !.pc = pc,
                              !.intent = IF pc = "revert" THEN client.before ELSE @]

\* Returning releases the flag; success clears the diagnostic.
Return(succeeded) ==
  /\ runtime' = [runtime EXCEPT !.answer = "none", !.outputTransitionActive = FALSE,
                                !.report = IF succeeded THEN {} ELSE @]
  /\ client' = Idle

\* After its profiles are applied the outputs may not be those of the request.
Resume ==
  /\ runtime.answer # "none"
  /\ LET ok == runtime.answer = "ok"
     IN \/ client.pc = "apply" /\ ok /\ Proceed("change", "change")
        \/ client.pc = "apply" /\ ok /\ Proceed("rollback", "rollback")
        \/ client.pc = "apply" /\ ~ok /\ Return(FALSE)
        \/ client.pc = "change" /\ client.selection = NoCards /\ Return(ok)
        \/ /\ client.pc = "change" /\ client.selection # NoCards
           /\ IF ok THEN Proceed("verify", "verify") ELSE Proceed("rollback", "rollback")
        \/ /\ client.pc = "verify"
           /\ IF ok THEN Proceed("finalize", "finalize") ELSE Proceed("undo", "rollback")
        \/ client.pc = "finalize" /\ ok /\ Return(TRUE)
        \/ client.pc = "finalize" /\ ~ok /\ Proceed("undo", "rollback")
        \/ client.pc = "undo" /\ Proceed("revert", "change")
        \/ client.pc \in {"rollback", "revert"} /\ Return(FALSE)
  /\ UNCHANGED <<intent, staged, stopped, disturbances, commandsLeft>>

\* The configuration remembers the selected profiles, or no profile; a request
\* that restores what was before goes on without the cards that are missing.
Receive ==
  \E selection \in Choice :
    LET selected == {c \in Cards : selection[c] # None}
    IN \E optional \in {{}, selected},
          remembered \in {NoCards, [c \in Cards |-> IF c \in selected THEN selection[c]
                                                               ELSE intent[c]]} :
         SetOutput(selection, optional, remembered)

MainLoop ==
  \/ StoreTransitionActive
  \/ ApplyProfiles \/ VerifyProfiles \/ FinalizeProfiles \/ RollBackProfiles
  \/ ChangeOutput \/ CommitOutput \/ RollBackOutput

Next ==
  \/ Receive \/ Resume
  \/ MainLoop \/ TimerFires \/ Stop
  \/ \E c \in Cards : InventoryChanged(c)

Spec == Init /\ [][Next]_vars
             /\ WF_vars(MainLoop) /\ WF_vars(TimerFires) /\ WF_vars(Resume)

-----------------------------------------------------------------------------
(* Properties. *)

\* A restoration of the main loop holds the flag.
HoldsFlag == runtime.restore # None /\ ~runtime.starting

Waiting ==
  \/ runtime.phase \in {"applying", "settling", "restoring"}
  \/ HoldsFlag
  \/ staged # None

DeadlineHasOwner == ~stopped => runtime.timer = Waiting

\* While a request changes the outputs, no restoration of the main loop does: the
\* two share one transition, one timer and one pair of rollback profiles.
OneTransitionAtATime == ~stopped => ~(client.pc # "idle" /\ HoldsFlag)

FlagHasOneOwner ==
  ~stopped =>
    /\ runtime.outputTransitionActive = (client.pc # "idle" \/ HoldsFlag)
    /\ client.pc = "idle" => staged = None
    /\ client.pc = "idle" /\ runtime.restore = None => runtime.phase = "idle"

\* Requests, restorations and output changes share one timer and one flag.
\* Whatever waits has its deadline, and no deadline is left behind: an expiry
\* that nobody waits for would stop the daemon.  Of the client and the main loop
\* at most one holds the flag, and while it is free no transition, restoration
\* or staged change is left over.  All of it needs that no request takes the flag
\* between the load and the store with which the main loop begins a restoration.
TransitionHasOneOwner == DeadlineHasOwner /\ OneTransitionAtATime /\ FlagHasOneOwner

RollsBack ==
  \/ runtime.phase \in {"applying", "settling"}
  \/ runtime.phase = "prepared" /\ client.pc \in {"rollback", "undo"}

\* A change that is rolled back accounts for every card it touched.  A card that
\* is away has a restoration pending.  When the rollback is over the others show
\* their old profile, unless it reports that one could not be restored; a switch
\* that is still on its way may follow (see Ask).
RollbackIsAccounted ==
  [][/\ RollsBack /\ runtime'.phase \in {"restoring", "idle"} =>
          \A c \in Touched(runtime) :
            Present(runtime', c) \/ runtime'.pending[c] = runtime.previous[c]
     /\ (RollsBack \/ runtime.phase = "restoring") /\ runtime'.phase = "idle" =>
          \A c \in Touched(runtime) :
            \/ ~Present(runtime', c)
            \/ runtime'.cards[c].profile = runtime.previous[c]
            \/ "restoration" \in runtime'.report]_vars

\* Each setOutput is answered.
SetOutputIsAnswered == []<>(client.pc = "idle")

\* A restoration ends, however often others override it.
RestorationEnds == []<>(runtime.restore = None \/ stopped)

=============================================================================
