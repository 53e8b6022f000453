------------------------- MODULE CardProfilesProofs -------------------------
(***************************************************************************)
(* The profiles of sound cards, for any cards, profiles, nodes and bounds. *)
(* The transition of a request and the restorations of the main loop share *)
(* one flag and one timer, and no property of them is inductive.  The      *)
(* invariant says what the main loop may hold while no client waits        *)
(* (MainLoopInv), and in which of three states the request of a client is  *)
(* (ClientInv): asked for (Asks), begun with a deadline (Waits), or        *)
(* answered in the phase from which the client goes on (IsAnswered).  A    *)
(* restoration that settles has been observed: nothing else keeps the      *)
(* deadline when others override it.  While the main loop begins one, the  *)
(* flag is still free (Begins): a request that arrived then would own the  *)
(* transition as well.  Therefore the theorems suppose that none does      *)
(* (~RequestDuringStart).                                                  *)
(*                                                                         *)
(* Most lemmas say what an operator on the runtime leaves: who owns the    *)
(* transition (SameOwner, Ended), how it goes on (GoesOn, IsPrepared,      *)
(* GoesBack), and which profiles and restorations it keeps.  The actions   *)
(* only put them together.                                                 *)
(***************************************************************************)
EXTENDS CardProfiles, TLAPS, WellFoundedInduction

\* What a request for stage returns to is idle before the first profile is
\* applied and after the last one is settled or rolled back.
Stage(pc) == CASE pc = "undo" -> "rollback" [] pc = "revert" -> "change" [] OTHER -> pc

AskedIn(c) ==
  IF c.pc \in {"apply", "revert"} \/ c.selection = NoCards THEN "idle" ELSE "prepared"

\* Nobody has asked the main loop for anything, and no answer waits.
Unasked(r) == r.signaled = "none" /\ ~r.awaited /\ r.answer = "none"

\* The main loop has found the flag free, and has not taken it yet.
Begins(r) ==
  /\ r.starting /\ r.phase = "idle" /\ ~r.rollback /\ ~r.timer
  /\ ~r.outputTransitionActive /\ Unasked(r)
  /\ ~r.restore.settling

\* A restoration that the main loop began, and its rollback.
Restores(r) ==
  /\ ~r.starting /\ r.outputTransitionActive /\ r.timer /\ Unasked(r)
  /\ IF r.rollback THEN r.phase = "restoring"
     ELSE r.phase = "idle" /\ (r.restore.settling => r.restore.observed)

Rests(r) ==
  /\ r.phase = "idle" /\ ~r.rollback /\ ~r.timer
  /\ ~r.starting /\ ~r.outputTransitionActive /\ Unasked(r)

\* The main loop rests, is about to hold the flag for a restoration, or holds it.
LoopOK(r) == IF r.restore = None THEN Rests(r) ELSE Begins(r) \/ Restores(r)

MainLoopInv ==
  client.pc = "idle" =>
    staged = None /\ LoopOK(runtime)

\* The request is on its way to the main loop.
Asks(r) ==
  /\ r.signaled = Stage(client.pc) /\ r.awaited /\ r.answer = "none"
  /\ ~r.timer /\ staged = None /\ r.phase = AskedIn(client)

\* The main loop has begun what was asked for, and has a deadline for it.
Waits(r) ==
  /\ r.signaled = "none" /\ r.awaited /\ r.answer = "none" /\ r.timer
  /\ \/ /\ client.pc \in {"change", "revert"} /\ staged # None
        /\ r.phase = AskedIn(client)
     \/ /\ client.pc = "apply" /\ staged = None
        /\ \/ r.phase \in {"applying", "settling"}
           \/ r.phase = "restoring" /\ r.failure # {}
     \/ client.pc \in {"rollback", "undo"} /\ staged = None /\ r.phase = "restoring"

\* The phase the stage has left when the client reads its answer.
AnsweredIn(c, ok) ==
  CASE c.pc = "apply"                -> IF ok THEN "prepared" ELSE "idle"
    [] c.pc = "finalize"             -> IF ok THEN "idle" ELSE "prepared"
    [] c.pc \in {"rollback", "undo"} -> "idle"
    [] OTHER                         -> AskedIn(c)

IsAnswered(r) ==
  /\ r.signaled = "none" /\ ~r.awaited /\ r.answer # "none"
  /\ ~r.timer /\ staged = None
  /\ r.phase = AnsweredIn(client, r.answer = "ok")

\* The request holds the flag.
Holds(r) ==
  r.restore = None /\ ~r.starting /\ ~r.rollback /\ r.outputTransitionActive

ClientOK(r) == Holds(r) /\ (Asks(r) \/ Waits(r) \/ IsAnswered(r))

ClientInv ==
  client.pc # "idle" =>
    /\ ClientOK(runtime)
    /\ client.pc # "change" => client.selection # NoCards

OwnerInv == ~stopped => MainLoopInv /\ ClientInv

-----------------------------------------------------------------------------
(* What the operators on the runtime keep. *)

SameProfiles(q, r) == \A c \in Cards : q.cards[c].profile = r.cards[c].profile

\* Who holds the flag, and the stage that was asked for.
SameOwner(q, r) ==
  /\ q.restore = r.restore /\ q.rollback = r.rollback
  /\ q.outputTransitionActive = r.outputTransitionActive /\ q.starting = r.starting
  /\ q.signaled = r.signaled /\ q.awaited = r.awaited /\ q.answer = r.answer

SameTransition(q, r) ==
  /\ q.phase = r.phase /\ q.timer = r.timer /\ q.failure = r.failure
  /\ q.previous = r.previous /\ q.report = r.report

Same(q, r) ==
  /\ SameOwner(q, r) /\ SameTransition(q, r)
  /\ q.pending = r.pending /\ SameProfiles(q, r)

LEMMA NothingChosen == NoCards \in Choice /\ \A c \in Cards : NoCards[c] = None
  BY DEF NoCards, Choice

LEMMA Sets ==
  /\ {} \in SUBSET Cards /\ {} \in SUBSET {"change", "restoration"} /\ 0 \in 0 .. 2
  /\ {"change"} \in SUBSET {"change", "restoration"}
  OBVIOUS

\* The first of some cards is one of them.
LEMMA FirstIsOne ==
  ASSUME NEW S \in SUBSET Cards, S # {}
  PROVE  First(S) \in S
<1>1. Cards \subseteq Nat
  BY CardAssumption DEF Cards
<1> DEFINE Less == OpToRel(<, Nat)
<1>2. IsWellFoundedOn(Less, Nat)
  BY NatLessThanWellFounded
<1>3. ASSUME NEW x \in Nat, NEW y \in Nat, <<y, x>> \notin Less PROVE x <= y
  BY <1>3 DEF OpToRel
<1> HIDE DEF Less
<1>4. PICK x \in S : \A y \in S : ~(<<y, x>> \in Less)
  BY <1>1, <1>2, WFMin
<1>5. \A y \in S : x <= y
  BY <1>1, <1>3, <1>4
<1> QED
  BY <1>5 DEF First

LEMMA CardTypes ==
  ASSUME NEW r \in Runtimes, NEW c \in Cards
  PROVE  /\ r.cards[c] \in CardStates /\ r.cards[c].profile \in Profiles \cup {None}
         /\ r.previous[c] \in Profiles \cup {None} /\ r.pending[c] \in Profiles \cup {None}
         /\ r.requested[c] \in Profiles \cup {None}
         /\ Present(r, c) => r.cards[c].profile \in Profiles
  BY DEF Runtimes, CardStates, Choice, Present

LEMMA CardEdits ==
  ASSUME NEW card \in CardStates
  PROVE  /\ \A n \in {"none", "old", "new"} :
              /\ [card EXCEPT !.nodes = n] \in CardStates
              /\ [card EXCEPT !.nodes = n].profile = card.profile
         /\ \A i \in BOOLEAN :
              /\ [card EXCEPT !.input = i] \in CardStates
              /\ [card EXCEPT !.input = i].profile = card.profile
  BY DEF CardStates

\* Another picture of the cards changes nothing else.
LEMMA CardsReplaced ==
  ASSUME NEW r \in Runtimes, NEW f \in [Cards -> CardStates],
         \A c \in Cards : f[c].profile = r.cards[c].profile
  PROVE  [r EXCEPT !.cards = f] \in Runtimes /\ Same([r EXCEPT !.cards = f], r)
<1>1. [r EXCEPT !.cards = f] \in Runtimes
  BY Zenon DEF Runtimes
<1> QED
  BY <1>1 DEF Runtimes, Same, SameOwner, SameTransition, SameProfiles

LEMMA RecordedOutcome ==
  ASSUME NEW r \in Runtimes, NEW S \in SUBSET Cards
  PROVE  Recorded(r, S) \in Runtimes /\ Same(Recorded(r, S), r)
<1> DEFINE f == [c \in Cards |->
                   IF c \in S /\ r.cards[c].nodes = "new"
                   THEN [r.cards[c] EXCEPT !.nodes = "old"] ELSE r.cards[c]]
<1>1. f \in [Cards -> CardStates] /\ \A c \in Cards : f[c].profile = r.cards[c].profile
  BY CardTypes, CardEdits
<1> HIDE DEF f
<1>2. [r EXCEPT !.cards = f] \in Runtimes /\ Same([r EXCEPT !.cards = f], r)
  BY <1>1, CardsReplaced
<1> QED
  BY <1>2 DEF Recorded, f

LEMMA AskedReplaced ==
  ASSUME NEW r \in Runtimes, NEW f \in Choice
  PROVE  [r EXCEPT !.asked = f] \in Runtimes /\ Same([r EXCEPT !.asked = f], r)
<1>1. [r EXCEPT !.asked = f] \in Runtimes
  BY Zenon DEF Runtimes
<1> QED
  BY <1>1 DEF Runtimes, Same, SameOwner, SameTransition, SameProfiles

LEMMA AskOutcome ==
  ASSUME NEW r \in Runtimes, NEW c \in Cards, NEW p \in Profiles
  PROVE  Ask(r, c, p) \in Runtimes /\ Same(Ask(r, c, p), r)
<1>1. [r.asked EXCEPT ![c] = p] \in Choice
  BY DEF Runtimes, Choice
<1>2. CASE r.cards[c].profile = p
  BY <1>2 DEF Ask, Same, SameOwner, SameTransition, SameProfiles
<1>3. CASE r.cards[c].profile # p
  BY <1>1, <1>3, AskedReplaced DEF Ask
<1> QED
  BY <1>2, <1>3

LEMMA RestoreInputsOutcome ==
  ASSUME NEW r \in Runtimes, NEW S \in SUBSET Cards
  PROVE  RestoreInputs(r, S) \in Runtimes /\ Same(RestoreInputs(r, S), r)
<1> DEFINE f == r.routes \cup {c \in S : ~r.cards[c].input}
<1>1. f \in SUBSET Cards
  BY DEF Runtimes
<1> HIDE DEF f
<1>2. [r EXCEPT !.routes = f] \in Runtimes
  BY <1>1, Zenon DEF Runtimes
<1>3. Same([r EXCEPT !.routes = f], r)
  BY <1>2 DEF Runtimes, Same, SameOwner, SameTransition, SameProfiles
<1> QED
  BY <1>2, <1>3 DEF RestoreInputs, f

\* Other pending restorations change nothing else.
LEMMA PendingReplaced ==
  ASSUME NEW r \in Runtimes, NEW f \in Choice
  PROVE  LET q == [r EXCEPT !.pending = f]
         IN /\ q \in Runtimes /\ q.pending = f
            /\ SameOwner(q, r) /\ SameTransition(q, r) /\ q.cards = r.cards
<1>1. [r EXCEPT !.pending = f] \in Runtimes
  BY Zenon DEF Runtimes
<1> QED
  BY <1>1 DEF Runtimes, SameOwner, SameTransition

LEMMA ForgetOutcome ==
  ASSUME NEW r \in Runtimes, NEW S
  PROVE  /\ Forget(r, S) \in Runtimes
         /\ SameOwner(Forget(r, S), r) /\ SameTransition(Forget(r, S), r)
         /\ Forget(r, S).cards = r.cards
         /\ \A c \in Cards : Forget(r, S).pending[c] = IF c \in S THEN None ELSE r.pending[c]
<1> DEFINE f == [c \in Cards |-> IF c \in S THEN None ELSE r.pending[c]]
<1>1. f \in Choice /\ \A c \in Cards : f[c] = IF c \in S THEN None ELSE r.pending[c]
  BY CardTypes DEF Choice
<1> HIDE DEF f
<1> QED
  BY <1>1, PendingReplaced DEF Forget, f

LEMMA ReservedOutcome ==
  ASSUME NEW r \in Runtimes, NEW S \in SUBSET Cards
  PROVE  /\ Reserved(r, S) \in Runtimes
         /\ SameOwner(Reserved(r, S), r) /\ SameTransition(Reserved(r, S), r)
         /\ Reserved(r, S).cards = r.cards
         /\ \A c \in Cards :
              Reserved(r, S).pending[c] = IF c \in S THEN r.previous[c] ELSE r.pending[c]
<1> DEFINE f == [c \in Cards |-> IF c \in S THEN r.previous[c] ELSE r.pending[c]]
<1>1. f \in Choice /\ \A c \in Cards : f[c] = IF c \in S THEN r.previous[c] ELSE r.pending[c]
  BY CardTypes DEF Choice
<1>2. Reserved(r, S) = [r EXCEPT !.pending = f]
  BY DEF Reserved
<1> HIDE DEF f
<1> QED
  BY <1>1, <1>2, PendingReplaced

LEMMA NoTransitionOutcome ==
  ASSUME NEW r \in Runtimes
  PROVE  LET q == NoTransition(r)
         IN /\ q \in Runtimes /\ SameOwner(q, r)
            /\ q.cards = r.cards /\ q.pending = r.pending
            /\ q.timer = r.timer /\ q.report = r.report
            /\ q.phase = "idle" /\ q.previous = NoCards /\ q.failure = {}
<1>1. "idle" \in Phases
  BY DEF Phases
<1>2. NoTransition(r) \in Runtimes
  BY <1>1, NothingChosen, Sets, Zenon DEF Runtimes, NoTransition
<1> QED
  BY <1>2 DEF Runtimes, NoTransition, SameOwner

LEMMA AnsweredOutcome ==
  ASSUME NEW r \in Runtimes, NEW a \in {"ok", "error"}
  PROVE  LET q == Answered(r, a)
         IN /\ q \in Runtimes /\ SameTransition(q, r)
            /\ q.cards = r.cards /\ q.pending = r.pending
            /\ q.restore = r.restore /\ q.rollback = r.rollback
            /\ q.outputTransitionActive = r.outputTransitionActive
            /\ q.starting = r.starting
            /\ q.signaled = r.signaled /\ ~q.awaited
            /\ q.answer = IF r.awaited THEN a ELSE r.answer
<1>1. CASE r.awaited
  <2>1. /\ a \in {"none", "ok", "error"} /\ FALSE \in BOOLEAN
        /\ Answered(r, a) = [r EXCEPT !.awaited = FALSE, !.answer = a]
    BY <1>1 DEF Answered
  <2>2. Answered(r, a) \in Runtimes
    BY <2>1, Zenon DEF Runtimes
  <2> QED
    BY <1>1, <2>1, <2>2 DEF Runtimes, SameTransition
<1>2. CASE ~r.awaited
  BY <1>2 DEF Answered, SameTransition
<1> QED
  BY <1>1, <1>2

-----------------------------------------------------------------------------
(* What the transition of a request, and every rollback, leave. *)

\* The transition is over: who waited is answered, and a restoration that was
\* rolled back lets go of the flag.
Ended(q, r) ==
  /\ q.phase = "idle" /\ ~q.timer /\ q.signaled = r.signaled /\ ~q.awaited
  /\ q.starting = r.starting
  /\ IF r.awaited THEN q.answer # "none" ELSE q.answer = r.answer
  /\ IF r.rollback
     THEN q.restore = None /\ ~q.rollback /\ ~q.outputTransitionActive
     ELSE /\ q.restore = r.restore /\ ~q.rollback
          /\ q.outputTransitionActive = r.outputTransitionActive

KeepsAbsent(q, r) == \A c \in Cards : ~Present(r, c) => q.pending[c] = r.pending[c]

\* What a transition has touched, and the card is there, is as it was before.
AllBack(q, r) ==
  \A c \in Touched(r) : Present(q, c) => q.cards[c].profile = r.previous[c]

\* A transition on its way back stays there, or is over.
GoesBack(q, r, failure) ==
  \/ /\ q.phase = "restoring" /\ SameOwner(q, r) /\ q.previous = r.previous
     /\ failure \subseteq q.failure
  \/ /\ Ended(q, r) /\ AllBack(q, r)
     /\ r.awaited /\ failure # {} => q.answer = "error"

LEMMA FinishOutcome ==
  ASSUME NEW r \in Runtimes
  PROVE  LET q == FinishRestoration(r)
         IN /\ q \in Runtimes /\ Ended(q, r) /\ q.report = r.failure
            /\ SameProfiles(q, r) /\ KeepsAbsent(q, r)
            /\ r.awaited /\ r.failure # {} => q.answer = "error"
<1> DEFINE n == NoTransition(r)
           a == IF r.failure = {} THEN "ok" ELSE "error"
           answered == Answered(n, a)
           done == [answered EXCEPT !.timer = FALSE, !.report = r.failure]
           f == [c \in Cards |->
                   IF c = r.restore.card /\ Present(r, c) THEN None ELSE r.pending[c]]
           q == [done EXCEPT !.pending = f, !.rollback = FALSE, !.restore = None,
                             !.outputTransitionActive = FALSE]
<1>1. /\ n \in Runtimes /\ SameOwner(n, r) /\ n.cards = r.cards /\ n.pending = r.pending
      /\ n.phase = "idle"
  BY NoTransitionOutcome
<1>2. a \in {"ok", "error"} /\ (r.failure # {} => a = "error")
  OBVIOUS
<1> HIDE DEF n, a
<1>3. /\ answered \in Runtimes /\ answered.cards = r.cards /\ answered.pending = r.pending
      /\ answered.restore = r.restore /\ answered.rollback = r.rollback
      /\ answered.outputTransitionActive = r.outputTransitionActive
      /\ answered.starting = r.starting
      /\ answered.phase = "idle" /\ answered.signaled = r.signaled /\ ~answered.awaited
      /\ answered.answer = IF r.awaited THEN a ELSE r.answer
  BY <1>1, <1>2, AnsweredOutcome DEF SameOwner, SameTransition
<1> HIDE DEF answered
<1>4. r.failure \in SUBSET {"change", "restoration"} /\ FALSE \in BOOLEAN
      /\ r.rollback \in BOOLEAN /\ r.awaited \in BOOLEAN
  BY DEF Runtimes
<1>5. done \in Runtimes
  BY <1>3, <1>4, Zenon DEF Runtimes
<1>6. /\ ~done.timer /\ done.report = r.failure
      /\ done.cards = r.cards /\ done.pending = r.pending
      /\ done.restore = r.restore /\ done.rollback = r.rollback
      /\ done.outputTransitionActive = r.outputTransitionActive
      /\ done.starting = r.starting
      /\ done.phase = "idle" /\ done.signaled = r.signaled /\ ~done.awaited
      /\ done.answer = IF r.awaited THEN a ELSE r.answer
  BY <1>3 DEF Runtimes
<1> HIDE DEF done
<1>7. f \in Choice /\ \A c \in Cards : ~Present(r, c) => f[c] = r.pending[c]
  BY CardTypes DEF Choice
<1>8. FinishRestoration(r) = IF ~r.rollback THEN done ELSE q
  BY <1>6, Zenon DEF FinishRestoration, done, answered, a, n
<1> HIDE DEF f
<1>9. CASE ~r.rollback
  BY <1>2, <1>4, <1>5, <1>6, <1>8, <1>9 DEF Ended, SameProfiles, KeepsAbsent
<1>10. CASE r.rollback
  <2>1. q \in Runtimes
    BY <1>4, <1>5, <1>7, Zenon DEF Runtimes
  <2>2. /\ ~q.timer /\ q.report = r.failure /\ q.cards = r.cards /\ q.pending = f
        /\ q.restore = None /\ ~q.rollback /\ ~q.outputTransitionActive
        /\ q.starting = r.starting
        /\ q.phase = "idle" /\ q.signaled = r.signaled /\ ~q.awaited
        /\ q.answer = IF r.awaited THEN a ELSE r.answer
    BY <1>5, <1>6 DEF Runtimes
  <2> HIDE DEF q
  <2> QED
    BY <1>2, <1>7, <1>8, <1>10, <2>1, <2>2 DEF Ended, SameProfiles, KeepsAbsent
<1> QED
  BY <1>9, <1>10

LEMMA BeginOutcome ==
  ASSUME NEW r \in Runtimes, NEW failure \in SUBSET {"change", "restoration"}
  PROVE  LET q == BeginRestoration(r, failure)
         IN /\ q \in Runtimes /\ SameProfiles(q, r)
            /\ \A c \in Touched(r) : ~Present(r, c) => q.pending[c] = r.previous[c]
            /\ IF Touched(r) = {}
               THEN Ended(q, r) /\ (r.awaited /\ failure # {} => q.answer = "error")
               ELSE /\ q.phase = "restoring" /\ SameOwner(q, r) /\ q.timer
                    /\ q.previous = r.previous /\ failure \subseteq q.failure
<1> DEFINE gone     == {c \in Touched(r) : ~Present(r, c)}
           switched == {c \in Touched(r) \ gone : r.cards[c].profile # r.previous[c]}
           refusing == {c \in Touched(r) \ gone : ~Accepts(r, c, r.previous[c])}
           recorded == Recorded(Reserved(r, gone), switched)
           failed   == failure \cup IF refusing = {} THEN {} ELSE {"restoration"}
           asked    == [c \in Cards |-> IF c \in switched \ refusing THEN r.previous[c]
                                                                     ELSE r.asked[c]]
           begun    == [recorded EXCEPT
                          !.phase = "restoring", !.routesRequested = {},
                          !.replaced = switched, !.timer = TRUE, !.failure = failed,
                          !.asked = asked]
<1>1. gone \in SUBSET Cards /\ switched \in SUBSET Cards /\ gone \subseteq Touched(r)
      /\ \A c \in Touched(r) : ~Present(r, c) => c \in gone
  BY DEF Touched
<1>2. failed \in SUBSET {"change", "restoration"} /\ failure \subseteq failed
  OBVIOUS
<1>3. asked \in Choice
  BY CardTypes DEF Choice, Runtimes
<1>4. BeginRestoration(r, failure) =
        IF Touched(r) = {} THEN FinishRestoration(begun) ELSE begun
  BY Zenon DEF BeginRestoration
<1>5. "restoring" \in Phases /\ TRUE \in BOOLEAN
  BY DEF Phases
<1> HIDE DEF gone, switched, failed, asked
<1>6. /\ Reserved(r, gone) \in Runtimes /\ SameOwner(Reserved(r, gone), r)
      /\ SameTransition(Reserved(r, gone), r) /\ Reserved(r, gone).cards = r.cards
      /\ \A c \in Cards : Reserved(r, gone).pending[c] =
                            IF c \in gone THEN r.previous[c] ELSE r.pending[c]
  BY <1>1, ReservedOutcome
<1>7. /\ recorded \in Runtimes /\ SameOwner(recorded, r) /\ SameProfiles(recorded, r)
      /\ recorded.previous = r.previous
      /\ \A c \in Touched(r) : ~Present(r, c) => recorded.pending[c] = r.previous[c]
  BY <1>1, <1>6, RecordedOutcome DEF Same, SameOwner, SameTransition, SameProfiles, Touched
<1> HIDE DEF recorded
<1>8. begun \in Runtimes
  BY <1>1, <1>2, <1>3, <1>5, <1>7, Sets, Zenon DEF Runtimes
<1>9. /\ SameOwner(begun, r) /\ SameProfiles(begun, r) /\ begun.previous = r.previous
      /\ begun.phase = "restoring" /\ begun.timer /\ begun.failure = failed
      /\ begun.pending = recorded.pending
  BY <1>7 DEF Runtimes, SameOwner, SameProfiles
<1> HIDE DEF begun
<1>10. \A c \in Touched(r) : ~Present(r, c) => begun.pending[c] = r.previous[c]
  BY <1>7, <1>9
<1>11. CASE Touched(r) = {}
  <2>1. /\ FinishRestoration(begun) \in Runtimes /\ Ended(FinishRestoration(begun), begun)
        /\ SameProfiles(FinishRestoration(begun), begun)
        /\ begun.awaited /\ begun.failure # {} => FinishRestoration(begun).answer = "error"
    BY <1>8, FinishOutcome
  <2>2. failure # {} => begun.failure # {}
    BY <1>2, <1>9
  <2>3. SameProfiles(FinishRestoration(begun), r)
    BY <1>9, <2>1 DEF SameProfiles
  <2>4. Ended(FinishRestoration(begun), r)
    BY <1>9, <2>1 DEF Ended, SameOwner
  <2>5. r.awaited /\ failure # {} => FinishRestoration(begun).answer = "error"
    BY <1>9, <2>1, <2>2 DEF SameOwner
  <2> QED
    BY <1>4, <1>11, <2>1, <2>3, <2>4, <2>5
<1>12. CASE Touched(r) # {}
  BY <1>2, <1>4, <1>8, <1>9, <1>10, <1>12
<1> QED
  BY <1>11, <1>12

LEMMA DisturbedInputsAreCards ==
  ASSUME NEW r, DisturbedInputs(r) # {}
  PROVE  First(DisturbedInputs(r)) \in Cards
<1>1. DisturbedInputs(r) \in SUBSET Cards
  BY DEF DisturbedInputs, Touched
<1> QED
  BY <1>1, FirstIsOne

LEMMA AdvanceRestorationOutcome ==
  ASSUME NEW r \in Runtimes, r.phase = "restoring"
  PROVE  LET q == AdvanceRestoration(r)
         IN /\ q \in Runtimes /\ SameProfiles(q, r) /\ KeepsAbsent(q, r)
            /\ GoesBack(q, r, r.failure)
            /\ q.phase = "restoring" => q.timer = r.timer
<1>1. CASE Lagging(r) # {}
  BY <1>1 DEF AdvanceRestoration, SameProfiles, KeepsAbsent, GoesBack, SameOwner
<1>2. CASE Lagging(r) = {} /\ DisturbedInputs(r) = {}
  <2>1. AdvanceRestoration(r) = FinishRestoration(r)
    BY <1>2 DEF AdvanceRestoration
  <2>2. \A c \in Touched(r) : Present(r, c) => r.cards[c].profile = r.previous[c]
    BY <1>2 DEF Lagging, Lags, Touched
  <2>3. AllBack(FinishRestoration(r), r)
    BY <2>2, FinishOutcome DEF AllBack, SameProfiles, Touched, Present
  <2>4. FinishRestoration(r).phase = "idle"
    BY FinishOutcome DEF Ended
  <2> QED
    BY <2>1, <2>3, <2>4, FinishOutcome DEF GoesBack
<1>3. CASE Lagging(r) = {} /\ DisturbedInputs(r) # {}
  <2> DEFINE c == First(DisturbedInputs(r))
             inputs == IF Locked(r, c) THEN {} ELSE {c}
             restored == RestoreInputs(r, inputs)
             requested == restored.routesRequested \cup {c}
             failed == IF Locked(r, c) THEN restored.failure \cup {"restoration"}
                                       ELSE restored.failure
             q == [restored EXCEPT !.routesRequested = requested, !.failure = failed]
  <2>1. c \in Cards
    BY <1>3, DisturbedInputsAreCards
  <2> HIDE DEF c
  <2>2. inputs \in SUBSET Cards
    BY <2>1
  <2> HIDE DEF inputs
  <2>3. restored \in Runtimes /\ Same(restored, r)
    BY <2>2, RestoreInputsOutcome
  <2> HIDE DEF restored
  <2>4. /\ requested \in SUBSET Cards /\ failed \in SUBSET {"change", "restoration"}
        /\ r.failure \subseteq failed
    BY <2>1, <2>3 DEF Runtimes, Same, SameTransition
  <2>5. AdvanceRestoration(r) = IF c \in r.routesRequested THEN r ELSE q
    BY <1>3, Zenon DEF AdvanceRestoration, c, inputs, restored
  <2> HIDE DEF requested, failed
  <2>6. q \in Runtimes
    BY <2>3, <2>4, Zenon DEF Runtimes
  <2>7. /\ q.failure = failed /\ q.phase = "restoring" /\ q.timer = r.timer
        /\ q.previous = r.previous /\ q.pending = r.pending
        /\ SameOwner(q, r) /\ SameProfiles(q, r)
    BY <2>3 DEF Runtimes, Same, SameOwner, SameTransition, SameProfiles
  <2>8. CASE c \in r.routesRequested
    BY <2>5, <2>8 DEF SameProfiles, KeepsAbsent, GoesBack, SameOwner
  <2>9. CASE c \notin r.routesRequested
    <3> HIDE DEF q
    <3> QED
      BY <2>4, <2>5, <2>6, <2>7, <2>9 DEF KeepsAbsent, GoesBack
  <2> QED
    BY <2>8, <2>9
<1> QED
  BY <1>1, <1>2, <1>3

LEMMA RollBackOutcome ==
  ASSUME NEW r \in Runtimes, NEW failure \in SUBSET {"change", "restoration"}
  PROVE  LET q == RollBack(r, failure)
         IN /\ q \in Runtimes /\ SameProfiles(q, r)
            /\ \A c \in Touched(r) : ~Present(r, c) => q.pending[c] = r.previous[c]
            /\ GoesBack(q, r, failure)
            /\ q.phase = "restoring" => q.timer
<1> DEFINE begun == BeginRestoration(r, failure)
           q == AdvanceRestoration(begun)
<1>1. /\ begun \in Runtimes /\ SameProfiles(begun, r)
      /\ \A c \in Touched(r) : ~Present(r, c) => begun.pending[c] = r.previous[c]
      /\ IF Touched(r) = {}
         THEN Ended(begun, r) /\ (r.awaited /\ failure # {} => begun.answer = "error")
         ELSE /\ begun.phase = "restoring" /\ SameOwner(begun, r) /\ begun.timer
              /\ begun.previous = r.previous /\ failure \subseteq begun.failure
  BY BeginOutcome
<1>2. RollBack(r, failure) = IF begun.phase = "restoring" THEN q ELSE begun
  BY DEF RollBack
<1> HIDE DEF begun
<1>3. CASE Touched(r) = {}
  <2>1. begun.phase # "restoring" /\ RollBack(r, failure) = begun
    BY <1>1, <1>2, <1>3 DEF Ended
  <2>2. AllBack(begun, r)
    BY <1>3 DEF AllBack
  <2> QED
    BY <1>1, <1>3, <2>1, <2>2 DEF GoesBack
<1>4. CASE Touched(r) # {}
  <2>1. RollBack(r, failure) = q
    BY <1>1, <1>2, <1>4
  <2>2. /\ q \in Runtimes /\ SameProfiles(q, begun) /\ KeepsAbsent(q, begun)
        /\ GoesBack(q, begun, begun.failure)
        /\ q.phase = "restoring" => q.timer = begun.timer
    BY <1>1, <1>4, AdvanceRestorationOutcome
  <2> HIDE DEF q
  <2>3. SameProfiles(q, r)
    BY <1>1, <2>2 DEF SameProfiles
  <2>4. \A c \in Touched(r) : ~Present(r, c) => q.pending[c] = r.previous[c]
    BY <1>1, <2>2 DEF KeepsAbsent, SameProfiles, Present, Touched
  <2>5. failure # {} => begun.failure # {}
    BY <1>1, <1>4
  <2>6. CASE q.phase = "restoring"
    <3>1. SameOwner(q, begun) /\ q.previous = begun.previous /\ begun.failure \subseteq q.failure
      BY <2>2, <2>6 DEF GoesBack, Ended
    <3> QED
      BY <1>1, <1>4, <2>1, <2>2, <2>3, <2>4, <2>6, <3>1 DEF GoesBack, SameOwner
  <2>7. CASE q.phase # "restoring"
    <3>1. Ended(q, begun) /\ AllBack(q, begun) /\ (begun.awaited => q.answer = "error" \/ failure = {})
      BY <2>2, <2>5, <2>7 DEF GoesBack
    <3>2. Ended(q, r)
      BY <1>1, <1>4, <3>1 DEF Ended, SameOwner
    <3>3. AllBack(q, r)
      BY <1>1, <1>4, <3>1 DEF AllBack, Touched
    <3>4. r.awaited /\ failure # {} => q.answer = "error"
      BY <1>1, <1>4, <3>1 DEF SameOwner
    <3> QED
      BY <2>1, <2>2, <2>3, <2>4, <2>7, <3>2, <3>3, <3>4 DEF GoesBack
  <2> QED
    BY <2>6, <2>7
<1> QED
  BY <1>3, <1>4

\* Nothing but the transition of the request goes on.
GoesOn(q, r) ==
  /\ q.phase \in {"applying", "settling"} /\ SameOwner(q, r)
  /\ r.timer => q.timer
  /\ q.previous = r.previous /\ q.pending = r.pending

IsPrepared(q, r) ==
  /\ q.phase = "prepared" /\ ~q.timer /\ ~q.awaited
  /\ q.answer = IF r.awaited THEN "ok" ELSE r.answer
  /\ q.signaled = r.signaled
  /\ q.restore = r.restore /\ q.rollback = r.rollback /\ q.starting = r.starting
  /\ q.outputTransitionActive = r.outputTransitionActive
  /\ q.previous = r.previous /\ q.pending = r.pending

\* A request that cannot go on is rolled back because of the change.
TurnsBack(q, r) ==
  /\ GoesBack(q, r, {"change"})
  /\ q.phase = "restoring" => q.timer
  /\ \A c \in Touched(r) : ~Present(r, c) => q.pending[c] = r.previous[c]

LEMMA PreparedOutcome ==
  ASSUME NEW r \in Runtimes
  PROVE  LET q == Prepared(r)
         IN q \in Runtimes /\ SameProfiles(q, r) /\ IsPrepared(q, r)
<1> DEFINE answered == Answered(r, "ok")
           q == [answered EXCEPT !.phase = "prepared", !.timer = FALSE]
<1>1. /\ answered \in Runtimes /\ SameTransition(answered, r)
      /\ answered.cards = r.cards /\ answered.pending = r.pending
      /\ answered.restore = r.restore /\ answered.rollback = r.rollback
      /\ answered.outputTransitionActive = r.outputTransitionActive
      /\ answered.starting = r.starting
      /\ answered.signaled = r.signaled /\ ~answered.awaited
      /\ answered.answer = IF r.awaited THEN "ok" ELSE r.answer
  BY AnsweredOutcome
<1> HIDE DEF answered
<1>2. "prepared" \in Phases /\ FALSE \in BOOLEAN
  BY DEF Phases
<1>3. q \in Runtimes
  BY <1>1, <1>2, Zenon DEF Runtimes
<1>4. IsPrepared(q, r) /\ SameProfiles(q, r)
  BY <1>1 DEF Runtimes, SameTransition, SameProfiles, IsPrepared
<1> QED
  BY <1>3, <1>4 DEF Prepared, answered

LEMMA TurnsBackOutcome ==
  ASSUME NEW r \in Runtimes
  PROVE  LET q == RollBack(r, {"change"})
         IN q \in Runtimes /\ SameProfiles(q, r) /\ TurnsBack(q, r)
  BY RollBackOutcome, Sets DEF TurnsBack

LEMMA AdvanceApplicationOutcome ==
  ASSUME NEW r \in Runtimes, r.phase = "applying"
  PROVE  LET q == AdvanceApplication(r)
         IN /\ q \in Runtimes /\ SameProfiles(q, r)
            /\ GoesOn(q, r) \/ IsPrepared(q, r) \/ TurnsBack(q, r)
<1>1. r \in Runtimes /\ SameProfiles(r, r) /\ GoesOn(r, r)
  BY DEF SameProfiles, GoesOn, SameOwner
<1>2. CASE Lagging(r) # {}
  BY <1>1, <1>2, TurnsBackOutcome DEF AdvanceApplication
<1>3. CASE Lagging(r) = {} /\ DisturbedInputs(r) # {}
  <2> DEFINE c == First(DisturbedInputs(r))
             restored == RestoreInputs(r, {c})
             requested == restored.routesRequested \cup {c}
             q == [restored EXCEPT !.routesRequested = requested]
  <2>1. c \in Cards
    BY <1>3, DisturbedInputsAreCards
  <2>2. AdvanceApplication(r) = IF c \in r.routesRequested THEN r
                                ELSE IF Locked(r, c) THEN RollBack(r, {"change"}) ELSE q
    BY <1>3, Zenon DEF AdvanceApplication
  <2> HIDE DEF c
  <2>3. restored \in Runtimes /\ Same(restored, r)
    BY <2>1, RestoreInputsOutcome
  <2> HIDE DEF restored
  <2>4. requested \in SUBSET Cards
    BY <2>1, <2>3 DEF Runtimes
  <2> HIDE DEF requested
  <2>5. q \in Runtimes
    BY <2>3, <2>4, Zenon DEF Runtimes
  <2>6. SameProfiles(q, r) /\ GoesOn(q, r)
    BY <2>3 DEF Runtimes, Same, SameOwner, SameTransition, SameProfiles, GoesOn
  <2> HIDE DEF q
  <2> QED
    BY <1>1, <2>2, <2>5, <2>6, TurnsBackOutcome
<1>4. CASE Lagging(r) = {} /\ DisturbedInputs(r) = {} /\ r.replaced = {}
  BY <1>4, PreparedOutcome DEF AdvanceApplication
<1>5. CASE Lagging(r) = {} /\ DisturbedInputs(r) = {} /\ r.replaced # {}
  <2> DEFINE q == [r EXCEPT !.phase = "settling", !.timer = TRUE]
  <2>1. "settling" \in Phases /\ TRUE \in BOOLEAN
    BY DEF Phases
  <2>2. q \in Runtimes
    BY <2>1, Zenon DEF Runtimes
  <2>3. SameProfiles(q, r) /\ GoesOn(q, r)
    BY DEF Runtimes, SameOwner, SameProfiles, GoesOn
  <2> QED
    BY <1>5, <2>2, <2>3 DEF AdvanceApplication
<1> QED
  BY <1>2, <1>3, <1>4, <1>5

-----------------------------------------------------------------------------
(* What the restoration of pending profiles leaves. *)

RestoreGoesOn(r) ==
  /\ r.restore # None /\ ~r.rollback /\ r.phase = "idle"
  /\ ~r.starting /\ r.outputTransitionActive /\ Unasked(r)

LEMMA RestoreTypes ==
  ASSUME NEW r \in Runtimes, r.restore # None
  PROVE  /\ r.restore \in Restorations /\ r.restore.card \in Cards
         /\ r.restore.target \in Profiles /\ r.restore.previous \in Profiles
         /\ \A f \in Restorations : f # None
  BY NoneAssumption DEF Runtimes, Restorations

LEMMA RestoreReplaced ==
  ASSUME NEW r \in Runtimes, NEW f \in Restorations, NEW t \in BOOLEAN, RestoreGoesOn(r)
  PROVE  LET q == [r EXCEPT !.restore = f, !.timer = t]
         IN /\ q \in Runtimes /\ RestoreGoesOn(q)
            /\ q.restore = f /\ (t => q.timer) /\ q.cards = r.cards
<1> DEFINE q == [r EXCEPT !.restore = f, !.timer = t]
<1>1. f # None
  BY RestoreTypes DEF RestoreGoesOn
<1>2. q \in Runtimes
  BY Zenon DEF Runtimes
<1>3. /\ q.restore = f /\ q.timer = t /\ q.cards = r.cards
      /\ q.rollback = r.rollback /\ q.phase = r.phase /\ q.starting = r.starting
      /\ q.outputTransitionActive = r.outputTransitionActive
      /\ q.signaled = r.signaled /\ q.awaited = r.awaited /\ q.answer = r.answer
  BY DEF Runtimes
<1> HIDE DEF q
<1>4. RestoreGoesOn(q)
  BY <1>1, <1>3 DEF RestoreGoesOn, Unasked
<1>5. q \in Runtimes /\ RestoreGoesOn(q) /\ q.restore = f /\ (t => q.timer) /\ q.cards = r.cards
  BY <1>2, <1>3, <1>4
<1> QED
  BY <1>5 DEF q

LEMMA RollBackRestoreOutcome ==
  ASSUME NEW r \in Runtimes, RestoreGoesOn(r)
  PROVE  RollBackRestore(r) \in Runtimes /\ LoopOK(RollBackRestore(r))
<1> DEFINE n == NoTransition(r)
           previous == [n.previous EXCEPT ![r.restore.card] = r.restore.previous]
           back == [n EXCEPT !.previous = previous]
           turned == [back EXCEPT !.rollback = TRUE]
           q == RollBack(turned, {"change"})
<1>1. n \in Runtimes /\ SameOwner(n, r) /\ n.previous \in Choice
  BY NoTransitionOutcome, NothingChosen
<1> HIDE DEF n
<1>2. previous \in Choice
  BY <1>1, RestoreTypes DEF Choice, RestoreGoesOn
<1>3. RollBackRestore(r) = q
  BY <1>1, Zenon DEF RollBackRestore, n
<1> HIDE DEF previous
<1>4. back \in Runtimes
  BY <1>1, <1>2, Zenon DEF Runtimes
<1>5. SameOwner(back, r)
  BY <1>1, <1>2 DEF Runtimes, SameOwner
<1> HIDE DEF back
<1>6. turned \in Runtimes
  BY <1>4, Zenon DEF Runtimes
<1>7. /\ turned.rollback /\ turned.restore = r.restore /\ turned.starting = r.starting
      /\ turned.outputTransitionActive = r.outputTransitionActive
      /\ turned.signaled = r.signaled /\ turned.awaited = r.awaited
      /\ turned.answer = r.answer
  BY <1>4, <1>5 DEF Runtimes, SameOwner
<1> HIDE DEF turned
<1>8. q \in Runtimes /\ GoesBack(q, turned, {"change"}) /\ (q.phase = "restoring" => q.timer)
  BY <1>6, RollBackOutcome, Sets
<1> HIDE DEF q
<1>9. CASE Ended(q, turned)
  BY <1>3, <1>7, <1>8, <1>9 DEF Ended, LoopOK, Rests, RestoreGoesOn, Unasked
<1>10. CASE q.phase = "restoring" /\ SameOwner(q, turned)
  BY <1>3, <1>7, <1>8, <1>10 DEF SameOwner, LoopOK, Restores, RestoreGoesOn, Unasked
<1> QED
  BY <1>8, <1>9, <1>10 DEF GoesBack

LEMMA RetriedOutcome ==
  ASSUME NEW r \in Runtimes, RestoreGoesOn(r), CanRetry(r)
  PROVE  LET q == Retried(r)
         IN /\ q \in Runtimes /\ RestoreGoesOn(q) /\ q.timer
            /\ q.restore \in Restorations /\ q.restore.settling = r.restore.settling
<1> DEFINE recorded == Recorded(r, {r.restore.card})
           asked == Ask(recorded, r.restore.card, r.restore.target)
           f == [r.restore EXCEPT !.retries = r.restore.retries + 1, !.observed = FALSE,
                                  !.routesRequested = FALSE]
           t == TRUE
           q == [asked EXCEPT !.restore = f, !.timer = t]
<1>1. r.restore \in Restorations /\ r.restore.card \in Cards /\ r.restore.target \in Profiles
  BY RestoreTypes DEF RestoreGoesOn
<1>2. recorded \in Runtimes /\ Same(recorded, r)
  BY <1>1, RecordedOutcome
<1> HIDE DEF recorded
<1>3. asked \in Runtimes /\ Same(asked, recorded)
  BY <1>1, <1>2, AskOutcome
<1> HIDE DEF asked
<1>4. RestoreGoesOn(asked)
  BY <1>2, <1>3 DEF RestoreGoesOn, Unasked, Same, SameOwner, SameTransition
<1>5. f \in Restorations /\ f.settling = r.restore.settling
  <2>1. r.restore.retries + 1 \in 0 .. 2
    BY <1>1 DEF CanRetry, Restorations
  <2> DEFINE n == r.restore.retries + 1
  <2> HIDE DEF n
  <2>2. [r.restore EXCEPT !.retries = n, !.observed = FALSE, !.routesRequested = FALSE]
          \in Restorations
    BY <1>1, <2>1, Zenon DEF Restorations, n
  <2> QED
    BY <1>1, <2>2 DEF Restorations, n
<1>6. Retried(r) = q
  BY DEF Retried, recorded, asked
<1> HIDE DEF f
<1>7. t \in BOOLEAN /\ t
  OBVIOUS
<1> HIDE DEF t
<1>8. q \in Runtimes /\ RestoreGoesOn(q) /\ q.restore = f /\ q.timer
  BY <1>3, <1>4, <1>5, <1>7, RestoreReplaced
<1> HIDE DEF q
<1> QED
  BY <1>5, <1>6, <1>8

LEMMA AdvanceTargetOutcome ==
  ASSUME NEW r \in Runtimes, RestoreGoesOn(r), r.timer, r.restore.observed
  PROVE  AdvanceTarget(r) \in Runtimes /\ LoopOK(AdvanceTarget(r))
<1> DEFINE card == r.cards[r.restore.card]
<1>1. r.restore \in Restorations /\ r.restore.card \in Cards
  BY RestoreTypes DEF RestoreGoesOn
<1>2. LoopOK(r)
  BY DEF LoopOK, RestoreGoesOn, Restores
<1>3. CASE card.nodes # Exposed(card.profile) /\ NodeCount[card.profile] # None
  BY <1>2, <1>3 DEF AdvanceTarget
<1>4. CASE /\ ~(card.nodes # Exposed(card.profile) /\ NodeCount[card.profile] # None)
           /\ card.input
  <2> DEFINE f == [r.restore EXCEPT !.settling = TRUE]
             t == r.timer \/ ~r.restore.settling
             q == [r EXCEPT !.restore = f, !.timer = t]
  <2>1. f \in Restorations /\ f.observed = r.restore.observed
    BY <1>1 DEF Restorations
  <2>2. t \in BOOLEAN /\ t
    OBVIOUS
  <2>3. AdvanceTarget(r) = q
    BY <1>4 DEF AdvanceTarget
  <2> HIDE DEF f, t
  <2>4. q \in Runtimes /\ RestoreGoesOn(q) /\ q.restore = f /\ q.timer
    BY <2>1, <2>2, RestoreReplaced
  <2> HIDE DEF q
  <2> QED
    BY <2>1, <2>3, <2>4 DEF LoopOK, RestoreGoesOn, Restores
<1>5. CASE /\ ~(card.nodes # Exposed(card.profile) /\ NodeCount[card.profile] # None)
           /\ ~card.input
  <2> DEFINE inputs == RestoreInputs(r, {r.restore.card})
             f == [inputs.restore EXCEPT !.routesRequested = TRUE]
             q == [inputs EXCEPT !.restore = f]
  <2>1. AdvanceTarget(r) = IF r.restore.routesRequested THEN r
                           ELSE IF Locked(r, r.restore.card) THEN RollBackRestore(r)
                           ELSE q
    BY <1>5 DEF AdvanceTarget
  <2>2. inputs \in Runtimes /\ Same(inputs, r)
    BY <1>1, RestoreInputsOutcome
  <2> HIDE DEF inputs
  <2>3. f \in Restorations /\ f.observed = r.restore.observed
    BY <1>1, <2>2 DEF Restorations, Same, SameOwner
  <2> HIDE DEF f
  <2>4. q \in Runtimes
    BY <2>2, <2>3, Zenon DEF Runtimes
  <2>5. /\ q.restore = f /\ q.timer = inputs.timer /\ q.phase = inputs.phase
        /\ q.rollback = inputs.rollback /\ q.signaled = inputs.signaled
        /\ q.awaited = inputs.awaited /\ q.answer = inputs.answer
        /\ q.starting = inputs.starting
        /\ q.outputTransitionActive = inputs.outputTransitionActive
    BY <2>2 DEF Runtimes
  <2> HIDE DEF q
  <2>6. LoopOK(q)
    BY <2>2, <2>3, <2>5, RestoreTypes
       DEF LoopOK, RestoreGoesOn, Restores, Same, SameOwner, SameTransition, Unasked
  <2> QED
    BY <1>2, <2>1, <2>4, <2>6, RollBackRestoreOutcome
<1> QED
  BY <1>3, <1>4, <1>5

LEMMA StartRestoreOutcome ==
  ASSUME NEW r \in Runtimes, r.restore = None
  PROVE  LET q == StartRestore(r)
         IN /\ q \in Runtimes /\ SameProfiles(q, r)
            /\ r.outputTransitionActive \/ r.phase # "idle" => q = r
            /\ Rests(r) => LoopOK(q)
<1> DEFINE due == {c \in Cards : /\ r.pending[c] # None /\ Accepts(r, c, r.pending[c])
                                 /\ r.cards[c].profile # r.pending[c]}
           met == {c \in Cards : /\ r.pending[c] # None
                                 /\ r.cards[c].profile = r.pending[c]
                                 /\ \A d \in due : c < d}
           c == First(due)
           forgot == Forget(r, met)
           recorded == Recorded(forgot, {c})
           sent == Ask(recorded, c, r.pending[c])
           shown == [sent.cards EXCEPT ![c] = [sent.cards[c] EXCEPT !.input = TRUE]]
           routes == sent.routes \ {c}
           restore == [card |-> c, target |-> r.pending[c], previous |-> r.cards[c].profile,
                       observed |-> FALSE, settling |-> FALSE, retries |-> 0,
                       routesRequested |-> FALSE]
           asked == [sent EXCEPT !.cards = shown, !.routes = routes, !.report = {},
                                 !.restore = restore, !.starting = TRUE]
<1>1. StartRestore(r) = IF r.outputTransitionActive \/ r.phase # "idle" THEN r
                        ELSE IF due = {} THEN Forget(r, met)
                        ELSE [sent EXCEPT !.cards[c].input = TRUE, !.routes = @ \ {c},
                                !.report = {}, !.restore = restore, !.starting = TRUE]
  BY Zenon DEF StartRestore
<1> HIDE DEF met
<1>2. CASE r.outputTransitionActive \/ r.phase # "idle"
  BY <1>1, <1>2 DEF SameProfiles, Rests
<1>3. CASE ~(r.outputTransitionActive \/ r.phase # "idle") /\ due = {}
  <2>1. /\ forgot \in Runtimes /\ SameOwner(forgot, r) /\ SameTransition(forgot, r)
        /\ forgot.cards = r.cards
    BY ForgetOutcome
  <2>2. StartRestore(r) = forgot
    BY <1>1, <1>3
  <2> HIDE DEF forgot
  <2>3. Rests(r) => LoopOK(forgot)
    BY <2>1 DEF SameOwner, SameTransition, LoopOK, Rests, Unasked
  <2> QED
    BY <1>3, <2>1, <2>2, <2>3 DEF SameProfiles
<1>4. CASE ~(r.outputTransitionActive \/ r.phase # "idle") /\ due # {}
  <2>1. /\ c \in Cards /\ r.pending[c] \in Profiles
        /\ Accepts(r, c, r.pending[c]) /\ r.cards[c].profile # r.pending[c]
    <3>1. c \in due
      BY <1>4, FirstIsOne
    <3> HIDE DEF c
    <3> QED
      BY <3>1, CardTypes
  <2>2. r.cards[c].profile \in Profiles
    BY <2>1, CardTypes DEF Accepts
  <2> HIDE DEF c
  <2>3. /\ forgot \in Runtimes /\ SameOwner(forgot, r) /\ SameTransition(forgot, r)
        /\ forgot.cards = r.cards
    BY ForgetOutcome
  <2> HIDE DEF forgot
  <2>4. recorded \in Runtimes /\ Same(recorded, forgot)
    BY <2>1, <2>3, RecordedOutcome
  <2> HIDE DEF recorded
  <2>5. sent \in Runtimes /\ Same(sent, recorded)
    BY <2>1, <2>4, AskOutcome
  <2>6. StartRestore(r) = asked
    <3>1. sent.cards \in [Cards -> CardStates]
      BY <2>5 DEF Runtimes
    <3>2. StartRestore(r) =
            [sent EXCEPT !.cards[c].input = TRUE, !.routes = @ \ {c}, !.report = {},
                         !.restore = restore, !.starting = TRUE]
      BY <1>1, <1>4
    <3> HIDE DEF sent, restore
    <3> QED
      BY <3>1, <3>2
  <2> HIDE DEF sent
  <2>7. shown \in [Cards -> CardStates] /\ \A d \in Cards : shown[d].profile = sent.cards[d].profile
    <3>1. sent.cards \in [Cards -> CardStates]
      BY <2>5 DEF Runtimes
    <3>2. /\ [sent.cards[c] EXCEPT !.input = TRUE] \in CardStates
          /\ [sent.cards[c] EXCEPT !.input = TRUE].profile = sent.cards[c].profile
      BY <2>1, <3>1, CardEdits
    <3> QED
      BY <2>1, <3>1, <3>2
  <2>8. routes \in SUBSET Cards
    BY <2>5 DEF Runtimes
  <2>9. restore \in Restorations /\ restore # None /\ ~restore.settling
    <3>1. FALSE \in BOOLEAN /\ 0 \in 0 .. 2
      OBVIOUS
    <3>2. restore \in Restorations
      BY <2>1, <2>2, <3>1, Zenon DEF Restorations
    <3> QED
      BY <3>2, NoneAssumption
  <2> HIDE DEF shown, routes, restore
  <2>10. asked \in Runtimes
    BY <2>5, <2>7, <2>8, <2>9, Sets, Zenon DEF Runtimes
  <2>11. /\ asked.cards = shown /\ asked.restore = restore /\ asked.starting
         /\ asked.outputTransitionActive = sent.outputTransitionActive
         /\ asked.timer = sent.timer /\ asked.phase = sent.phase /\ asked.rollback = sent.rollback
         /\ asked.signaled = sent.signaled /\ asked.awaited = sent.awaited
         /\ asked.answer = sent.answer
    BY <2>5 DEF Runtimes
  <2> HIDE DEF asked
  <2>12. SameProfiles(asked, r)
    BY <2>3, <2>4, <2>5, <2>7, <2>11 DEF Same, SameProfiles
  <2>13. Rests(r) => LoopOK(asked)
    BY <2>3, <2>4, <2>5, <2>9, <2>11
       DEF Same, SameOwner, SameTransition, Rests, LoopOK, Begins, Unasked
  <2> QED
    BY <1>4, <2>6, <2>10, <2>12, <2>13
<1> QED
  BY <1>2, <1>3, <1>4

LEMMA EndOfRestoreOutcome ==
  ASSUME NEW r \in Runtimes, RestoreGoesOn(r)
  PROVE  LET q == EndOfRestore(r)
         IN q \in Runtimes /\ q.restore = None /\ Rests(q)
<1>1. EndOfRestore(r) \in Runtimes
  BY Zenon DEF Runtimes, EndOfRestore
<1>2. LET q == EndOfRestore(r)
      IN /\ q.restore = None /\ ~q.outputTransitionActive /\ ~q.timer
         /\ q.phase = r.phase /\ q.rollback = r.rollback /\ q.signaled = r.signaled
         /\ q.starting = r.starting
         /\ q.awaited = r.awaited /\ q.answer = r.answer
  BY DEF Runtimes, EndOfRestore
<1> QED
  BY <1>1, <1>2 DEF RestoreGoesOn, Rests, Unasked

\* With its deadline, or when a restoration that settles was overridden.
LEMMA AdvancePendingOutcome ==
  ASSUME NEW r \in Runtimes, RestoreGoesOn(r),
         \/ r.timer /\ (r.restore.settling => r.restore.observed)
         \/ r.restore.observed /\ r.cards[r.restore.card].profile # r.restore.target
  PROVE  AdvancePending(r) \in Runtimes /\ LoopOK(AdvancePending(r))
<1>1. r.restore \in Restorations /\ r.restore # None
  BY RestoreTypes DEF RestoreGoesOn
<1>2. CASE r.cards[r.restore.card].profile = r.restore.target
  <2> DEFINE f == [r.restore EXCEPT !.observed = TRUE]
             t == r.timer
             q == [r EXCEPT !.restore = f, !.timer = t]
  <2>1. f \in Restorations /\ f.observed
    BY <1>1 DEF Restorations
  <2>2. t \in BOOLEAN /\ t
    BY <1>2 DEF Runtimes
  <2>3. q = [r EXCEPT !.restore.observed = TRUE]
    BY DEF Runtimes
  <2> HIDE DEF f, t
  <2>4. q \in Runtimes /\ RestoreGoesOn(q) /\ q.restore = f /\ q.timer
    BY <2>1, <2>2, RestoreReplaced
  <2>5. AdvancePending(r) = AdvanceTarget(q)
    BY <1>1, <1>2, <2>3 DEF AdvancePending
  <2> HIDE DEF q
  <2> QED
    BY <2>1, <2>4, <2>5, AdvanceTargetOutcome
<1>3. CASE r.cards[r.restore.card].profile # r.restore.target
  <2> DEFINE ended == EndOfRestore(r)
             retried == Retried(r)
             forgot == Forget(r, {r.restore.card})
  <2>1. AdvancePending(r) =
          IF ~Present(r, r.restore.card) THEN StartRestore(ended)
          ELSE IF ~r.restore.observed THEN r
          ELSE IF CanRetry(r) THEN [retried EXCEPT !.restore.settling = FALSE]
          ELSE RollBackRestore(forgot)
    BY <1>1, <1>3, Zenon DEF AdvancePending
  <2>2. StartRestore(ended) \in Runtimes /\ LoopOK(StartRestore(ended))
    <3>1. ended \in Runtimes /\ ended.restore = None /\ Rests(ended)
      BY EndOfRestoreOutcome
    <3> HIDE DEF ended
    <3> QED
      BY <3>1, StartRestoreOutcome
  <2>3. CASE ~r.restore.observed /\ AdvancePending(r) = r
    BY <1>1, <1>3, <2>3 DEF LoopOK, Restores, RestoreGoesOn
  <2>4. ASSUME CanRetry(r)
        PROVE  LET q == [retried EXCEPT !.restore.settling = FALSE]
               IN q \in Runtimes /\ LoopOK(q)
    <3> DEFINE f == [retried.restore EXCEPT !.settling = FALSE]
               t == retried.timer
               q == [retried EXCEPT !.restore = f, !.timer = t]
    <3>1. /\ retried \in Runtimes /\ RestoreGoesOn(retried) /\ retried.timer
          /\ retried.restore \in Restorations
      BY <2>4, RetriedOutcome
    <3> HIDE DEF retried
    <3>2. f \in Restorations /\ ~f.settling
      BY <3>1 DEF Restorations
    <3>3. t \in BOOLEAN /\ t
      BY <3>1 DEF Runtimes
    <3>4. q = [retried EXCEPT !.restore.settling = FALSE]
      BY <3>1 DEF Runtimes
    <3> HIDE DEF f, t
    <3>5. q \in Runtimes /\ RestoreGoesOn(q) /\ q.restore = f /\ q.timer
      BY <3>1, <3>2, <3>3, RestoreReplaced
    <3> HIDE DEF q
    <3>6. LoopOK(q)
      BY <3>2, <3>5 DEF LoopOK, RestoreGoesOn, Restores
    <3> QED
      BY <3>4, <3>5, <3>6
  <2>5. RollBackRestore(forgot) \in Runtimes /\ LoopOK(RollBackRestore(forgot))
    <3>1. forgot \in Runtimes /\ SameOwner(forgot, r) /\ SameTransition(forgot, r)
      BY ForgetOutcome
    <3> HIDE DEF forgot
    <3>2. RestoreGoesOn(forgot)
      BY <3>1 DEF RestoreGoesOn, SameOwner, SameTransition, Unasked
    <3> QED
      BY <3>1, <3>2, RollBackRestoreOutcome
  <2> QED
    BY <2>1, <2>2, <2>3, <2>4, <2>5
<1> QED
  BY <1>2, <1>3

\* The timer has fired for a restoration.
LEMMA RestoreTimeoutOutcome ==
  ASSUME NEW r \in Runtimes, RestoreGoesOn(r), r.restore.settling => r.restore.observed
  PROVE  RestoreTimeout(r) \in Runtimes /\ LoopOK(RestoreTimeout(r))
<1> DEFINE card == r.cards[r.restore.card]
           forgot == Forget(r, {r.restore.card})
           reported == [forgot EXCEPT !.report = {}]
<1>1. RestoreTimeout(r) =
        IF ~r.restore.settling
        THEN IF CanRetry(r) /\ card.profile # r.restore.target THEN Retried(r)
             ELSE RollBackRestore(r)
        ELSE IF card.profile # r.restore.target THEN AdvancePending(r)
        ELSE IF card.nodes = Exposed(card.profile) /\ card.input
        THEN EndOfRestore(reported) ELSE RollBackRestore(r)
  BY Zenon DEF RestoreTimeout
<1>2. RollBackRestore(r) \in Runtimes /\ LoopOK(RollBackRestore(r))
  BY RollBackRestoreOutcome
<1>3. ASSUME CanRetry(r), ~r.restore.settling
      PROVE  Retried(r) \in Runtimes /\ LoopOK(Retried(r))
  BY <1>3, RetriedOutcome DEF LoopOK, RestoreGoesOn, Restores
<1>4. ASSUME r.restore.settling, card.profile # r.restore.target
      PROVE  AdvancePending(r) \in Runtimes /\ LoopOK(AdvancePending(r))
  BY <1>4, AdvancePendingOutcome
<1>5. EndOfRestore(reported) \in Runtimes /\ LoopOK(EndOfRestore(reported))
  <2>1. forgot \in Runtimes /\ SameOwner(forgot, r) /\ SameTransition(forgot, r)
    BY ForgetOutcome
  <2> HIDE DEF forgot
  <2>2. reported \in Runtimes
    BY <2>1, Sets, Zenon DEF Runtimes
  <2>3. RestoreGoesOn(reported)
    BY <2>1 DEF Runtimes, RestoreGoesOn, SameOwner, SameTransition, Unasked
  <2> HIDE DEF reported
  <2> QED
    BY <2>2, <2>3, EndOfRestoreOutcome DEF LoopOK
<1> QED
  BY <1>1, <1>2, <1>3, <1>4, <1>5

-----------------------------------------------------------------------------
(* The registry and the timer, while the main loop owns the flag. *)

LEMMA UntimedOutcome ==
  ASSUME NEW r \in Runtimes
  PROVE  LET q == [r EXCEPT !.timer = FALSE]
         IN /\ q \in Runtimes /\ SameOwner(q, r) /\ ~q.timer /\ q.cards = r.cards
            /\ q.phase = r.phase /\ q.failure = r.failure /\ q.previous = r.previous
            /\ q.pending = r.pending
<1>1. [r EXCEPT !.timer = FALSE] \in Runtimes
  BY Zenon DEF Runtimes
<1> QED
  BY <1>1 DEF Runtimes, SameOwner

LEMMA RestoresGoesOn ==
  ASSUME NEW r, LoopOK(r), ~r.starting, r.restore # None, ~r.rollback
  PROVE  RestoreGoesOn(r) /\ r.timer /\ (r.restore.settling => r.restore.observed)
  BY DEF LoopOK, Begins, Restores, RestoreGoesOn

\* A restoration that is rolled back goes on with it, or lets go of the flag.
LEMMA LoopGoesBack ==
  ASSUME NEW r \in Runtimes, NEW q, r.restore # None, r.rollback, Unasked(r),
         ~r.starting, r.outputTransitionActive, q.phase = "restoring" => q.timer,
         \E failure : GoesBack(q, r, failure)
  PROVE  LoopOK(q) /\ (q.phase # "restoring" => q.restore = None)
<1>1. CASE Ended(q, r)
  BY <1>1 DEF Ended, LoopOK, Rests, Unasked
<1>2. CASE q.phase = "restoring" /\ SameOwner(q, r)
  BY <1>2 DEF LoopOK, Restores, SameOwner, Unasked
<1> QED
  BY <1>1, <1>2 DEF GoesBack

LEMMA HandledLoop ==
  ASSUME NEW r \in Runtimes, LoopOK(r), ~r.starting
  PROVE  /\ Handled(r) \in Runtimes /\ LoopOK(Handled(r))
         /\ r.phase = "restoring" /\ Handled(r).phase = "idle" => AllBack(Handled(r), r)
<1>1. CASE r.restore = None
  <2>1. Rests(r) /\ Handled(r) = StartRestore(r)
    BY <1>1 DEF LoopOK, Rests, Handled, Advance, AdvancePending
  <2> QED
    BY <1>1, <2>1, StartRestoreOutcome DEF Rests
<1>2. CASE r.restore # None /\ ~r.rollback
  <2>1. RestoreGoesOn(r) /\ r.timer /\ (r.restore.settling => r.restore.observed)
    BY <1>2, RestoresGoesOn
  <2>2. Handled(r) = AdvancePending(r)
    BY <2>1 DEF RestoreGoesOn, Handled, Advance
  <2> QED
    BY <2>1, <2>2, AdvancePendingOutcome DEF RestoreGoesOn
<1>3. CASE r.restore # None /\ r.rollback
  <2> DEFINE q == AdvanceRestoration(r)
  <2>1. r.phase = "restoring" /\ r.timer /\ Unasked(r) /\ r.outputTransitionActive
    BY <1>3 DEF LoopOK, Begins, Restores
  <2>2. Handled(r) = IF q.phase # "idle" THEN q ELSE AdvancePending(q)
    BY <2>1 DEF Handled, Advance
  <2>3. q \in Runtimes /\ GoesBack(q, r, r.failure) /\ (q.phase = "restoring" => q.timer)
    BY <2>1, AdvanceRestorationOutcome
  <2> HIDE DEF q
  <2>4. LoopOK(q) /\ (q.phase # "restoring" => q.restore = None)
    BY <1>3, <2>1, <2>3, LoopGoesBack
  <2>5. CASE q.phase # "idle"
    BY <2>2, <2>3, <2>4, <2>5
  <2>6. CASE q.phase = "idle"
    <3>1. q.restore = None /\ Rests(q) /\ AdvancePending(q) = StartRestore(q)
      BY <2>4, <2>6 DEF AdvancePending, LoopOK
    <3>2. AllBack(q, r)
      BY <2>3, <2>6 DEF GoesBack
    <3>3. SameProfiles(StartRestore(q), q)
      BY <2>3, <2>4, <3>1, StartRestoreOutcome
    <3>4. AllBack(StartRestore(q), r)
      BY <3>2, <3>3 DEF AllBack, SameProfiles, Touched, Present
    <3> QED
      BY <2>2, <2>3, <2>6, <3>1, <3>4, StartRestoreOutcome
  <2> QED
    BY <2>5, <2>6
<1> QED
  BY <1>1, <1>2, <1>3

LEMMA TimeoutLoop ==
  ASSUME NEW r \in Runtimes, LoopOK(r), r.timer
  PROVE  LET q == Timeout([r EXCEPT !.timer = FALSE])
         IN /\ q \in Runtimes /\ LoopOK(q)
            /\ r.phase = "restoring" => "restoration" \in q.report
<1> DEFINE t == [r EXCEPT !.timer = FALSE]
           q == Timeout(t)
<1>1. /\ t \in Runtimes /\ SameOwner(t, r) /\ t.phase = r.phase /\ t.failure = r.failure
  BY UntimedOutcome
<1> HIDE DEF t
<1>2. r.restore # None /\ ~r.starting
  BY DEF LoopOK, Rests, Begins, Restores
<1>3. CASE ~r.rollback
  <2>1. RestoreGoesOn(r) /\ (r.restore.settling => r.restore.observed)
    BY <1>2, <1>3, RestoresGoesOn
  <2>2. RestoreGoesOn(t) /\ (t.restore.settling => t.restore.observed)
    BY <1>1, <2>1 DEF RestoreGoesOn, SameOwner, Unasked
  <2>3. q = RestoreTimeout(t)
    BY <2>2 DEF Timeout, RestoreGoesOn
  <2> HIDE DEF q
  <2>4. q \in Runtimes /\ LoopOK(q)
    BY <1>1, <2>2, <2>3, RestoreTimeoutOutcome
  <2> QED
    BY <2>1, <2>4 DEF q, t, RestoreGoesOn
<1>4. CASE r.rollback
  <2> DEFINE failure == t.failure \cup {"restoration"}
             late == [t EXCEPT !.failure = failure]
  <2>1. r.phase = "restoring" /\ Unasked(r) /\ r.outputTransitionActive
    BY <1>2, <1>4 DEF LoopOK, Begins, Restores
  <2>2. q = FinishRestoration(late)
    BY <1>1, <2>1 DEF Timeout
  <2>3. failure \in SUBSET {"change", "restoration"} /\ "restoration" \in failure
    BY <1>1 DEF Runtimes
  <2> HIDE DEF failure
  <2>4. late \in Runtimes
    BY <1>1, <2>3, Zenon DEF Runtimes
  <2>5. SameOwner(late, r) /\ late.failure = failure
    BY <1>1 DEF Runtimes, SameOwner
  <2> HIDE DEF late, q
  <2>6. q \in Runtimes /\ Ended(q, late) /\ q.report = failure
    BY <2>2, <2>4, <2>5, FinishOutcome
  <2>7. LoopOK(q)
    BY <1>2, <1>4, <2>1, <2>5, <2>6 DEF Ended, SameOwner, LoopOK, Rests, Unasked
  <2> QED
    BY <2>3, <2>6, <2>7 DEF q, t
<1> QED
  BY <1>3, <1>4

\* What a snapshot of the registry shows does not touch what the main loop keeps.
LEMMA ShownOutcome ==
  ASSUME TypeOK, NEW c \in Cards, NEW card \in CardStates,
         NEW asked \in Profiles \cup {None}, NEW routes \in SUBSET Cards
  PROVE  LET q == Shown(c, card, asked, routes)
         IN /\ q \in Runtimes /\ SameOwner(q, runtime) /\ SameTransition(q, runtime)
            /\ q.pending = runtime.pending
<1> DEFINE f == [runtime.cards EXCEPT ![c] = card]
           a == [runtime.asked EXCEPT ![c] = asked]
           q == [runtime EXCEPT !.cards = f, !.asked = a, !.routes = routes]
<1>1. runtime \in Runtimes /\ f \in [Cards -> CardStates] /\ a \in Choice
  BY DEF TypeOK, Runtimes, Choice
<1>2. q = Shown(c, card, asked, routes)
  BY <1>1 DEF Shown
<1> HIDE DEF f, a
<1>3. q \in Runtimes
  BY <1>1, Zenon DEF Runtimes
<1>4. /\ SameOwner(q, runtime) /\ SameTransition(q, runtime)
      /\ q.pending = runtime.pending
  BY <1>1 DEF Runtimes, SameOwner, SameTransition
<1> HIDE DEF q
<1> QED
  BY <1>2, <1>3, <1>4

LEMMA SnapshotOutcome ==
  ASSUME TypeOK, NEW c \in Cards, NEW r \in Snapshots(c) \cup Interferences(c)
  PROVE  /\ r \in Runtimes /\ SameOwner(r, runtime) /\ SameTransition(r, runtime)
         /\ r.pending = runtime.pending
<1> DEFINE card == runtime.cards[c]
           asked == runtime.asked[c]
           IsShown == \E k \in CardStates, a \in Profiles \cup {None}, s \in SUBSET Cards :
                        r = Shown(c, k, a, s)
<1>1. /\ card \in CardStates /\ asked \in Profiles \cup {None} /\ None \in Profiles \cup {None}
      /\ runtime.routes \in SUBSET Cards /\ runtime.routes \ {c} \in SUBSET Cards
  BY DEF TypeOK, Runtimes, Choice
<1> HIDE DEF card, asked
<1>2. /\ \A p \in Profiles \cup {None}, n \in {"none", "old", "new"}, i \in BOOLEAN :
           [card EXCEPT !.profile = p, !.nodes = n, !.input = i] \in CardStates
      /\ \A p \in Profiles \cup {None}, n \in {"none", "old", "new"} :
           [card EXCEPT !.profile = p, !.nodes = n] \in CardStates
      /\ \A n \in {"none", "old", "new"} : [card EXCEPT !.nodes = n] \in CardStates
      /\ [card EXCEPT !.input = TRUE] \in CardStates
      /\ [card EXCEPT !.input = FALSE] \in CardStates
      /\ \A f \in Refusals : [card EXCEPT !.refuses = f] \in CardStates
      /\ [card EXCEPT !.profile = None, !.nodes = "none", !.input = TRUE] \in CardStates
      /\ card.nodes \in {"none", "old", "new"} /\ card.input \in BOOLEAN
  BY <1>1 DEF CardStates
<1>3. /\ \A p : Exposed(p) \in {"none", "old", "new"}
      /\ \A p : Fresh(c, p) \subseteq {"none", "old", "new"}
  BY <1>2 DEF Exposed, Fresh, card
<1>4. ASSUME r \in Snapshots(c) PROVE IsShown
  <2> DEFINE taken == IF asked = None \/ card.profile = None THEN {} ELSE Fresh(c, asked)
             moved == IF card.profile = None THEN {} ELSE {Exposed(card.profile)} \ {card.nodes}
             Taken(input) ==
               {Shown(c, [card EXCEPT !.profile = asked, !.nodes = n, !.input = input],
                      None, runtime.routes) : n \in taken}
             Moved == {Shown(c, [card EXCEPT !.nodes = n], asked, runtime.routes) : n \in moved}
             Routed == {Shown(c, [card EXCEPT !.input = TRUE], asked, runtime.routes \ {c}) :
                          d \in runtime.routes \cap {c}}
  <2>1. r \in Taken(card.input) \/ r \in Taken(FALSE) \/ r \in Moved \/ r \in Routed
    BY <1>4, Zenon DEF Snapshots, card, asked
  <2>2. taken \subseteq {"none", "old", "new"} /\ moved \subseteq {"none", "old", "new"}
    BY <1>3
  <2> HIDE DEF taken, moved
  <2>3. ASSUME NEW i \in BOOLEAN, r \in Taken(i) PROVE IsShown
    <3>1. PICK n \in taken :
               r = Shown(c, [card EXCEPT !.profile = asked, !.nodes = n, !.input = i],
                         None, runtime.routes)
      BY <2>3, Zenon
    <3>2. [card EXCEPT !.profile = asked, !.nodes = n, !.input = i] \in CardStates
      BY <1>1, <1>2, <2>2
    <3> QED
      BY <1>1, <3>1, <3>2, Zenon
  <2>4. CASE r \in Moved
    <3>1. PICK n \in moved : r = Shown(c, [card EXCEPT !.nodes = n], asked, runtime.routes)
      BY <2>4, Zenon
    <3>2. [card EXCEPT !.nodes = n] \in CardStates
      BY <1>2, <2>2
    <3> QED
      BY <1>1, <3>1, <3>2, Zenon
  <2>5. CASE r \in Routed
    <3>1. r = Shown(c, [card EXCEPT !.input = TRUE], asked, runtime.routes \ {c})
      BY <2>5, Zenon
    <3> QED
      BY <1>1, <1>2, <3>1, Zenon
  <2>6. card.input \in BOOLEAN /\ FALSE \in BOOLEAN
    BY <1>2
  <2> QED
    BY <2>1, <2>3, <2>4, <2>5, <2>6, Zenon
<1>5. ASSUME r \in Interferences(c) PROVE IsShown
  <2> DEFINE Back == {Shown(c, [card EXCEPT !.profile = p, !.nodes = Exposed(p)],
                            asked, runtime.routes) : p \in Profiles}
             Switched(nodes) ==
               {Shown(c, [card EXCEPT !.profile = p, !.nodes = nodes],
                      asked, runtime.routes) : p \in Profiles \ {card.profile}}
             quiet == [card EXCEPT !.input = FALSE]
             Turned == {Shown(c, [card EXCEPT !.refuses = f], asked, runtime.routes) :
                          f \in IF Locked(runtime, c) THEN {}
                                ELSE Refusals \ {card.refuses, "all"}}
             gone == [card EXCEPT !.profile = None, !.nodes = "none", !.input = TRUE]
  <2>1. \/ r \in Back \/ r \in Switched("none") \/ r \in Switched("new")
        \/ r = Shown(c, quiet, asked, runtime.routes)
        \/ r \in Turned
        \/ r = Shown(c, gone, None, runtime.routes \ {c})
    BY <1>5, Zenon DEF Interferences, card, asked
  <2>2. CASE r \in Back
    <3>1. PICK p \in Profiles :
            r = Shown(c, [card EXCEPT !.profile = p, !.nodes = Exposed(p)], asked, runtime.routes)
      BY <2>2, Zenon
    <3>2. [card EXCEPT !.profile = p, !.nodes = Exposed(p)] \in CardStates
      BY <1>2, <1>3
    <3> QED
      BY <1>1, <3>1, <3>2, Zenon
  <2>3. ASSUME NEW n \in {"none", "new"}, r \in Switched(n) PROVE IsShown
    <3>1. PICK p \in Profiles \ {card.profile} :
            r = Shown(c, [card EXCEPT !.profile = p, !.nodes = n], asked, runtime.routes)
      BY <2>3, Zenon
    <3>2. [card EXCEPT !.profile = p, !.nodes = n] \in CardStates
      BY <1>2
    <3> QED
      BY <1>1, <3>1, <3>2, Zenon
  <2>4. CASE r \in Turned
    <3>1. PICK f \in Refusals : r = Shown(c, [card EXCEPT !.refuses = f], asked, runtime.routes)
      BY <2>4
    <3> QED
      BY <1>1, <1>2, <3>1, Zenon
  <2>5. quiet \in CardStates /\ gone \in CardStates
    BY <1>2
  <2> HIDE DEF quiet, gone
  <2>6. ASSUME \/ r = Shown(c, quiet, asked, runtime.routes)
               \/ r = Shown(c, gone, None, runtime.routes \ {c})
        PROVE  IsShown
    BY <1>1, <2>5, <2>6, Zenon
  <2> QED
    BY <2>1, <2>2, <2>3, <2>4, <2>6, Zenon
<1>6. PICK k \in CardStates, a \in Profiles \cup {None}, s \in SUBSET Cards :
        r = Shown(c, k, a, s)
  BY <1>4, <1>5
<1> QED
  BY <1>6, ShownOutcome

LEMMA ReturnedOutcome ==
  ASSUME TypeOK, NEW c \in Cards, NEW r \in Runtimes
  PROVE  LET q == Returned(r, c)
         IN q \in Runtimes /\ SameOwner(q, r) /\ SameTransition(q, r) /\ q.cards = r.cards
<1> DEFINE f == [r.pending EXCEPT ![c] = intent[c]]
<1>1. f \in Choice
  BY DEF TypeOK, Runtimes, Choice
<1>2. Returned(r, c) = r \/ Returned(r, c) = [r EXCEPT !.pending = f]
  BY DEF Returned
<1> HIDE DEF f
<1>3. CASE Returned(r, c) = r
  BY <1>3 DEF SameOwner, SameTransition
<1>4. CASE Returned(r, c) = [r EXCEPT !.pending = f]
  BY <1>1, <1>4, PendingReplaced
<1> QED
  BY <1>2, <1>3, <1>4

-----------------------------------------------------------------------------
(* The same while a request owns the flag. *)

\* The main loop moves the transition of the request, or its rollback.
Moves(r) ==
  /\ Holds(r) /\ r.signaled = "none" /\ r.awaited /\ r.answer = "none" /\ staged = None
  /\ \/ client.pc = "apply"
     \/ client.pc \in {"rollback", "undo"} /\ r.phase = "restoring"

Forward(q, r) == GoesOn(q, r) \/ IsPrepared(q, r) \/ TurnsBack(q, r)

LEMMA MovesForward ==
  ASSUME NEW r \in Runtimes, NEW q \in Runtimes, Moves(r), client.pc = "apply",
         Forward(q, r), GoesOn(q, r) => q.timer
  PROVE  ClientOK(q)
<1>1. Holds(q)
  BY DEF Moves, Holds, Forward, GoesOn, IsPrepared, TurnsBack, GoesBack, Ended, SameOwner
<1>2. CASE GoesOn(q, r)
  BY <1>1, <1>2 DEF Moves, GoesOn, SameOwner, ClientOK, Waits
<1>3. CASE IsPrepared(q, r)
  BY <1>1, <1>3 DEF Moves, IsPrepared, ClientOK, IsAnswered, AnsweredIn
<1>4. CASE TurnsBack(q, r) /\ Ended(q, r)
  <2>1. q.answer = "error"
    BY <1>4 DEF Moves, TurnsBack, GoesBack, Ended
  <2> QED
    BY <1>1, <1>4, <2>1 DEF Moves, Ended, ClientOK, IsAnswered, AnsweredIn
<1>5. CASE TurnsBack(q, r) /\ ~Ended(q, r)
  <2>1. q.phase = "restoring" /\ q.timer /\ SameOwner(q, r) /\ q.failure # {}
    BY <1>5 DEF TurnsBack, GoesBack
  <2> QED
    BY <1>1, <2>1 DEF Moves, SameOwner, ClientOK, Waits
<1> QED
  BY <1>2, <1>3, <1>4, <1>5 DEF Forward

LEMMA MovesBack ==
  ASSUME NEW r \in Runtimes, NEW q \in Runtimes, Moves(r), NEW failure,
         GoesBack(q, r, failure), q.phase = "restoring" => q.timer,
         client.pc = "apply" => failure # {}
  PROVE  ClientOK(q)
<1>1. Holds(q)
  BY DEF Moves, Holds, GoesBack, Ended, SameOwner
<1>2. CASE Ended(q, r)
  <2>1. client.pc = "apply" => q.answer = "error"
    BY <1>2 DEF Moves, GoesBack, Ended
  <2>2. /\ q.phase = "idle" /\ ~q.timer /\ q.signaled = "none" /\ ~q.awaited
        /\ q.answer # "none"
    BY <1>2 DEF Moves, Ended
  <2> QED
    BY <1>1, <2>1, <2>2 DEF Moves, ClientOK, IsAnswered, AnsweredIn
<1>3. CASE ~Ended(q, r)
  <2>1. q.phase = "restoring" /\ q.timer /\ SameOwner(q, r) /\ failure \subseteq q.failure
    BY <1>3 DEF GoesBack
  <2>2. client.pc = "apply" => q.failure # {}
    BY <2>1
  <2> QED
    BY <1>1, <2>1, <2>2 DEF Moves, SameOwner, ClientOK, Waits
<1> QED
  BY <1>2, <1>3

\* While the request holds the flag no restoration starts.
LEMMA NothingElseStarts ==
  ASSUME NEW q \in Runtimes, Holds(q)
  PROVE  AdvancePending(q) = q
  BY StartRestoreOutcome DEF Holds, AdvancePending

LEMMA PhasesOfClient ==
  ASSUME NEW r \in Runtimes, ClientOK(r), client.pc # "idle"
  PROVE  /\ r.phase \in {"idle", "prepared"} \/ (Waits(r) /\ Moves(r))
         /\ r.phase \in {"applying", "settling"} => client.pc = "apply"
         /\ r.phase = "restoring" /\ client.pc = "apply" => r.failure # {}
<1>1. Asks(r) \/ IsAnswered(r) => r.phase \in {"idle", "prepared"}
  BY DEF Asks, IsAnswered, AskedIn, AnsweredIn
<1>2. CASE Asks(r) \/ IsAnswered(r)
  BY <1>1, <1>2
<1>3. CASE Waits(r) /\ client.pc \in {"change", "revert"}
  <2>1. r.phase \in {"idle", "prepared"}
    BY <1>3 DEF Waits, AskedIn
  <2> QED
    BY <2>1
<1>4. CASE Waits(r) /\ client.pc \notin {"change", "revert"}
  <2>1. Moves(r)
    BY <1>4 DEF ClientOK, Waits, Moves
  <2>2. /\ r.phase \in {"applying", "settling"} => client.pc = "apply"
        /\ r.phase = "restoring" /\ client.pc = "apply" => r.failure # {}
    BY <1>4 DEF Waits
  <2> QED
    BY <1>4, <2>1, <2>2
<1> QED
  BY <1>2, <1>3, <1>4 DEF ClientOK

LEMMA HandledClient ==
  ASSUME NEW r \in Runtimes, ClientOK(r), client.pc # "idle"
  PROVE  /\ Handled(r) \in Runtimes /\ ClientOK(Handled(r))
         /\ \/ r.phase \notin {"applying", "restoring"} /\ Handled(r) = r
            \/ /\ r.phase = "applying" /\ Forward(Handled(r), r)
               /\ SameProfiles(Handled(r), r)
            \/ r.phase = "restoring" /\ GoesBack(Handled(r), r, r.failure)
<1> DEFINE q == Advance(r)
<1>1. Handled(r) = IF q.phase # "idle" THEN q ELSE AdvancePending(q)
  BY DEF Handled
<1>2. ASSUME q \in Runtimes, ClientOK(q) PROVE Handled(r) = q
  BY <1>1, <1>2, NothingElseStarts DEF ClientOK
<1>3. CASE r.phase = "applying"
  <2>1. q = AdvanceApplication(r) /\ Waits(r) /\ Moves(r) /\ client.pc = "apply"
    BY <1>3, PhasesOfClient DEF Advance
  <2>2. q \in Runtimes /\ Forward(q, r) /\ SameProfiles(q, r)
    BY <1>3, <2>1, AdvanceApplicationOutcome DEF Forward
  <2>3. GoesOn(q, r) => q.timer
    BY <2>1 DEF GoesOn, Waits
  <2> HIDE DEF q
  <2>4. ClientOK(q)
    BY <2>1, <2>2, <2>3, MovesForward
  <2> QED
    BY <1>2, <1>3, <2>2, <2>4
<1>4. CASE r.phase = "restoring"
  <2>1. /\ q = AdvanceRestoration(r) /\ Waits(r) /\ Moves(r)
        /\ client.pc = "apply" => r.failure # {}
    BY <1>4, PhasesOfClient DEF Advance
  <2>2. q \in Runtimes /\ GoesBack(q, r, r.failure) /\ (q.phase = "restoring" => q.timer)
    BY <1>4, <2>1, AdvanceRestorationOutcome DEF Waits
  <2> HIDE DEF q
  <2>3. ClientOK(q)
    BY <2>1, <2>2, MovesBack
  <2> QED
    BY <1>2, <1>4, <2>2, <2>3
<1>5. CASE r.phase \notin {"applying", "restoring"}
  BY <1>2, <1>5 DEF Advance
<1> QED
  BY <1>3, <1>4, <1>5

\* The timer while the transition of a request settles.
LEMMA SettleTimeoutOutcome ==
  ASSUME NEW r \in Runtimes, r.phase = "settling"
  PROVE  LET q == SettleTimeout(r)
         IN q \in Runtimes /\ SameProfiles(q, r) /\ Forward(q, r) /\ (GoesOn(q, r) => q.timer)
<1> DEFINE attempts == r.attempts + 1
           counted == [r EXCEPT !.attempts = attempts]
           inputs == RestoreInputs(r, Touched(r))
           again == [inputs EXCEPT !.attempts = attempts, !.timer = TRUE]
<1>1. CASE Verified(r)
  <2>1. SettleTimeout(r) = Prepared(r)
    BY <1>1 DEF SettleTimeout
  <2> QED
    BY <2>1, PreparedOutcome DEF Forward, GoesOn, IsPrepared
<1>2. CASE ~Verified(r) /\ OutputsVerified(r) /\ r.attempts < 2
  <2>1. attempts \in 0 .. 2
    BY <1>2 DEF Runtimes
  <2>2. inputs \in Runtimes /\ Same(inputs, r) /\ inputs.attempts = r.attempts
    <3>1. Touched(r) \in SUBSET Cards
      BY DEF Touched
    <3> QED
      BY <3>1, RestoreInputsOutcome DEF RestoreInputs, Runtimes
  <2>3. SettleTimeout(r) = IF \E c \in Touched(r) : Present(r, c) /\ Locked(r, c)
                           THEN RollBack(counted, {"change"}) ELSE again
    BY <1>2, <2>2 DEF SettleTimeout
  <2> HIDE DEF attempts, inputs
  <2>4. counted \in Runtimes
    BY <2>1, Zenon DEF Runtimes
  <2>5. /\ SameOwner(counted, r) /\ SameProfiles(counted, r) /\ counted.previous = r.previous
        /\ counted.cards = r.cards
    BY DEF Runtimes, SameOwner, SameProfiles
  <2> HIDE DEF counted
  <2>6. LET q == RollBack(counted, {"change"})
        IN q \in Runtimes /\ SameProfiles(q, counted) /\ TurnsBack(q, counted)
    BY <2>4, TurnsBackOutcome
  <2>7. LET q == RollBack(counted, {"change"})
        IN q \in Runtimes /\ SameProfiles(q, r) /\ TurnsBack(q, r) /\ ~GoesOn(q, r)
    BY <2>5, <2>6 DEF SameProfiles, TurnsBack, GoesBack, Ended, AllBack, SameOwner, Touched,
                      Present, GoesOn
  <2>8. again \in Runtimes
    BY <2>1, <2>2, Zenon DEF Runtimes
  <2>9. SameProfiles(again, r) /\ GoesOn(again, r) /\ again.timer
    BY <2>2 DEF Runtimes, Same, SameOwner, SameTransition, SameProfiles, GoesOn
  <2> HIDE DEF again
  <2> QED
    BY <2>3, <2>7, <2>8, <2>9 DEF Forward
<1>3. CASE ~Verified(r) /\ ~(OutputsVerified(r) /\ r.attempts < 2)
  <2>1. SettleTimeout(r) = RollBack(r, {"change"})
    BY <1>3 DEF SettleTimeout
  <2> QED
    BY <2>1, TurnsBackOutcome DEF Forward, GoesOn, TurnsBack, GoesBack, Ended
<1> QED
  BY <1>1, <1>2, <1>3

\* The timer has fired for the request: its transition goes on, turns back, or is
\* given up with a report.
LEMMA TimeoutClient ==
  ASSUME NEW r \in Runtimes, ClientOK(r), client.pc # "idle", staged = None, r.timer
  PROVE  LET t == [r EXCEPT !.timer = FALSE]
             q == Timeout(t)
         IN /\ q \in Runtimes /\ ClientOK(q)
            /\ r.phase \in {"applying", "settling", "restoring"}
            /\ IF r.phase = "restoring" THEN q.phase = "idle" /\ "restoration" \in q.report
                                        ELSE Forward(q, t) /\ SameProfiles(q, t)
<1> DEFINE t == [r EXCEPT !.timer = FALSE]
           q == Timeout(t)
<1>1. /\ t \in Runtimes /\ SameOwner(t, r) /\ t.phase = r.phase /\ t.failure = r.failure
  BY UntimedOutcome
<1> HIDE DEF t
<1>2. Waits(r)
  BY DEF ClientOK, Asks, IsAnswered
<1>3. Moves(t)
  BY <1>1, <1>2 DEF ClientOK, Holds, Waits, Moves, SameOwner
<1>4. CASE r.phase = "settling"
  <2>1. q = SettleTimeout(t) /\ client.pc = "apply"
    BY <1>1, <1>2, <1>4 DEF Timeout, Waits, AskedIn
  <2>2. /\ q \in Runtimes /\ Forward(q, t) /\ SameProfiles(q, t)
        /\ GoesOn(q, t) => q.timer
    BY <1>1, <1>4, <2>1, SettleTimeoutOutcome
  <2> HIDE DEF q
  <2>3. ClientOK(q)
    BY <1>1, <1>3, <2>1, <2>2, MovesForward
  <2> QED
    BY <1>4, <2>2, <2>3 DEF q, t
<1>5. CASE r.phase = "applying"
  <2>1. q = RollBack(t, {"change"}) /\ client.pc = "apply"
    BY <1>1, <1>2, <1>5 DEF Timeout, Waits, AskedIn
  <2>2. q \in Runtimes /\ TurnsBack(q, t) /\ SameProfiles(q, t)
    BY <1>1, <2>1, TurnsBackOutcome
  <2> HIDE DEF q
  <2>3. GoesOn(q, t) => q.timer
    BY <2>2 DEF GoesOn, TurnsBack, GoesBack, Ended
  <2>4. ClientOK(q)
    BY <1>1, <1>3, <2>1, <2>2, <2>3, MovesForward DEF Forward
  <2> QED
    BY <1>5, <2>2, <2>4 DEF q, t, Forward
<1>6. CASE r.phase = "restoring"
  <2> DEFINE failure == t.failure \cup {"restoration"}
             late == [t EXCEPT !.failure = failure]
  <2>1. q = FinishRestoration(late)
    BY <1>1, <1>6 DEF Timeout
  <2>2. failure \in SUBSET {"change", "restoration"} /\ "restoration" \in failure
    BY <1>1 DEF Runtimes
  <2> HIDE DEF failure
  <2>3. late \in Runtimes
    BY <1>1, <2>2, Zenon DEF Runtimes
  <2>4. SameOwner(late, t) /\ late.failure = failure
    BY <1>1 DEF Runtimes, SameOwner
  <2> HIDE DEF late, q
  <2>5. /\ q \in Runtimes /\ Ended(q, late) /\ q.report = failure
        /\ late.awaited => q.answer = "error"
    BY <2>1, <2>2, <2>3, <2>4, FinishOutcome
  <2>6. Ended(q, t) /\ (t.awaited => q.answer = "error")
    BY <2>4, <2>5 DEF Ended, SameOwner
  <2>7. Holds(q)
    BY <1>3, <2>6 DEF Moves, Holds, Ended
  <2>8. ClientOK(q)
    BY <1>3, <2>6, <2>7 DEF Moves, Ended, ClientOK, IsAnswered, AnsweredIn
  <2>9. q.phase = "idle" /\ "restoration" \in q.report
    BY <2>2, <2>5 DEF Ended
  <2> QED
    BY <1>6, <2>5, <2>8, <2>9 DEF q, t
<1>7. r.phase \in {"applying", "settling", "restoring"}
  BY <1>2 DEF Waits
<1> QED
  BY <1>4, <1>5, <1>6, <1>7

-----------------------------------------------------------------------------
(* The stages of a request. *)

\* The main loop takes the event of a stage.
LEMMA TakenOutcome ==
  ASSUME NEW r \in Runtimes
  PROVE  LET q == [r EXCEPT !.signaled = "none"]
         IN /\ q \in Runtimes /\ SameTransition(q, r)
            /\ q.cards = r.cards /\ q.pending = r.pending /\ q.missing = r.missing
            /\ q.requested = r.requested
            /\ q.restore = r.restore /\ q.rollback = r.rollback
            /\ q.outputTransitionActive = r.outputTransitionActive
            /\ q.starting = r.starting
            /\ q.signaled = "none" /\ q.awaited = r.awaited /\ q.answer = r.answer
<1>1. "none" \in Stages \cup {"none"}
  OBVIOUS
<1>2. [r EXCEPT !.signaled = "none"] \in Runtimes
  BY <1>1, Zenon DEF Runtimes
<1> QED
  BY <1>2 DEF Runtimes, SameTransition

LEMMA AppliedOutcome ==
  ASSUME NEW r \in Runtimes, NEW selection \in Choice, NEW optional \in SUBSET Cards
  PROVE  LET q == Applied(r, selection, optional)
         IN /\ q \in Runtimes
            /\ \E t \in Runtimes : /\ SameOwner(t, r) /\ t.phase = "applying" /\ t.timer
                                   /\ Forward(q, t)
<1> DEFINE selected == {c \in Cards : selection[c] # None}
           failing  == {c \in selected : ~Accepts(r, c, selection[c])
                                            /\ (Present(r, c) \/ c \notin optional)}
           taken    == {c \in selected : Present(r, c) /\ \A d \in failing : c <= d}
           switched == {c \in taken : r.cards[c].profile # selection[c]}
           n        == NoTransition(r)
           recorded == Recorded(n, switched)
           cards    == [c \in Cards |-> IF c \in taken
                                        THEN [recorded.cards[c] EXCEPT !.input = TRUE]
                                        ELSE recorded.cards[c]]
           routes   == recorded.routes \ taken
           previous == [c \in Cards |-> IF c \in taken THEN r.cards[c].profile ELSE None]
           missing  == {c \in selected : ~Present(r, c)}
           asked    == [c \in Cards |-> IF c \in switched \ failing
                                        THEN selection[c] ELSE r.asked[c]]
           started  == [recorded EXCEPT
                          !.cards = cards, !.routes = routes,
                          !.phase = "applying", !.requested = selection,
                          !.optional = optional, !.previous = previous,
                          !.replaced = switched, !.missing = missing,
                          !.asked = asked, !.timer = TRUE]
<1>1. Applied(r, selection, optional) =
        IF failing # {} THEN RollBack(started, {"change"}) ELSE Advance(started)
  BY Zenon DEF Applied
<1>2. switched \in SUBSET Cards /\ missing \in SUBSET Cards /\ taken \in SUBSET Cards
  OBVIOUS
<1>3. previous \in Choice /\ asked \in Choice
  BY CardTypes DEF Choice, Runtimes
<1> HIDE DEF failing, switched, missing, taken, previous, asked
<1>4. n \in Runtimes /\ SameOwner(n, r)
  BY NoTransitionOutcome
<1> HIDE DEF n
<1>5. recorded \in Runtimes /\ SameOwner(recorded, r)
  BY <1>2, <1>4, RecordedOutcome DEF Same, SameOwner
<1> HIDE DEF recorded
<1>6. cards \in [Cards -> CardStates] /\ routes \in SUBSET Cards
  BY <1>5, CardTypes, CardEdits DEF Runtimes
<1> HIDE DEF cards, routes
<1>7. "applying" \in Phases /\ TRUE \in BOOLEAN
  BY DEF Phases
<1>8. started \in Runtimes
  BY <1>2, <1>3, <1>5, <1>6, <1>7, Zenon DEF Runtimes
<1>9. SameOwner(started, r) /\ started.phase = "applying" /\ started.timer
  BY <1>5 DEF Runtimes, SameOwner
<1> HIDE DEF started
<1> DEFINE q == Applied(r, selection, optional)
<1>10. q \in Runtimes /\ Forward(q, started)
  <2>1. CASE failing # {}
    BY <1>1, <1>8, <2>1, TurnsBackOutcome DEF Forward
  <2>2. CASE failing = {}
    <3>1. q = AdvanceApplication(started)
      BY <1>1, <1>9, <2>2 DEF Advance
    <3> QED
      BY <1>8, <1>9, <3>1, AdvanceApplicationOutcome DEF Forward
  <2> QED
    BY <2>1, <2>2
<1> HIDE DEF q
<1>11. \E t \in Runtimes : /\ SameOwner(t, r) /\ t.phase = "applying" /\ t.timer
                           /\ Forward(q, t)
  BY <1>8, <1>9, <1>10
<1> QED
  BY <1>10, <1>11 DEF q

-----------------------------------------------------------------------------
(* Each action keeps the types and the owner. *)

Inv == TypeOK /\ OwnerInv

\* What the types and the owner read of the runtime.
LEMMA SameKeepsOwner ==
  ASSUME NEW r, NEW q, SameOwner(q, r), SameTransition(q, r)
  PROVE  /\ LoopOK(r) => LoopOK(q)
         /\ ClientOK(r) => ClientOK(q)
  BY DEF SameOwner, SameTransition, LoopOK, Rests, Begins, Restores, Unasked,
         ClientOK, Holds, Asks, Waits, IsAnswered

LEMMA OwnerCarried ==
  ASSUME Inv, ~stopped, runtime' \in Runtimes, UNCHANGED <<client, staged>>,
         client.pc = "idle" => LoopOK(runtime'),
         client.pc # "idle" => ClientOK(runtime')
  PROVE  OwnerInv'
<1>1. client.pc = "idle" => staged = None
  BY DEF Inv, OwnerInv, MainLoopInv
<1>2. client.pc # "idle" /\ client.pc # "change" => client.selection # NoCards
  BY DEF Inv, OwnerInv, ClientInv
<1>3. MainLoopInv'
  BY <1>1 DEF MainLoopInv, LoopOK, Rests, Begins, Restores, Unasked
<1>4. ClientInv'
  BY <1>2 DEF ClientInv, ClientOK, Holds, Asks, Waits, IsAnswered
<1> QED
  BY <1>3, <1>4 DEF OwnerInv

LEMMA OwnerNow ==
  ASSUME Inv, ~stopped
  PROVE  /\ runtime \in Runtimes
         /\ client.pc = "idle" => LoopOK(runtime) /\ staged = None
         /\ client.pc # "idle" => ClientOK(runtime)
         /\ client.pc # "idle" /\ client.pc # "change" => client.selection # NoCards
  BY DEF Inv, TypeOK, OwnerInv, MainLoopInv, ClientInv

LEMMA ClientTypes ==
  ASSUME TypeOK
  PROVE  /\ client.pc \in {"idle", "apply", "change", "verify", "finalize", "rollback",
                           "undo", "revert"}
         /\ client.selection \in Choice /\ client.optional \in SUBSET Cards
         /\ client.intent \in Choice /\ client.before \in Choice
  BY DEF TypeOK, Clients

LEMMA InventoryKeepsOwner ==
  ASSUME Inv, NEW c \in Cards, InventoryChanged(c)
  PROVE  Inv'
<1>1. /\ ~stopped /\ ~runtime.starting
      /\ UNCHANGED <<intent, staged, client, stopped, commandsLeft>>
      /\ disturbances' \in Nat
  BY DEF InventoryChanged, Dispatches, Inv, TypeOK
<1>2. PICK r \in Snapshots(c) \cup Interferences(c) : runtime' = Handled(Returned(r, c))
  BY DEF InventoryChanged
<1> DEFINE q == Returned(r, c)
<1>3. TypeOK
  BY DEF Inv
<1>4. r \in Runtimes /\ SameOwner(r, runtime) /\ SameTransition(r, runtime)
  BY <1>3, SnapshotOutcome
<1>5. q \in Runtimes /\ SameOwner(q, r) /\ SameTransition(q, r)
  BY <1>3, <1>4, ReturnedOutcome
<1> HIDE DEF q
<1>6. SameOwner(q, runtime) /\ SameTransition(q, runtime) /\ ~q.starting
  BY <1>1, <1>4, <1>5 DEF SameOwner, SameTransition
<1>7. CASE client.pc = "idle"
  <2>1. LoopOK(q)
    BY <1>1, <1>6, <1>7, OwnerNow, SameKeepsOwner
  <2>2. runtime' \in Runtimes /\ LoopOK(runtime')
    BY <1>2, <1>5, <1>6, <2>1, HandledLoop DEF q
  <2> QED
    BY <1>1, <1>3, <1>7, <2>2, OwnerCarried DEF Inv, TypeOK
<1>8. CASE client.pc # "idle"
  <2>1. ClientOK(q)
    BY <1>1, <1>6, <1>8, OwnerNow, SameKeepsOwner
  <2>2. runtime' \in Runtimes /\ ClientOK(runtime')
    BY <1>2, <1>5, <1>8, <2>1, HandledClient DEF q
  <2> QED
    BY <1>1, <1>3, <1>8, <2>2, OwnerCarried DEF Inv, TypeOK
<1> QED
  BY <1>7, <1>8

\* A staged change waits for its own deadline, never for one of a transition.
LEMMA TimedIsUnstaged ==
  ASSUME Inv, TimerFires
  PROVE  ~stopped /\ staged = None
<1>1. /\ ~stopped
      /\ staged = None \/ runtime.phase \notin {"idle", "prepared"} \/ runtime.restore # None
  BY DEF TimerFires, Dispatches
<1>2. CASE staged # None
  <2>1. client.pc # "idle" /\ ClientOK(runtime)
    BY <1>1, <1>2, OwnerNow
  <2>2. runtime.restore = None /\ runtime.phase = AskedIn(client)
    BY <1>2, <2>1 DEF ClientOK, Holds, Asks, Waits, IsAnswered
  <2> QED
    BY <1>1, <1>2, <2>2 DEF AskedIn
<1> QED
  BY <1>1, <1>2

\* The plain store of the flag, while nobody else has it.
LEMMA StoreKeepsOwner ==
  ASSUME Inv, StoreTransitionActive
  PROVE  Inv'
<1>1. /\ runtime.starting
      /\ runtime' = [runtime EXCEPT !.starting = FALSE, !.outputTransitionActive = TRUE,
                                    !.timer = TRUE]
      /\ UNCHANGED <<intent, staged, client, stopped, disturbances, commandsLeft>>
  BY DEF StoreTransitionActive
<1>2. TypeOK /\ runtime \in Runtimes
  BY DEF Inv, TypeOK
<1>3. runtime' \in Runtimes
  BY <1>1, <1>2, Zenon DEF Runtimes
<1>4. /\ ~runtime'.starting /\ runtime'.outputTransitionActive /\ runtime'.timer
      /\ runtime'.restore = runtime.restore /\ runtime'.rollback = runtime.rollback
      /\ runtime'.phase = runtime.phase /\ runtime'.signaled = runtime.signaled
      /\ runtime'.awaited = runtime.awaited /\ runtime'.answer = runtime.answer
  BY <1>1, <1>2 DEF Runtimes
<1>5. ASSUME ~stopped PROVE client.pc = "idle" /\ LoopOK(runtime')
  <2>1. client.pc = "idle" /\ LoopOK(runtime)
    BY <1>1, <1>5, OwnerNow DEF ClientOK, Holds
  <2>2. runtime.restore # None /\ Begins(runtime)
    BY <1>1, <2>1 DEF LoopOK, Rests, Restores
  <2> QED
    BY <1>4, <2>1, <2>2 DEF LoopOK, Begins, Restores, Unasked
<1>6. ~stopped => OwnerInv'
  BY <1>1, <1>3, <1>5, OwnerCarried
<1> QED
  BY <1>1, <1>2, <1>3, <1>6 DEF Inv, TypeOK, OwnerInv

LEMMA TimerKeepsOwner ==
  ASSUME Inv, TimerFires
  PROVE  Inv'
<1>1. /\ ~stopped /\ staged = None /\ runtime.timer
      /\ runtime' = Timeout([runtime EXCEPT !.timer = FALSE])
      /\ UNCHANGED <<intent, staged, client, disturbances, commandsLeft>>
      /\ stopped' \in BOOLEAN
  BY TimedIsUnstaged DEF TimerFires
<1>2. /\ runtime' \in Runtimes
      /\ client.pc = "idle" => LoopOK(runtime')
      /\ client.pc # "idle" => ClientOK(runtime')
  BY <1>1, OwnerNow, TimeoutLoop, TimeoutClient
<1> QED
  BY <1>1, <1>2, OwnerCarried DEF Inv, TypeOK

LEMMA StopKeepsOwner ==
  ASSUME Inv, Stop
  PROVE  Inv'
<1>1. /\ stopped' = TRUE /\ UNCHANGED <<intent, staged, client, disturbances, commandsLeft>>
      /\ runtime' = Answered([runtime EXCEPT !.signaled = "none"], "error")
  BY DEF Stop
<1>2. runtime' \in Runtimes
  BY <1>1, TakenOutcome, AnsweredOutcome DEF Inv, TypeOK
<1> QED
  BY <1>1, <1>2 DEF Inv, TypeOK, OwnerInv

\* The main loop is asked for a stage by the client that is at it.
LEMMA ServesClient ==
  ASSUME Inv, NEW stage \in Stages, Serves(stage)
  PROVE  /\ ~stopped /\ client.pc # "idle" /\ Holds(runtime) /\ Asks(runtime)
         /\ stage = Stage(client.pc)
<1>1. ~stopped /\ runtime.signaled = stage /\ stage # "none"
  BY DEF Serves, Dispatches, Stages
<1>2. client.pc # "idle"
  BY <1>1, OwnerNow DEF LoopOK, Rests, Begins, Restores, Unasked
<1>3. ClientOK(runtime)
  BY <1>1, <1>2, OwnerNow
<1> QED
  BY <1>1, <1>2, <1>3 DEF ClientOK, Waits, IsAnswered, Asks

LEMMA StagesOfClients ==
  ASSUME TypeOK, client.pc # "idle"
  PROVE  /\ Stage(client.pc) = "apply" => client.pc = "apply"
         /\ Stage(client.pc) = "verify" => client.pc = "verify"
         /\ Stage(client.pc) = "finalize" => client.pc = "finalize"
         /\ Stage(client.pc) = "rollback" => client.pc \in {"rollback", "undo"}
         /\ Stage(client.pc) = "change" => client.pc \in {"change", "revert"}
  BY ClientTypes DEF Stage

\* A stage is answered and leaves the phase it must.
LEMMA StageAnswered ==
  ASSUME NEW r \in Runtimes, NEW a \in {"ok", "error"}, Holds(r), r.signaled = "none",
         r.awaited, ~r.timer, staged = None, r.phase = AnsweredIn(client, a = "ok")
  PROVE  Answered(r, a) \in Runtimes /\ ClientOK(Answered(r, a))
<1>1. LET q == Answered(r, a)
      IN /\ q \in Runtimes /\ SameTransition(q, r) /\ q.restore = r.restore
         /\ q.rollback = r.rollback /\ q.outputTransitionActive = r.outputTransitionActive
         /\ q.starting = r.starting
         /\ q.signaled = r.signaled /\ ~q.awaited /\ q.answer = a
  BY AnsweredOutcome
<1> QED
  BY <1>1 DEF Holds, SameTransition, ClientOK, IsAnswered

LEMMA ApplyKeepsOwner ==
  ASSUME Inv, ApplyProfiles
  PROVE  Inv'
<1> DEFINE r == [runtime EXCEPT !.signaled = "none"]
<1>1. /\ Serves("apply")
      /\ UNCHANGED <<intent, staged, client, stopped, disturbances, commandsLeft>>
      /\ \/ runtime' = Answered(r, "error")
         \/ runtime' = Applied(r, client.selection, client.optional)
  BY DEF ApplyProfiles
<1>2. /\ ~stopped /\ client.pc = "apply" /\ Holds(runtime) /\ Asks(runtime)
      /\ TypeOK /\ runtime \in Runtimes
  BY <1>1, ServesClient, StagesOfClients DEF Inv, TypeOK, Stages
<1>3. /\ r \in Runtimes /\ Holds(r) /\ r.signaled = "none" /\ r.awaited
      /\ r.answer = "none" /\ ~r.timer /\ staged = None /\ r.phase = "idle"
  BY <1>2, TakenOutcome DEF Holds, Asks, AskedIn, SameTransition
<1> HIDE DEF r
<1>4. CASE runtime' = Answered(r, "error")
  <2>1. r.phase = AnsweredIn(client, "error" = "ok")
    BY <1>2, <1>3 DEF AnsweredIn
  <2>2. runtime' \in Runtimes /\ ClientOK(runtime')
    BY <1>3, <1>4, <2>1, StageAnswered
  <2> QED
    BY <1>1, <1>2, <2>2, OwnerCarried DEF Inv, TypeOK
<1>5. CASE runtime' = Applied(r, client.selection, client.optional)
  <2>1. client.selection \in Choice /\ client.optional \in SUBSET Cards
    BY <1>2, ClientTypes
  <2>2. runtime' \in Runtimes
        /\ \E t \in Runtimes : /\ SameOwner(t, r) /\ t.phase = "applying" /\ t.timer
                               /\ Forward(runtime', t)
    BY <1>3, <1>5, <2>1, AppliedOutcome
  <2>3. PICK t \in Runtimes : /\ SameOwner(t, r) /\ t.phase = "applying" /\ t.timer
                              /\ Forward(runtime', t)
    BY <2>2
  <2>4. Moves(t) /\ (GoesOn(runtime', t) => runtime'.timer)
    BY <1>2, <1>3, <2>3 DEF Moves, Holds, SameOwner, GoesOn
  <2>5. ClientOK(runtime')
    BY <1>2, <2>2, <2>3, <2>4, MovesForward
  <2> QED
    BY <1>1, <1>2, <2>2, <2>5, OwnerCarried DEF Inv, TypeOK
<1> QED
  BY <1>1, <1>4, <1>5

LEMMA VerifyKeepsOwner ==
  ASSUME Inv, VerifyProfiles
  PROVE  Inv'
<1> DEFINE r == [runtime EXCEPT !.signaled = "none"]
<1>1. /\ Serves("verify")
      /\ UNCHANGED <<intent, staged, client, stopped, disturbances, commandsLeft>>
      /\ \E a \in {"ok", "error"} : runtime' = Answered(r, a)
  BY DEF VerifyProfiles
<1>2. /\ ~stopped /\ client.pc = "verify" /\ Holds(runtime) /\ Asks(runtime)
      /\ TypeOK /\ runtime \in Runtimes
  BY <1>1, ServesClient, StagesOfClients DEF Inv, TypeOK, Stages
<1>3. /\ r \in Runtimes /\ Holds(r) /\ r.signaled = "none" /\ r.awaited
      /\ ~r.timer /\ staged = None /\ r.phase = AskedIn(client)
  BY <1>2, TakenOutcome DEF Holds, Asks, SameTransition
<1> HIDE DEF r
<1>4. PICK a \in {"ok", "error"} : runtime' = Answered(r, a)
  BY <1>1
<1>5. r.phase = AnsweredIn(client, a = "ok")
  BY <1>2, <1>3 DEF AnsweredIn
<1>6. runtime' \in Runtimes /\ ClientOK(runtime')
  BY <1>3, <1>4, <1>5, StageAnswered
<1> QED
  BY <1>1, <1>2, <1>6, OwnerCarried DEF Inv, TypeOK

LEMMA FinalizedOutcome ==
  ASSUME NEW r \in Runtimes, r.awaited
  PROVE  LET q == Finalized(r)
         IN /\ q \in Runtimes /\ q.phase = "idle" /\ ~q.timer /\ ~q.awaited
            /\ q.answer = "ok" /\ q.signaled = r.signaled
            /\ q.restore = r.restore /\ q.rollback = r.rollback
            /\ q.outputTransitionActive = r.outputTransitionActive
            /\ q.starting = r.starting
<1> DEFINE n == NoTransition(r)
           answered == Answered(n, "ok")
           f == [c \in Cards |-> IF c \in r.missing THEN r.requested[c]
                                 ELSE IF r.requested[c] # None THEN None ELSE r.pending[c]]
           q == [answered EXCEPT !.timer = FALSE, !.pending = f]
<1>1. n \in Runtimes /\ SameOwner(n, r) /\ n.phase = "idle"
  BY NoTransitionOutcome
<1> HIDE DEF n
<1>2. /\ answered \in Runtimes /\ answered.phase = "idle" /\ answered.restore = r.restore
      /\ answered.rollback = r.rollback /\ answered.signaled = r.signaled
      /\ answered.outputTransitionActive = r.outputTransitionActive
      /\ answered.starting = r.starting
      /\ ~answered.awaited /\ answered.answer = "ok"
  BY <1>1, AnsweredOutcome DEF SameOwner, SameTransition
<1> HIDE DEF answered
<1>3. f \in Choice
  BY CardTypes DEF Choice
<1>4. Finalized(r) = q
  BY DEF Finalized, answered, n
<1> HIDE DEF f
<1>5. q \in Runtimes
  BY <1>2, <1>3, Zenon DEF Runtimes
<1>6. /\ q.phase = "idle" /\ ~q.timer /\ ~q.awaited
      /\ q.answer = "ok" /\ q.signaled = r.signaled
      /\ q.restore = r.restore /\ q.rollback = r.rollback
      /\ q.outputTransitionActive = r.outputTransitionActive
      /\ q.starting = r.starting
  BY <1>2 DEF Runtimes
<1> QED
  BY <1>4, <1>5, <1>6

LEMMA FinalizeKeepsOwner ==
  ASSUME Inv, FinalizeProfiles
  PROVE  Inv'
<1> DEFINE r == [runtime EXCEPT !.signaled = "none"]
<1>1. /\ Serves("finalize")
      /\ UNCHANGED <<intent, staged, client, stopped, disturbances, commandsLeft>>
      /\ \/ runtime' = Finalized(r)
         \/ runtime' = Answered(r, "error")
  BY DEF FinalizeProfiles
<1>2. /\ ~stopped /\ client.pc = "finalize" /\ Holds(runtime) /\ Asks(runtime)
      /\ TypeOK /\ runtime \in Runtimes
  BY <1>1, ServesClient, StagesOfClients DEF Inv, TypeOK, Stages
<1>3. /\ r \in Runtimes /\ Holds(r) /\ r.signaled = "none" /\ r.awaited
      /\ ~r.timer /\ staged = None /\ r.phase = AskedIn(client)
  BY <1>2, TakenOutcome DEF Holds, Asks, SameTransition
<1>4. r.phase = "prepared"
  BY <1>2, <1>3, OwnerNow DEF AskedIn
<1> HIDE DEF r
<1>5. CASE runtime' = Finalized(r)
  <2>1. /\ runtime' \in Runtimes /\ runtime'.phase = "idle" /\ ~runtime'.timer
        /\ ~runtime'.awaited /\ runtime'.answer = "ok" /\ runtime'.signaled = r.signaled
        /\ runtime'.restore = r.restore /\ runtime'.rollback = r.rollback
        /\ runtime'.outputTransitionActive = r.outputTransitionActive
        /\ runtime'.starting = r.starting
    BY <1>3, <1>5, FinalizedOutcome
  <2>2. ClientOK(runtime')
    BY <1>2, <1>3, <2>1 DEF Holds, ClientOK, IsAnswered, AnsweredIn
  <2> QED
    BY <1>1, <1>2, <2>1, <2>2, OwnerCarried DEF Inv, TypeOK
<1>6. CASE runtime' = Answered(r, "error")
  <2>1. r.phase = AnsweredIn(client, "error" = "ok")
    BY <1>2, <1>4 DEF AnsweredIn
  <2>2. runtime' \in Runtimes /\ ClientOK(runtime')
    BY <1>3, <1>6, <2>1, StageAnswered
  <2> QED
    BY <1>1, <1>2, <2>2, OwnerCarried DEF Inv, TypeOK
<1> QED
  BY <1>1, <1>5, <1>6

LEMMA RollBackKeepsOwner ==
  ASSUME Inv, RollBackProfiles
  PROVE  Inv'
<1> DEFINE r == [runtime EXCEPT !.signaled = "none"]
<1>1. /\ Serves("rollback")
      /\ UNCHANGED <<intent, staged, client, stopped, disturbances, commandsLeft>>
      /\ runtime' = RollBack(r, runtime.failure)
  BY DEF RollBackProfiles
<1>2. /\ ~stopped /\ client.pc \in {"rollback", "undo"} /\ Holds(runtime) /\ Asks(runtime)
      /\ TypeOK /\ runtime \in Runtimes
  BY <1>1, ServesClient, StagesOfClients DEF Inv, TypeOK, Stages
<1>3. /\ r \in Runtimes /\ Holds(r) /\ r.signaled = "none" /\ r.awaited
      /\ r.answer = "none" /\ staged = None
  BY <1>2, TakenOutcome DEF Holds, Asks
<1>4. runtime.failure \in SUBSET {"change", "restoration"}
  BY <1>2 DEF Runtimes
<1> HIDE DEF r
<1>5. /\ runtime' \in Runtimes /\ GoesBack(runtime', r, runtime.failure)
      /\ runtime'.phase = "restoring" => runtime'.timer
  BY <1>1, <1>3, <1>4, RollBackOutcome
<1>6. Holds(runtime')
  BY <1>3, <1>5 DEF Holds, GoesBack, Ended, SameOwner
<1>7. ClientOK(runtime')
  <2>1. CASE Ended(runtime', r)
    BY <1>2, <1>3, <1>6, <2>1 DEF Ended, ClientOK, IsAnswered, AnsweredIn
  <2>2. CASE ~Ended(runtime', r)
    BY <1>2, <1>3, <1>5, <1>6, <2>2 DEF GoesBack, SameOwner, ClientOK, Waits
  <2> QED
    BY <2>1, <2>2
<1> QED
  BY <1>1, <1>2, <1>5, <1>7, OwnerCarried DEF Inv, TypeOK

LEMMA ChangeKeepsOwner ==
  ASSUME Inv, ChangeOutput
  PROVE  Inv'
<1> DEFINE r == [runtime EXCEPT !.signaled = "none"]
           D == Discarded(r, intent, client.intent)
<1>1. /\ Serves("change") /\ UNCHANGED <<client, stopped, disturbances, commandsLeft>>
      /\ \/ runtime' = Answered(r, "error") /\ UNCHANGED <<intent, staged>>
         \/ runtime' = Answered(D, "ok") /\ intent' = client.intent /\ UNCHANGED staged
         \/ /\ runtime' = [r EXCEPT !.timer = TRUE]
            /\ staged' = intent /\ intent' = client.intent
  BY DEF ChangeOutput
<1>2. /\ ~stopped /\ client.pc \in {"change", "revert"} /\ Holds(runtime) /\ Asks(runtime)
      /\ TypeOK /\ runtime \in Runtimes
  BY <1>1, ServesClient, StagesOfClients DEF Inv, TypeOK, Stages
<1>3. /\ r \in Runtimes /\ Holds(r) /\ r.signaled = "none" /\ r.awaited
      /\ r.answer = "none" /\ ~r.timer /\ staged = None /\ r.phase = AskedIn(client)
  BY <1>2, TakenOutcome DEF Holds, Asks, SameTransition
<1>4. client.intent \in Choice /\ intent \in Choice
  BY <1>2, ClientTypes DEF TypeOK
<1> HIDE DEF r
<1>5. \A ok \in BOOLEAN : AnsweredIn(client, ok) = AskedIn(client)
  BY <1>2 DEF AnsweredIn
<1>6. CASE runtime' = Answered(r, "error") /\ UNCHANGED <<intent, staged>>
  <2>1. runtime' \in Runtimes /\ ClientOK(runtime')
    BY <1>3, <1>5, <1>6, StageAnswered
  <2> QED
    BY <1>1, <1>2, <1>6, <2>1, OwnerCarried DEF Inv, TypeOK
<1>7. CASE runtime' = Answered(D, "ok") /\ intent' = client.intent /\ UNCHANGED staged
  <2>1. D \in Runtimes /\ SameOwner(D, r) /\ SameTransition(D, r)
    BY <1>3, ForgetOutcome DEF Discarded
  <2> HIDE DEF D
  <2>2. /\ Holds(D) /\ D.signaled = "none" /\ D.awaited /\ ~D.timer
        /\ D.phase = AnsweredIn(client, "ok" = "ok")
    BY <1>3, <1>5, <2>1 DEF Holds, SameOwner, SameTransition
  <2>3. runtime' \in Runtimes /\ ClientOK(runtime')
    BY <1>3, <1>7, <2>1, <2>2, StageAnswered
  <2> QED
    BY <1>1, <1>2, <1>4, <1>7, <2>3, OwnerCarried DEF Inv, TypeOK
<1>8. CASE /\ runtime' = [r EXCEPT !.timer = TRUE]
           /\ staged' = intent /\ intent' = client.intent
  <2>1. runtime' \in Runtimes
    BY <1>3, <1>8, Zenon DEF Runtimes
  <2>2. /\ runtime'.timer /\ SameOwner(runtime', r) /\ runtime'.phase = r.phase
    BY <1>3, <1>8 DEF Runtimes, SameOwner
  <2>3. staged' # None
    BY <1>4, <1>8, NoneAssumption
  <2>4. /\ runtime'.signaled = "none" /\ runtime'.awaited /\ runtime'.answer = "none"
        /\ runtime'.phase = AskedIn(client) /\ Holds(runtime')
    BY <1>3, <2>2 DEF SameOwner, Holds
  <2>5. ClientInv'
    BY <1>1, <1>2, <2>2, <2>3, <2>4, OwnerNow
       DEF ClientInv, ClientOK, Waits, Holds, AskedIn
  <2>6. MainLoopInv'
    BY <1>1, <1>2 DEF MainLoopInv
  <2> QED
    BY <1>1, <1>2, <1>4, <1>8, <2>1, <2>5, <2>6 DEF Inv, OwnerInv, TypeOK
<1> QED
  BY <1>1, <1>6, <1>7, <1>8

\* A staged change belongs to the request, and is over when it is committed or
\* rolled back.
LEMMA StagedEnds ==
  ASSUME Inv, ~stopped, staged # None, NEW r \in Runtimes, NEW a \in {"ok", "error"},
         SameOwner(r, runtime), r.phase = runtime.phase, ~r.timer,
         runtime' = Answered(r, a), staged' = None, UNCHANGED <<client, stopped>>
  PROVE  runtime' \in Runtimes /\ OwnerInv'
<1>1. client.pc # "idle" /\ client.pc # "change" => client.selection # NoCards
  BY OwnerNow
<1>2. /\ client.pc \in {"change", "revert"} /\ runtime.phase = AskedIn(client)
      /\ runtime.signaled = "none" /\ runtime.awaited /\ Holds(runtime)
  BY OwnerNow DEF ClientOK, Asks, Waits, IsAnswered
<1>3. LET q == Answered(r, a)
      IN /\ q \in Runtimes /\ SameTransition(q, r) /\ q.restore = r.restore
         /\ q.rollback = r.rollback /\ q.outputTransitionActive = r.outputTransitionActive
         /\ q.starting = r.starting
         /\ q.signaled = r.signaled /\ ~q.awaited /\ q.answer = IF r.awaited THEN a ELSE r.answer
  BY AnsweredOutcome
<1>4. /\ runtime' \in Runtimes /\ runtime'.phase = AskedIn(client) /\ ~runtime'.timer
      /\ runtime'.restore = None /\ ~runtime'.rollback /\ runtime'.outputTransitionActive
      /\ ~runtime'.starting
      /\ runtime'.signaled = "none" /\ ~runtime'.awaited /\ runtime'.answer # "none"
  BY <1>2, <1>3 DEF SameOwner, SameTransition, Holds
<1>5. \A ok \in BOOLEAN : AnsweredIn(client, ok) = AskedIn(client)
  BY <1>2 DEF AnsweredIn
<1>6. runtime'.phase = AnsweredIn(client, runtime'.answer = "ok")
  BY <1>4, <1>5
<1>7. ClientInv'
  BY <1>1, <1>2, <1>4, <1>6
     DEF ClientInv, ClientOK, IsAnswered, Holds, AnsweredIn, AskedIn
<1>8. MainLoopInv'
  BY <1>2 DEF MainLoopInv
<1> QED
  BY <1>4, <1>7, <1>8 DEF OwnerInv

LEMMA CommitKeepsOwner ==
  ASSUME Inv, CommitOutput
  PROVE  Inv'
<1> DEFINE D == Discarded(runtime, staged, intent)
           r == [D EXCEPT !.timer = FALSE]
<1>1. /\ ~stopped /\ staged # None /\ runtime' = Answered(r, "ok") /\ staged' = None
      /\ UNCHANGED <<intent, client, stopped, disturbances, commandsLeft>>
  BY DEF CommitOutput, Dispatches
<1>2. D \in Runtimes /\ SameOwner(D, runtime) /\ SameTransition(D, runtime)
  BY <1>1, OwnerNow, ForgetOutcome DEF Discarded
<1> HIDE DEF D
<1>3. r \in Runtimes /\ SameOwner(r, D) /\ ~r.timer /\ r.phase = D.phase
  BY <1>2, UntimedOutcome
<1> HIDE DEF r
<1>4. SameOwner(r, runtime) /\ r.phase = runtime.phase
  BY <1>2, <1>3 DEF SameOwner, SameTransition
<1>5. runtime' \in Runtimes /\ OwnerInv'
  BY <1>1, <1>3, <1>4, StagedEnds
<1> QED
  BY <1>1, <1>5 DEF Inv, TypeOK

LEMMA RollBackOutputKeepsOwner ==
  ASSUME Inv, RollBackOutput
  PROVE  Inv'
<1> DEFINE r == [runtime EXCEPT !.timer = FALSE]
<1>1. /\ ~stopped /\ staged # None /\ runtime' = Answered(r, "error")
      /\ intent' = staged /\ staged' = None
      /\ UNCHANGED <<client, stopped, disturbances, commandsLeft>>
  BY DEF RollBackOutput, Dispatches
<1>2. r \in Runtimes /\ SameOwner(r, runtime) /\ ~r.timer /\ r.phase = runtime.phase
  BY <1>1, OwnerNow, UntimedOutcome
<1> HIDE DEF r
<1>3. runtime' \in Runtimes /\ OwnerInv'
  BY <1>1, <1>2, StagedEnds
<1> QED
  BY <1>1, <1>3 DEF Inv, TypeOK

LEMMA RequestedOutcome ==
  ASSUME NEW r \in Runtimes, NEW stage \in Stages
  PROVE  LET q == Requested(r, stage)
         IN /\ q \in Runtimes /\ SameTransition(q, r) /\ q.restore = r.restore
            /\ q.rollback = r.rollback /\ q.outputTransitionActive = r.outputTransitionActive
            /\ q.starting = r.starting
            /\ ~stopped => q.signaled = stage /\ q.awaited /\ q.answer = "none"
<1>1. stage \in Stages \cup {"none"} /\ TRUE \in BOOLEAN /\ "none" \in {"none", "ok", "error"}
      /\ "error" \in {"none", "ok", "error"}
  OBVIOUS
<1>2. CASE stopped
  <2>1. [r EXCEPT !.answer = "error"] \in Runtimes
    BY <1>1, Zenon DEF Runtimes
  <2> QED
    BY <1>2, <2>1 DEF Requested, Runtimes, SameTransition
<1>3. CASE ~stopped
  <2>1. [r EXCEPT !.signaled = stage, !.awaited = TRUE, !.answer = "none"] \in Runtimes
    BY <1>1, Zenon DEF Runtimes
  <2> QED
    BY <1>3, <2>1 DEF Requested, Runtimes, SameTransition
<1> QED
  BY <1>2, <1>3

LEMMA SetOutputKeepsOwner ==
  ASSUME ~RequestDuringStart, Inv, NEW selection \in Choice, NEW optional \in SUBSET Cards,
         NEW remembered \in Choice, SetOutput(selection, optional, remembered)
  PROVE  Inv'
<1> DEFINE stage == IF selection = NoCards THEN "change" ELSE "apply"
           q == Requested(runtime, stage)
<1>1. /\ client.pc = "idle" /\ ~stopped /\ ~runtime.outputTransitionActive
      /\ ~runtime.starting
      /\ runtime' = [q EXCEPT !.outputTransitionActive = TRUE]
      /\ client' = [pc |-> stage, selection |-> selection, optional |-> optional,
                    intent |-> remembered, before |-> intent]
      /\ commandsLeft > 0 /\ commandsLeft' = commandsLeft - 1
      /\ UNCHANGED <<intent, staged, stopped, disturbances>>
  BY DEF SetOutput
<1>2. TypeOK /\ runtime \in Runtimes /\ staged = None /\ LoopOK(runtime)
  BY <1>1, OwnerNow DEF Inv
<1>3. /\ runtime.restore = None /\ runtime.phase = "idle" /\ ~runtime.rollback
      /\ ~runtime.timer
  BY <1>1, <1>2 DEF LoopOK, Rests, Begins, Restores
<1>4. /\ stage \in Stages /\ stage \in {"apply", "change"}
      /\ stage = "change" <=> selection = NoCards
  BY DEF Stages
<1>5. /\ q \in Runtimes /\ q.signaled = stage /\ q.awaited /\ q.answer = "none"
      /\ q.restore = None /\ ~q.rollback /\ q.phase = "idle" /\ ~q.timer /\ ~q.starting
  BY <1>1, <1>2, <1>3, <1>4, RequestedOutcome DEF SameTransition
<1> HIDE DEF q, stage
<1>6. runtime' \in Runtimes
  BY <1>1, <1>5, Zenon DEF Runtimes
<1>7. /\ runtime'.signaled = stage /\ runtime'.awaited /\ runtime'.answer = "none"
      /\ Holds(runtime') /\ runtime'.phase = "idle" /\ ~runtime'.timer
  BY <1>1, <1>5 DEF Runtimes, Holds
<1>8. client' \in Clients /\ client'.pc = stage /\ client'.selection = selection
  BY <1>1, <1>2, <1>4 DEF Clients, TypeOK
<1>9. Asks(runtime)'
  BY <1>1, <1>2, <1>4, <1>7, <1>8 DEF Asks, Stage, AskedIn
<1>10. ClientInv' /\ MainLoopInv'
  BY <1>4, <1>7, <1>8, <1>9 DEF ClientInv, ClientOK, Holds, MainLoopInv
<1> QED
  BY <1>1, <1>2, <1>6, <1>8, <1>10 DEF Inv, TypeOK, OwnerInv

LEMMA ReceiveKeepsOwner ==
  ASSUME ~RequestDuringStart, Inv, Receive
  PROVE  Inv'
<1>1. PICK selection \in Choice :
        \E optional \in {{}, {c \in Cards : selection[c] # None}},
           remembered \in {NoCards, [c \in Cards |-> IF c \in {d \in Cards : selection[d] # None}
                                                     THEN selection[c] ELSE intent[c]]} :
          SetOutput(selection, optional, remembered)
  BY DEF Receive
<1>2. intent \in Choice
  BY DEF Inv, TypeOK
<1>3. [c \in Cards |-> IF c \in {d \in Cards : selection[d] # None}
                       THEN selection[c] ELSE intent[c]] \in Choice
  BY <1>2 DEF Choice
<1>4. PICK optional \in SUBSET Cards, remembered \in Choice :
        SetOutput(selection, optional, remembered)
  BY <1>1, <1>3, NothingChosen
<1> QED
  BY <1>4, SetOutputKeepsOwner

\* The client asks for the next stage, in the phase the last one has left.
LEMMA ProceedKeepsOwner ==
  ASSUME Inv, NEW stage \in Stages,
         NEW pc \in {"change", "verify", "finalize", "rollback", "undo", "revert"},
         Proceed(pc, stage), runtime.answer # "none", stage = Stage(pc),
         ~stopped => client.selection # NoCards,
         ~stopped => AnsweredIn(client, runtime.answer = "ok")
                       = IF pc = "revert" THEN "idle" ELSE "prepared",
         UNCHANGED <<intent, staged, stopped, disturbances, commandsLeft>>
  PROVE  Inv'
<1> DEFINE r == [runtime EXCEPT !.answer = "none"]
<1>1. TypeOK /\ runtime \in Runtimes
  BY DEF Inv, TypeOK
<1>2. /\ runtime' = Requested(r, stage)
      /\ client' = [client EXCEPT !.pc = pc,
                                  !.intent = IF pc = "revert" THEN client.before ELSE @]
  BY DEF Proceed
<1>3. "none" \in {"none", "ok", "error"}
  OBVIOUS
<1>4. r \in Runtimes
  BY <1>1, <1>3, Zenon DEF Runtimes
<1>5. /\ r.phase = runtime.phase /\ r.timer = runtime.timer /\ r.restore = runtime.restore
      /\ r.rollback = runtime.rollback /\ r.starting = runtime.starting
      /\ r.outputTransitionActive = runtime.outputTransitionActive
  BY <1>1 DEF Runtimes
<1> HIDE DEF r
<1>6. /\ runtime' \in Runtimes /\ SameTransition(runtime', r) /\ runtime'.restore = r.restore
      /\ runtime'.rollback = r.rollback /\ runtime'.starting = r.starting
      /\ runtime'.outputTransitionActive = r.outputTransitionActive
      /\ ~stopped => /\ runtime'.signaled = stage /\ runtime'.awaited
                     /\ runtime'.answer = "none"
  BY <1>2, <1>4, RequestedOutcome
<1>7. client' \in Clients /\ client'.pc = pc /\ client'.selection = client.selection
  BY <1>1, <1>2 DEF TypeOK, Clients
<1>8. ASSUME ~stopped PROVE ClientInv' /\ MainLoopInv'
  <2>1. /\ IsAnswered(runtime) /\ Holds(runtime)
    BY <1>8, OwnerNow DEF LoopOK, Rests, Begins, Restores, Unasked, ClientOK, Asks, Waits
  <2>2. /\ ~runtime'.timer /\ runtime'.signaled = stage /\ runtime'.awaited
        /\ runtime'.answer = "none" /\ staged' = None
        /\ runtime'.phase = IF pc = "revert" THEN "idle" ELSE "prepared"
    BY <1>5, <1>6, <1>8, <2>1 DEF IsAnswered, SameTransition
  <2>3. /\ runtime'.restore = None /\ ~runtime'.rollback /\ ~runtime'.starting
        /\ runtime'.outputTransitionActive
    BY <1>5, <1>6, <2>1 DEF Holds
  <2>4. client'.selection # NoCards
    BY <1>7, <1>8
  <2>5. Asks(runtime)'
    BY <1>7, <2>2, <2>4 DEF Asks, AskedIn
  <2> QED
    BY <1>7, <2>3, <2>4, <2>5 DEF ClientInv, ClientOK, Holds, MainLoopInv
<1> QED
  BY <1>1, <1>6, <1>7, <1>8 DEF Inv, TypeOK, OwnerInv

LEMMA ReturnKeepsOwner ==
  ASSUME Inv, NEW succeeded \in BOOLEAN, Return(succeeded), runtime.answer # "none",
         ~stopped => AnsweredIn(client, runtime.answer = "ok") = "idle",
         UNCHANGED <<intent, staged, stopped, disturbances, commandsLeft>>
  PROVE  Inv'
<1> DEFINE report == IF succeeded THEN {} ELSE runtime.report
<1>1. TypeOK /\ runtime \in Runtimes
  BY DEF Inv, TypeOK
<1>2. runtime' = [runtime EXCEPT !.answer = "none", !.outputTransitionActive = FALSE,
                                 !.report = report]
  BY DEF Return
<1>3. client' = Idle /\ Idle \in Clients /\ Idle.pc = "idle"
  BY NothingChosen DEF Return, Idle, Clients, NoCards
<1>4. "none" \in {"none", "ok", "error"} /\ report \in SUBSET {"change", "restoration"}
  BY <1>1 DEF Runtimes
<1> HIDE DEF report
<1>5. runtime' \in Runtimes
  BY <1>1, <1>2, <1>4, Zenon DEF Runtimes
<1>6. /\ runtime'.answer = "none" /\ ~runtime'.outputTransitionActive
      /\ runtime'.phase = runtime.phase /\ runtime'.timer = runtime.timer
      /\ runtime'.restore = runtime.restore /\ runtime'.rollback = runtime.rollback
      /\ runtime'.signaled = runtime.signaled /\ runtime'.awaited = runtime.awaited
      /\ runtime'.starting = runtime.starting
  BY <1>1, <1>2 DEF Runtimes
<1>7. ASSUME ~stopped PROVE ClientInv' /\ MainLoopInv'
  <2>1. IsAnswered(runtime) /\ Holds(runtime)
    BY <1>7, OwnerNow DEF LoopOK, Rests, Begins, Restores, Unasked, ClientOK, Asks, Waits
  <2>2. /\ runtime'.restore = None /\ ~runtime'.rollback /\ ~runtime'.timer
        /\ ~runtime'.starting
        /\ runtime'.signaled = "none" /\ ~runtime'.awaited /\ staged' = None
        /\ runtime'.phase = "idle"
    BY <1>6, <1>7, <2>1 DEF IsAnswered, Holds
  <2> QED
    BY <1>3, <1>6, <2>2 DEF ClientInv, MainLoopInv, LoopOK, Rests, Unasked
<1> QED
  BY <1>1, <1>3, <1>5, <1>7 DEF Inv, TypeOK, OwnerInv

LEMMA ResumeKeepsOwner ==
  ASSUME Inv, Resume
  PROVE  Inv'
<1> DEFINE ok == runtime.answer = "ok"
<1>1. /\ runtime.answer # "none"
      /\ UNCHANGED <<intent, staged, stopped, disturbances, commandsLeft>>
  BY DEF Resume
<1>2. ~stopped =>
        /\ client.pc # "idle"
        /\ client.pc # "change" => client.selection # NoCards
  BY <1>1, OwnerNow DEF LoopOK, Rests, Begins, Restores, Unasked
<1>3. \A stage \in {"change", "rollback", "verify", "finalize"} : stage \in Stages
  BY DEF Stages
<1>4. CASE client.pc = "apply"
  <2>1. AnsweredIn(client, ok) = IF ok THEN "prepared" ELSE "idle"
    BY <1>4 DEF AnsweredIn
  <2>2. CASE ok /\ Proceed("change", "change")
    BY <1>1, <1>2, <1>3, <1>4, <2>1, <2>2, ProceedKeepsOwner DEF Stage
  <2>3. CASE ok /\ Proceed("rollback", "rollback")
    BY <1>1, <1>2, <1>3, <1>4, <2>1, <2>3, ProceedKeepsOwner DEF Stage
  <2>4. CASE ~ok /\ Return(FALSE)
    <3> DEFINE f == FALSE
    <3>1. f \in BOOLEAN /\ Return(f)
      BY <2>4
    <3> HIDE DEF f
    <3> QED
      BY <1>1, <2>1, <2>4, <3>1, ReturnKeepsOwner
  <2> QED
    BY <1>4, <2>2, <2>3, <2>4 DEF Resume
<1>5. CASE client.pc = "change" /\ client.selection = NoCards
  <2>1. AnsweredIn(client, ok) = "idle"
    BY <1>5 DEF AnsweredIn, AskedIn
  <2>2. ok \in BOOLEAN /\ Return(ok)
    BY <1>5 DEF Resume
  <2> HIDE DEF ok
  <2> QED
    BY <1>1, <2>1, <2>2, ReturnKeepsOwner DEF ok
<1>6. CASE client.pc = "change" /\ client.selection # NoCards
  <2>1. AnsweredIn(client, ok) = "prepared"
    BY <1>6 DEF AnsweredIn, AskedIn
  <2>2. IF ok THEN Proceed("verify", "verify") ELSE Proceed("rollback", "rollback")
    BY <1>6 DEF Resume
  <2> QED
    BY <1>1, <1>3, <1>6, <2>1, <2>2, ProceedKeepsOwner DEF Stage
<1>7. CASE client.pc = "verify"
  <2>1. ~stopped => AnsweredIn(client, ok) = "prepared"
    BY <1>2, <1>7 DEF AnsweredIn, AskedIn
  <2>2. IF ok THEN Proceed("finalize", "finalize") ELSE Proceed("undo", "rollback")
    BY <1>7 DEF Resume
  <2> QED
    BY <1>1, <1>2, <1>3, <1>7, <2>1, <2>2, ProceedKeepsOwner DEF Stage
<1>8. CASE client.pc = "finalize"
  <2>1. AnsweredIn(client, ok) = IF ok THEN "idle" ELSE "prepared"
    BY <1>8 DEF AnsweredIn
  <2>2. CASE ok /\ Return(TRUE)
    <3> DEFINE t == TRUE
    <3>1. t \in BOOLEAN /\ Return(t)
      BY <2>2
    <3> HIDE DEF t
    <3> QED
      BY <1>1, <2>1, <2>2, <3>1, ReturnKeepsOwner
  <2>3. CASE ~ok /\ Proceed("undo", "rollback")
    BY <1>1, <1>2, <1>3, <1>8, <2>1, <2>3, ProceedKeepsOwner DEF Stage
  <2> QED
    BY <1>8, <2>2, <2>3 DEF Resume
<1>9. CASE client.pc = "undo"
  <2>1. AnsweredIn(client, ok) = "idle" /\ Proceed("revert", "change")
    BY <1>9 DEF AnsweredIn, Resume
  <2> QED
    BY <1>1, <1>2, <1>3, <1>9, <2>1, ProceedKeepsOwner DEF Stage
<1>10. CASE client.pc \in {"rollback", "revert"}
  <2>1. AnsweredIn(client, ok) = "idle" /\ Return(FALSE)
    BY <1>10 DEF AnsweredIn, AskedIn, Resume
  <2> DEFINE f == FALSE
  <2>2. f \in BOOLEAN /\ Return(f)
    BY <2>1
  <2> HIDE DEF f
  <2> QED
    BY <1>1, <2>1, <2>2, ReturnKeepsOwner
<1> QED
  BY <1>4, <1>5, <1>6, <1>7, <1>8, <1>9, <1>10 DEF Resume

-----------------------------------------------------------------------------
(* The theorems. *)

LEMMA InitInv == Init => Inv
<1> SUFFICES ASSUME Init PROVE Inv
  OBVIOUS
<1>1. PICK s \in Starts :
        /\ runtime =
            [cards |-> [c \in Cards |-> [profile |-> s.profile[c], input |-> TRUE,
                                         nodes |-> Exposed(s.profile[c]),
                                         refuses |-> s.refuses[c]]],
             asked |-> NoCards, routes |-> {}, phase |-> "idle", requested |-> NoCards,
             optional |-> {}, previous |-> NoCards, replaced |-> {}, missing |-> {},
             routesRequested |-> {}, attempts |-> 0, failure |-> {}, pending |-> NoCards,
             restore |-> None, rollback |-> FALSE, outputTransitionActive |-> FALSE,
             starting |-> FALSE, timer |-> FALSE, signaled |-> "none",
             awaited |-> FALSE, answer |-> "none", report |-> {}]
        /\ intent = s.intent
        /\ commandsLeft = s.commands /\ disturbances = s.disturbances
  BY DEF Init
<1>2. staged = None /\ client = Idle /\ stopped = FALSE
  BY DEF Init
<1>3. /\ s.profile \in Choice /\ s.intent \in Choice /\ s.refuses \in [Cards -> Refusals]
      /\ s.commands \in Nat /\ s.disturbances \in Nat
  BY CardAssumption
<1> DEFINE card(c) == [profile |-> s.profile[c], input |-> TRUE,
                       nodes |-> Exposed(s.profile[c]), refuses |-> s.refuses[c]]
           cards == [c \in Cards |-> card(c)]
<1>4. ASSUME NEW c \in Cards PROVE card(c) \in CardStates
  <2>1. /\ s.profile[c] \in Profiles \cup {None} /\ s.refuses[c] \in Refusals
        /\ Exposed(s.profile[c]) \in {"none", "old", "new"}
    BY <1>3 DEF Choice, Exposed
  <2> QED
    BY <2>1 DEF CardStates
<1>5. cards \in [Cards -> CardStates]
  BY <1>4
<1> HIDE DEF cards, card
<1>6. /\ runtime.phase = "idle" /\ runtime.restore = None /\ runtime.rollback = FALSE
      /\ runtime.outputTransitionActive = FALSE /\ runtime.timer = FALSE
      /\ runtime.starting = FALSE
      /\ runtime.signaled = "none" /\ runtime.awaited = FALSE /\ runtime.answer = "none"
  BY <1>1
<1>7. "idle" \in Phases /\ "none" \in Stages \cup {"none"} /\ "none" \in {"none", "ok", "error"}
      /\ None \in Restorations \cup {None} /\ FALSE \in BOOLEAN
  BY DEF Phases
<1>8. runtime \in Runtimes
  <2>1. runtime =
            [cards |-> cards,
             asked |-> NoCards, routes |-> {}, phase |-> "idle", requested |-> NoCards,
             optional |-> {}, previous |-> NoCards, replaced |-> {}, missing |-> {},
             routesRequested |-> {}, attempts |-> 0, failure |-> {}, pending |-> NoCards,
             restore |-> None, rollback |-> FALSE, outputTransitionActive |-> FALSE,
             starting |-> FALSE, timer |-> FALSE, signaled |-> "none",
             awaited |-> FALSE, answer |-> "none", report |-> {}]
    BY <1>1, Zenon DEF cards, card
  <2> QED
    BY <2>1, <1>5, <1>7, NothingChosen, Sets, SMT DEF Runtimes
<1>9. Idle \in Clients /\ Idle.pc = "idle"
  BY NothingChosen DEF Idle, Clients, NoCards
<1>10. TypeOK
  BY <1>1, <1>2, <1>3, <1>8, <1>9 DEF TypeOK
<1>11. OwnerInv
  BY <1>2, <1>6, <1>9 DEF OwnerInv, MainLoopInv, ClientInv, LoopOK, Rests, Unasked
<1> QED
  BY <1>10, <1>11 DEF Inv

LEMMA NextInv ==
  ASSUME ~RequestDuringStart, Inv, [Next]_vars
  PROVE  Inv'
<1>1. CASE Receive
  BY <1>1, ReceiveKeepsOwner
<1>2. CASE Resume
  BY <1>2, ResumeKeepsOwner
<1>3. CASE MainLoop
  BY <1>3, StoreKeepsOwner, ApplyKeepsOwner, VerifyKeepsOwner, FinalizeKeepsOwner, RollBackKeepsOwner,
     ChangeKeepsOwner, CommitKeepsOwner, RollBackOutputKeepsOwner DEF MainLoop
<1>4. CASE TimerFires
  BY <1>4, TimerKeepsOwner
<1>5. CASE Stop
  BY <1>5, StopKeepsOwner
<1>6. CASE \E c \in Cards : InventoryChanged(c)
  BY <1>6, InventoryKeepsOwner
<1>7. CASE UNCHANGED vars
  BY <1>7 DEF vars, Inv, TypeOK, OwnerInv, MainLoopInv, ClientInv, LoopOK, Rests, Begins,
              Restores, Unasked, ClientOK, Holds, Asks, Waits, IsAnswered
<1> QED
  BY <1>1, <1>2, <1>3, <1>4, <1>5, <1>6, <1>7 DEF Next

\* All that follows holds when no request arrives between the load and the store
\* of the flag with which the main loop begins a restoration.
LEMMA SpecInv == ~RequestDuringStart => (Spec => []Inv)
<1> SUFFICES ASSUME ~RequestDuringStart PROVE Spec => []Inv
  OBVIOUS
<1>1. Inv /\ [Next]_vars => Inv'
  BY NextInv
<1> QED
  BY <1>1, InitInv, PTL DEF Spec

\* Types.  The cards, the transition, the pending restorations and the requests
\* keep their types, whatever the cards, profiles and bounds are: in particular
\* the retries of a restoration and the attempts to restore inputs never pass 2.
THEOREM CardsTypeOK == ~RequestDuringStart => (Spec => []TypeOK)
<1>1. Inv => TypeOK
  BY DEF Inv
<1> SUFFICES ASSUME ~RequestDuringStart PROVE Spec => []TypeOK
  OBVIOUS
<1>2. Spec => []Inv
  BY SpecInv
<1> QED
  BY <1>1, <1>2, PTL

\* Unless a request arrives between the load and the store with which the main
\* loop begins a restoration: of the client that serves setOutput and the main
\* loop at most one holds outputTransitionActive; while it is free no transition,
\* restoration or staged change is left over; and outputChangeTimer is armed
\* exactly while something waits for it, so that an expiry never stops the daemon.
THEOREM CardsTransitionHasOneOwner ==
  ~RequestDuringStart => (Spec => []TransitionHasOneOwner)
<1>1. ASSUME Inv PROVE TransitionHasOneOwner
  <2> USE DEF HoldsFlag
  <2> SUFFICES ASSUME ~stopped
               PROVE  DeadlineHasOwner /\ OneTransitionAtATime /\ FlagHasOneOwner
    BY DEF TransitionHasOneOwner, DeadlineHasOwner, OneTransitionAtATime, FlagHasOneOwner
  <2>1. /\ runtime.timer \in BOOLEAN /\ runtime.outputTransitionActive \in BOOLEAN
    BY <1>1, OwnerNow DEF Runtimes
  <2>2. CASE client.pc = "idle"
    BY <1>1, <2>1, <2>2, OwnerNow
       DEF LoopOK, Rests, Begins, Restores, DeadlineHasOwner, OneTransitionAtATime,
           FlagHasOneOwner, Waiting
  <2>3. CASE client.pc # "idle"
    <3>1. ClientOK(runtime)
      BY <1>1, <2>3, OwnerNow
    <3>2. DeadlineHasOwner
      BY <2>1, <2>3, <3>1 DEF ClientOK, Holds, Asks, Waits, IsAnswered, AskedIn, AnsweredIn,
                              DeadlineHasOwner, Waiting
    <3> QED
      BY <2>1, <2>3, <3>1, <3>2 DEF ClientOK, Holds, OneTransitionAtATime, FlagHasOneOwner
  <2> QED
    BY <2>2, <2>3
<1> SUFFICES ASSUME ~RequestDuringStart PROVE Spec => []TransitionHasOneOwner
  OBVIOUS
<1>2. Spec => []Inv
  BY SpecInv
<1> QED
  BY <1>1, <1>2, PTL

-----------------------------------------------------------------------------
(* A rollback accounts for every card it touched. *)

\* Every card that a transition touched and that is there is as it was, unless
\* the report says otherwise.
Settled(q, r) ==
  \A c \in Touched(r) :
    \/ ~Present(q, c)
    \/ q.cards[c].profile = r.previous[c]
    \/ "restoration" \in q.report

Accounted(q, r) ==
  /\ q.phase \in {"restoring", "idle"} =>
       \A c \in Touched(r) : Present(q, c) \/ q.pending[c] = r.previous[c]
  /\ q.phase = "idle" => Settled(q, r)

StepAccounts ==
  /\ RollsBack => Accounted(runtime', runtime)
  /\ runtime.phase = "restoring" /\ runtime'.phase = "idle" => Settled(runtime', runtime)

LEMMA KeptPhaseAccounts ==
  ASSUME runtime'.phase = runtime.phase
  PROVE  StepAccounts
  BY DEF StepAccounts, RollsBack, Accounted

LEMMA GoingBackAccounts ==
  ASSUME NEW r, NEW q, NEW failure, SameProfiles(q, r), GoesBack(q, r, failure),
         \A c \in Touched(r) : ~Present(r, c) => q.pending[c] = r.previous[c]
  PROVE  Accounted(q, r)
<1>1. \A c \in Touched(r) : Present(q, c) = Present(r, c)
  BY DEF SameProfiles, Present, Touched
<1>2. q.phase = "idle" => AllBack(q, r)
  BY DEF GoesBack
<1> QED
  BY <1>1, <1>2 DEF AllBack, Accounted, Settled

LEMMA GoingForwardAccounts ==
  ASSUME NEW r, NEW q, SameProfiles(q, r), Forward(q, r)
  PROVE  Accounted(q, r)
<1>1. CASE TurnsBack(q, r)
  BY <1>1, GoingBackAccounts DEF TurnsBack
<1>2. CASE ~TurnsBack(q, r)
  BY <1>2 DEF Forward, GoesOn, IsPrepared, Accounted
<1> QED
  BY <1>1, <1>2

\* What the snapshot showed first touches no profile that a transition remembers.
LEMMA AccountedSince ==
  ASSUME NEW q, NEW r, NEW s, r.previous = s.previous
  PROVE  /\ Accounted(q, r) => Accounted(q, s)
         /\ Settled(q, r) => Settled(q, s)
  BY DEF Accounted, Settled, Touched

LEMMA InventoryAccounts ==
  ASSUME Inv, NEW c \in Cards, InventoryChanged(c)
  PROVE  StepAccounts
<1>1. PICK r \in Snapshots(c) \cup Interferences(c) : runtime' = Handled(Returned(r, c))
  BY DEF InventoryChanged
<1> DEFINE q == Returned(r, c)
<1>2. TypeOK /\ ~stopped /\ ~runtime.starting
  BY DEF Inv, InventoryChanged, Dispatches
<1>3. r \in Runtimes /\ SameOwner(r, runtime) /\ SameTransition(r, runtime)
  BY <1>2, SnapshotOutcome
<1>4. q \in Runtimes /\ SameOwner(q, r) /\ SameTransition(q, r)
  BY <1>2, <1>3, ReturnedOutcome
<1>5. runtime' = Handled(q)
  BY <1>1
<1> HIDE DEF q
<1>6. /\ SameOwner(q, runtime) /\ SameTransition(q, runtime)
      /\ q.phase = runtime.phase /\ q.previous = runtime.previous /\ ~q.starting
  BY <1>2, <1>3, <1>4 DEF SameOwner, SameTransition
<1>7. CASE client.pc = "idle"
  <2>1. LoopOK(q)
    BY <1>2, <1>6, <1>7, OwnerNow, SameKeepsOwner
  <2>2. q.phase \in {"idle", "restoring"}
    BY <2>1 DEF LoopOK, Rests, Begins, Restores
  <2>3. q.phase = "restoring" /\ runtime'.phase = "idle" => AllBack(runtime', q)
    BY <1>4, <1>5, <1>6, <2>1, HandledLoop
  <2>4. q.phase = "restoring" /\ runtime'.phase = "idle" => Settled(runtime', runtime)
    BY <1>6, <2>3, AccountedSince DEF AllBack, Settled
  <2> QED
    BY <1>6, <2>2, <2>4 DEF StepAccounts, RollsBack
<1>8. CASE client.pc # "idle"
  <2>1. ClientOK(q)
    BY <1>2, <1>6, <1>8, OwnerNow, SameKeepsOwner
  <2>2. \/ q.phase \notin {"applying", "restoring"} /\ runtime' = q
        \/ q.phase = "applying" /\ Forward(runtime', q) /\ SameProfiles(runtime', q)
        \/ q.phase = "restoring" /\ GoesBack(runtime', q, q.failure)
    BY <1>4, <1>5, <1>8, <2>1, HandledClient
  <2>3. CASE q.phase \notin {"applying", "restoring"} /\ runtime' = q
    BY <1>6, <2>3, KeptPhaseAccounts
  <2>4. CASE q.phase = "applying" /\ Forward(runtime', q) /\ SameProfiles(runtime', q)
    <3>1. Accounted(runtime', runtime)
      BY <1>6, <2>4, GoingForwardAccounts, AccountedSince
    <3> QED
      BY <1>6, <2>4, <3>1 DEF StepAccounts
  <2>5. CASE q.phase = "restoring" /\ GoesBack(runtime', q, q.failure)
    <3>1. runtime'.phase = "idle" => AllBack(runtime', q)
      BY <2>5 DEF GoesBack
    <3>2. runtime'.phase = "idle" => Settled(runtime', runtime)
      BY <1>6, <3>1, AccountedSince DEF AllBack, Settled
    <3> QED
      BY <1>6, <2>5, <3>2 DEF StepAccounts, RollsBack
  <2> QED
    BY <2>2, <2>3, <2>4, <2>5
<1> QED
  BY <1>7, <1>8

LEMMA TimerAccounts ==
  ASSUME Inv, TimerFires
  PROVE  StepAccounts
<1> DEFINE t == [runtime EXCEPT !.timer = FALSE]
<1>1. /\ ~stopped /\ staged = None /\ runtime.timer /\ runtime' = Timeout(t)
  BY TimedIsUnstaged DEF TimerFires
<1>2. runtime \in Runtimes
  BY <1>1, OwnerNow
<1>3. t.previous = runtime.previous
  BY <1>2, UntimedOutcome
<1>4. CASE client.pc = "idle"
  <2>1. LoopOK(runtime)
    BY <1>1, <1>4, OwnerNow
  <2>2. runtime.phase \in {"idle", "restoring"}
    BY <2>1 DEF LoopOK, Rests, Begins, Restores
  <2>3. runtime.phase = "restoring" => "restoration" \in runtime'.report
    BY <1>1, <1>2, <2>1, TimeoutLoop
  <2> QED
    BY <2>2, <2>3 DEF StepAccounts, RollsBack, Settled
<1>5. CASE client.pc # "idle"
  <2>1. ClientOK(runtime)
    BY <1>1, <1>5, OwnerNow
  <2>2. /\ runtime.phase \in {"applying", "settling", "restoring"}
        /\ IF runtime.phase = "restoring"
           THEN runtime'.phase = "idle" /\ "restoration" \in runtime'.report
           ELSE Forward(runtime', t) /\ SameProfiles(runtime', t)
    BY <1>1, <1>2, <1>5, <2>1, TimeoutClient
  <2> HIDE DEF t
  <2>3. CASE runtime.phase = "restoring"
    BY <2>2, <2>3 DEF StepAccounts, RollsBack, Settled
  <2>4. CASE runtime.phase # "restoring"
    <3>1. Accounted(runtime', runtime)
      BY <1>3, <2>2, <2>4, GoingForwardAccounts, AccountedSince
    <3> QED
      BY <2>4, <3>1 DEF StepAccounts
  <2> QED
    BY <2>3, <2>4
<1> QED
  BY <1>4, <1>5

LEMMA RollBackAccounts ==
  ASSUME Inv, RollBackProfiles
  PROVE  StepAccounts
<1> DEFINE r == [runtime EXCEPT !.signaled = "none"]
<1>1. Serves("rollback") /\ runtime' = RollBack(r, runtime.failure)
  BY DEF RollBackProfiles
<1>2. /\ ~stopped /\ client.pc \in {"rollback", "undo"} /\ Asks(runtime)
      /\ runtime \in Runtimes
  BY <1>1, ServesClient, StagesOfClients DEF Inv, TypeOK, Stages
<1>3. r \in Runtimes /\ r.previous = runtime.previous
  BY <1>2, TakenOutcome DEF SameTransition
<1>4. runtime.failure \in SUBSET {"change", "restoration"}
  BY <1>2 DEF Runtimes
<1>5. runtime.phase # "restoring"
  BY <1>2 DEF Asks, AskedIn
<1> HIDE DEF r
<1>6. /\ SameProfiles(runtime', r) /\ GoesBack(runtime', r, runtime.failure)
      /\ \A c \in Touched(r) : ~Present(r, c) => runtime'.pending[c] = r.previous[c]
  BY <1>1, <1>3, <1>4, RollBackOutcome
<1>7. Accounted(runtime', runtime)
  BY <1>3, <1>6, GoingBackAccounts, AccountedSince
<1> QED
  BY <1>5, <1>7 DEF StepAccounts

\* The other stages of a request roll nothing back.
LEMMA StagesAccount ==
  ASSUME Inv, ApplyProfiles \/ VerifyProfiles \/ FinalizeProfiles
  PROVE  StepAccounts
<1>1. ApplyProfiles \/ FinalizeProfiles => Serves("apply") \/ Serves("finalize")
  BY DEF ApplyProfiles, FinalizeProfiles
<1>2. CASE Serves("apply") \/ Serves("finalize")
  <2>1. /\ client.pc \in {"apply", "finalize"} /\ Asks(runtime)
    BY <1>2, ServesClient, StagesOfClients DEF Inv, Stages
  <2>2. ~RollsBack /\ runtime.phase # "restoring"
    BY <2>1 DEF Asks, AskedIn, RollsBack
  <2> QED
    BY <2>2 DEF StepAccounts
<1>3. CASE VerifyProfiles
  <2>1. PICK a \in {"ok", "error"} :
          runtime' = Answered([runtime EXCEPT !.signaled = "none"], a)
    BY <1>3 DEF VerifyProfiles
  <2> DEFINE r == [runtime EXCEPT !.signaled = "none"]
  <2>2. r \in Runtimes /\ r.phase = runtime.phase
    BY TakenOutcome DEF Inv, TypeOK, SameTransition
  <2>3. Answered(r, a).phase = r.phase
    BY <2>2, AnsweredOutcome DEF SameTransition
  <2> QED
    BY <2>1, <2>2, <2>3, KeptPhaseAccounts
<1> QED
  BY <1>1, <1>2, <1>3

\* A change of the output, the end of the daemon and the client leave the phase.
LEMMA OthersAccount ==
  ASSUME Inv,
         \/ ChangeOutput \/ CommitOutput \/ RollBackOutput \/ Stop \/ Receive \/ Resume
         \/ StoreTransitionActive \/ UNCHANGED vars
  PROVE  StepAccounts
<1> SUFFICES runtime'.phase = runtime.phase
  BY KeptPhaseAccounts
<1> USE DEF SameTransition
<1>1. runtime \in Runtimes
  BY DEF Inv, TypeOK
<1> DEFINE r == [runtime EXCEPT !.signaled = "none"]
<1>2. r \in Runtimes /\ r.phase = runtime.phase
  BY <1>1, TakenOutcome
<1>3. CASE ChangeOutput
  <2> HIDE DEF r
  <2>1. \/ runtime' = Answered(r, "error")
        \/ runtime' = Answered(Discarded(r, intent, client.intent), "ok")
        \/ runtime' = [r EXCEPT !.timer = TRUE]
    BY <1>3 DEF ChangeOutput, r
  <2>2. Discarded(r, intent, client.intent) \in Runtimes
        /\ Discarded(r, intent, client.intent).phase = r.phase
    BY <1>2, ForgetOutcome DEF Discarded
  <2>3. CASE runtime' = Answered(r, "error")
    BY <1>2, <2>3, AnsweredOutcome
  <2>4. CASE runtime' = Answered(Discarded(r, intent, client.intent), "ok")
    BY <1>2, <2>2, <2>4, AnsweredOutcome
  <2>5. CASE runtime' = [r EXCEPT !.timer = TRUE]
    BY <1>2, <2>5 DEF Runtimes
  <2> QED
    BY <2>1, <2>3, <2>4, <2>5
<1>4. CASE CommitOutput
  <2> DEFINE d == Discarded(runtime, staged, intent)
             q == [d EXCEPT !.timer = FALSE]
  <2>1. runtime' = Answered(q, "ok")
    BY <1>4 DEF CommitOutput
  <2>2. d \in Runtimes /\ d.phase = runtime.phase
    BY <1>1, ForgetOutcome DEF Discarded
  <2> HIDE DEF d
  <2>3. q \in Runtimes /\ q.phase = runtime.phase
    BY <2>2, UntimedOutcome
  <2> HIDE DEF q
  <2> QED
    BY <2>1, <2>3, AnsweredOutcome
<1>5. CASE RollBackOutput
  <2> DEFINE q == [runtime EXCEPT !.timer = FALSE]
  <2>1. runtime' = Answered(q, "error")
    BY <1>5 DEF RollBackOutput
  <2>2. q \in Runtimes /\ q.phase = runtime.phase
    BY <1>1, UntimedOutcome
  <2> HIDE DEF q
  <2> QED
    BY <2>1, <2>2, AnsweredOutcome
<1>6. CASE Stop
  <2>1. runtime' = Answered(r, "error")
    BY <1>6 DEF Stop
  <2> HIDE DEF r
  <2> QED
    BY <1>2, <2>1, AnsweredOutcome
<1>7. CASE Receive
  <2>1. PICK stage \in Stages :
          runtime' = [Requested(runtime, stage) EXCEPT !.outputTransitionActive = TRUE]
    BY <1>7, Zenon DEF Receive, SetOutput, Stages
  <2>2. Requested(runtime, stage) \in Runtimes /\ Requested(runtime, stage).phase = runtime.phase
    BY <1>1, RequestedOutcome
  <2> QED
    BY <2>1, <2>2 DEF Runtimes
<1>8. CASE Resume
  <2> DEFINE q == [runtime EXCEPT !.answer = "none"]
  <2>1. \/ \E stage \in Stages : runtime' = Requested(q, stage)
        \/ runtime'.phase = runtime.phase
    BY <1>1, <1>8 DEF Resume, Proceed, Return, Stages, Runtimes
  <2>2. q \in Runtimes /\ q.phase = runtime.phase
    <3>1. "none" \in {"none", "ok", "error"}
      OBVIOUS
    <3>2. q \in Runtimes
      BY <1>1, <3>1, Zenon DEF Runtimes
    <3> QED
      BY <1>1, <3>2 DEF Runtimes
  <2> HIDE DEF q
  <2> QED
    BY <2>1, <2>2, RequestedOutcome
<1>9. CASE StoreTransitionActive
  BY <1>1, <1>9 DEF StoreTransitionActive, Runtimes
<1>10. CASE UNCHANGED vars
  BY <1>10 DEF vars
<1> QED
  BY <1>3, <1>4, <1>5, <1>6, <1>7, <1>8, <1>9, <1>10

\* When a request is rolled back, on an error, a refusal, its deadline or a verdict
\* of its client, each card it touched that is away has its old profile pending;
\* and when any rollback is over, a card that is there shows its old profile or
\* the report says that it could not be restored.
THEOREM CardsRollbackIsAccounted == ~RequestDuringStart => (Spec => RollbackIsAccounted)
<1> DEFINE Step ==
      /\ RollsBack /\ runtime'.phase \in {"restoring", "idle"} =>
           \A c \in Touched(runtime) :
             Present(runtime', c) \/ runtime'.pending[c] = runtime.previous[c]
      /\ (RollsBack \/ runtime.phase = "restoring") /\ runtime'.phase = "idle" =>
           \A c \in Touched(runtime) :
             \/ ~Present(runtime', c)
             \/ runtime'.cards[c].profile = runtime.previous[c]
             \/ "restoration" \in runtime'.report
<1>1. Inv /\ [Next]_vars => [Step]_vars
  <2> SUFFICES ASSUME Inv, [Next]_vars PROVE Step
    OBVIOUS
  <2>1. StepAccounts
    BY InventoryAccounts, TimerAccounts, RollBackAccounts, StagesAccount, OthersAccount
       DEF Next, MainLoop
  <2> QED
    BY <2>1 DEF StepAccounts, Accounted, Settled
<1> SUFFICES ASSUME ~RequestDuringStart PROVE Spec => RollbackIsAccounted
  OBVIOUS
<1>2. Spec => []Inv
  BY SpecInv
<1> QED
  BY <1>1, <1>2, PTL DEF Spec, RollbackIsAccounted

=============================================================================
