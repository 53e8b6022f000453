-------------------------- MODULE UserSetupProofs ---------------------------
(***************************************************************************)
(* Proofs for UserSetup: the user's own autostart file is never lost, a    *)
(* setup that fails leaves what it found, and a command that succeeds has  *)
(* done all it promises, whatever failed or died before it.                *)
(*                                                                         *)
(* An invariant for each of the three says what holds half-way, in terms   *)
(* of the operations that are still to do: where the autostart file is     *)
(* while it is moved (OverrideInv), what is done of a command that goes on *)
(* (DoneInv, RemovedInv), and that an effect that is still there is noted, *)
(* before and after the failure that undoes it (UndoInv).  They need that  *)
(* operations are done in the order of the program, which the first part   *)
(* derives from Does.  That the audio servers have loaded what is there    *)
(* relates commands to each other: between two commands the servers are    *)
(* settled, so that a setup that finds nothing to restart them for is      *)
(* right not to (AudioInv, the longest argument), unless a command died or *)
(* could not restart them.                                                 *)
(***************************************************************************)
EXTENDS UserSetup, TLAPS
-----------------------------------------------------------------------------
(* The invariants. *)

Going(kind) == Working /\ section.command.kind = kind /\ ~section.failed

SetupOperations == {SetupOrder[i] : i \in DOMAIN SetupOrder}
UnsetupOperations == {UnsetupOrder[i] : i \in DOMAIN UnsetupOrder}

\* A command does what is its own, and undoes nothing before it has failed.
ProgramInv ==
  Working =>
    section.todo \subseteq (IF section.failed THEN Undoings
                            ELSE IF section.command.kind = "setup" THEN SetupOperations
                            ELSE UnsetupOperations)

SetupTypes == UserSetupTypeOK /\ ProgramInv

\* Where the user's autostart file is while it is moved.
OverrideInv ==
  /\ OverrideIsKept
  /\ Going("setup") =>
       /\ "unmask" \in section.todo => home.target = "mask"
       /\ "unback" \in section.todo =>
            \/ "unmask" \in section.todo
            \/ home.target = "absent"
  /\ Going("unsetup") =>
       /\ "backUp" \in section.todo =>
            home.target \in Overrides /\ "mask" \in section.todo
       /\ "mask" \in section.todo =>
            /\ "backUp" \in section.todo \/ home.target = "absent"
            /\ {home.target, home.backup} \ {"absent"}
                 \subseteq {section.files.target, section.files.backup}

\* What a setup that goes on has done.
DoneInv ==
  Going("setup") =>
    /\ "install" \in section.todo => Outdated # {} /\ "restartAudio" \in section.todo
    /\ "install" \notin section.todo => Outdated = {}
    /\ "complete" \notin section.todo => home.stamp = "current"
    /\ "unmask" \notin section.todo => home.target # "mask"
    /\ "unmask" \in section.todo \/ "unback" \in section.todo =>
         section.files.target = "mask" /\ home.backup = section.files.backup
    /\ section.files.target = "mask" /\ "unback" \notin section.todo =>
         IF "unmask" \in section.todo THEN section.files.backup = "absent"
                                      ELSE home.target = section.files.backup
    /\ "enable" \notin section.todo => service.enabled
    /\ "restart" \notin section.todo => service.active \/ section.disturbed
    /\ "preset" \notin section.todo =>
         \/ section.command.preset \in {"none", home.configuration}
         \/ section.disturbed

\* What an unsetup that goes on has done.
RemovedInv ==
  Going("unsetup") =>
    /\ "remove" \in section.todo => Present # {} /\ "restartAudio" \in section.todo
    /\ "remove" \notin section.todo => Present = {}
    /\ "forget" \notin section.todo => home.stamp = "absent"
    /\ "mask" \notin section.todo => home.target = "mask"
    /\ "disable" \notin section.todo => service = [enabled |-> FALSE, active |-> FALSE]
    /\ "purge" \in section.todo => section.command.purge
    /\ \/ section.disturbed
       \/ home.configuration =
            IF section.command.purge /\ "purge" \notin section.todo
            THEN "none" ELSE section.files.configuration

\* A step whose effect is there is one that a failure undoes: before it has
\* failed, because it is noted; then, because it is still to be undone.
Noted(u) == u \in IF section.failed THEN section.todo ELSE section.undo

UndoInv ==
  /\ Working /\ section.command.kind = "setup" /\ ~section.warned =>
       /\ section.disturbed \/ Noted("configuration")
            \/ home.configuration = section.files.configuration
       /\ Noted("stamp") \/ home.stamp = section.files.stamp
       /\ \A f \in PolicyFiles :
            \/ home.policy[f] = section.files.policy[f]
            \/ f \in section.mutated /\ Noted("policy")
       /\ \/ Noted("audio")
          \/ audio = section.loaded
          \/ section.failed /\ ~Noted("policy") /\ audio = Installed
       /\ Noted("enablement") \/ service.enabled = section.unit.enabled
       /\ section.disturbed \/ Noted("activity")
            \/ service.active = section.unit.active
  /\ Going("setup") /\ "restart" \in section.todo =>
       "enable" \in section.todo \/ {"enablement", "activity"} \subseteq section.undo

\* What the audio servers have loaded needs no restart to be noticed later.
SettledAs(h, a) ==
  /\ (\A f \in PolicyFiles : h.policy[f] = "absent") => a.policy = h.policy
  /\ h.stamp = "current" /\ (\A f \in PolicyFiles : h.policy[f] = "current") =>
       a = [policy |-> h.policy, module |-> "current"]

WithPolicy(restored) ==
  [home EXCEPT !.policy = [f \in PolicyFiles |->
     IF f \in restored THEN section.files.policy[f] ELSE @[f]]]

\* The audio servers are still to be restarted.
BeforeRestart ==
  /\ audio = section.loaded /\ home.stamp = section.files.stamp
  /\ ~interrupted => SettledAs(section.files, section.loaded)
  /\ \A f \in PolicyFiles \ section.mutated : home.policy[f] = section.files.policy[f]
  /\ section.undo \cap {"audio", "stamp"} = {}
  /\ ("policy" \in section.undo) = (section.mutated # {})

SetupAudioInv ==
  Going("setup") =>
    /\ {"preset", "reload"} \cap section.todo # {} => section.mutated = {}
    /\ \A f \in section.mutated : home.policy[f] = "current"
    /\ "restartAudio" \in section.todo => BeforeRestart /\ "complete" \in section.todo
    /\ "restartAudio" \notin section.todo =>
         /\ "policy" \in section.undo => "audio" \in section.undo
         /\ ~interrupted \/ section.command.force => audio = Installed

UnsetupAudioInv ==
  Going("unsetup") =>
    /\ {"backUp", "mask", "disable"} \cap section.todo # {} => section.mutated = {}
    /\ "restartAudio" \in section.todo =>
         /\ BeforeRestart /\ "forget" \in section.todo
         /\ \A f \in section.mutated : home.policy[f] = "absent"
    /\ "restartAudio" \notin section.todo =>
         section.undo = {} /\ (~interrupted => SettledAs(home, audio))

RollbackAudioInv ==
  Working /\ section.failed /\ ~interrupted /\ "audio" \notin section.todo =>
    IF "policy" \in section.todo
    THEN /\ "stamp" \notin section.todo
         /\ \A restored \in SUBSET section.mutated :
              SettledAs(WithPolicy(restored), audio)
    ELSE SettledAs(home, audio) /\ ("stamp" \in section.todo => audio = Installed)

AudioInv ==
  /\ ~Working /\ ~interrupted => SettledAs(home, audio)
  /\ SetupAudioInv /\ UnsetupAudioInv /\ RollbackAudioInv

UserSetupInv == SetupTypes /\ OverrideInv /\ DoneInv /\ RemovedInv /\ UndoInv /\ AudioInv

-----------------------------------------------------------------------------
(* Whose turn it is. *)

OwnSetup == SetupOperations \ {"restartAudio"}
OwnUnsetup == UnsetupOperations \ {"restartAudio"}

LEMMA SetupPositions ==
  /\ DOMAIN SetupOrder = {1, 2, 3, 4, 5, 6, 7, 8, 9, 10, 11}
  /\ SetupOrder[1] = "preset" /\ SetupOrder[2] = "reload" /\ SetupOrder[3] = "install"
  /\ SetupOrder[4] = "restartAudio" /\ SetupOrder[5] = "enable"
  /\ SetupOrder[6] = "restart" /\ SetupOrder[7] = "check" /\ SetupOrder[8] = "unmask"
  /\ SetupOrder[9] = "unback" /\ SetupOrder[10] = "complete"
  /\ SetupOrder[11] = "launch"
<1>1. DOMAIN SetupOrder = 1 .. 11
  BY DEF SetupOrder
<1>2. 1 .. 11 = {1, 2, 3, 4, 5, 6, 7, 8, 9, 10, 11}
  OBVIOUS
<1> QED
  BY <1>1, <1>2 DEF SetupOrder

LEMMA UnsetupPositions ==
  /\ DOMAIN UnsetupOrder = {1, 2, 3, 4, 5, 6, 7, 8}
  /\ UnsetupOrder[1] = "backUp" /\ UnsetupOrder[2] = "mask" /\ UnsetupOrder[3] = "quit"
  /\ UnsetupOrder[4] = "disable" /\ UnsetupOrder[5] = "remove"
  /\ UnsetupOrder[6] = "restartAudio" /\ UnsetupOrder[7] = "purge"
  /\ UnsetupOrder[8] = "forget"
<1>1. DOMAIN UnsetupOrder = 1 .. 8
  BY DEF UnsetupOrder
<1>2. 1 .. 8 = {1, 2, 3, 4, 5, 6, 7, 8}
  OBVIOUS
<1> QED
  BY <1>1, <1>2 DEF UnsetupOrder

LEMMA RollbackPositions ==
  /\ DOMAIN RollbackOrder = {1, 2, 3, 4, 5, 6}
  /\ RollbackOrder[1] = "configuration" /\ RollbackOrder[2] = "stamp"
  /\ RollbackOrder[3] = "policy" /\ RollbackOrder[4] = "audio"
  /\ RollbackOrder[5] = "enablement" /\ RollbackOrder[6] = "activity"
<1>1. DOMAIN RollbackOrder = 1 .. 6
  BY DEF RollbackOrder
<1>2. 1 .. 6 = {1, 2, 3, 4, 5, 6}
  OBVIOUS
<1> QED
  BY <1>1, <1>2 DEF RollbackOrder

LEMMA OperationNames ==
  /\ SetupOperations = {"preset", "reload", "install", "restartAudio", "enable",
                        "restart", "check", "unmask", "unback", "complete", "launch"}
  /\ UnsetupOperations = {"backUp", "mask", "quit", "disable", "remove",
                          "restartAudio", "purge", "forget"}
  /\ Undoings = {"configuration", "stamp", "policy", "audio", "enablement", "activity"}
  /\ Operations = SetupOperations \cup UnsetupOperations
<1>1. SetupOperations = {"preset", "reload", "install", "restartAudio", "enable",
                        "restart", "check", "unmask", "unback", "complete", "launch"}
  <2> DEFINE Names == {"preset", "reload", "install", "restartAudio", "enable",
                        "restart", "check", "unmask", "unback", "complete", "launch"}
  <2>1. ASSUME NEW i \in DOMAIN SetupOrder PROVE SetupOrder[i] \in Names
    BY SetupPositions
  <2>2. ASSUME NEW o \in Names PROVE \E i \in DOMAIN SetupOrder : o = SetupOrder[i]
    BY SetupPositions
  <2> HIDE DEF Names
  <2>3. SetupOperations = Names
    BY <2>1, <2>2 DEF SetupOperations
  <2> QED
    BY <2>3 DEF Names
<1>2. UnsetupOperations = {"backUp", "mask", "quit", "disable", "remove",
                          "restartAudio", "purge", "forget"}
  <2> DEFINE Names == {"backUp", "mask", "quit", "disable", "remove",
                          "restartAudio", "purge", "forget"}
  <2>1. ASSUME NEW i \in DOMAIN UnsetupOrder PROVE UnsetupOrder[i] \in Names
    BY UnsetupPositions
  <2>2. ASSUME NEW o \in Names PROVE \E i \in DOMAIN UnsetupOrder : o = UnsetupOrder[i]
    BY UnsetupPositions
  <2> HIDE DEF Names
  <2>3. UnsetupOperations = Names
    BY <2>1, <2>2 DEF UnsetupOperations
  <2> QED
    BY <2>3 DEF Names
<1>3. Undoings = {"configuration", "stamp", "policy", "audio", "enablement", "activity"}
  BY RollbackPositions DEF Undoings
<1>4. Operations = SetupOperations \cup UnsetupOperations
  BY DEF Operations, SetupOperations, UnsetupOperations
<1> QED
  BY <1>1, <1>2, <1>3, <1>4

LEMMA CommandFields ==
  ASSUME NEW command \in SomeCommands
  PROVE  /\ command.kind \in {"setup", "unsetup"}
         /\ command.preset \in StartupPresets \cup {"none"}
<1>1. CASE command \in UserCommands
  <2>1. CASE command \in [kind : {"setup"}, force : BOOLEAN, launchGtk : BOOLEAN,
                          preset : StartupPresets \cup {"none"}, purge : {FALSE},
                          asked : {TRUE}]
    BY <2>1
  <2>2. CASE command \in [kind : {"unsetup"}, force : {FALSE}, launchGtk : {FALSE},
                          preset : {"none"}, purge : BOOLEAN, asked : {TRUE}]
    BY <2>2
  <2> QED
    BY <1>1, <2>1, <2>2 DEF UserCommands
<1>2. CASE command = ConditionalSetup(FALSE)
  BY <1>2, Zenon DEF ConditionalSetup
<1> QED
  BY <1>1, <1>2 DEF SomeCommands

LEMMA SectionKind ==
  ASSUME section \in Sections PROVE section.command.kind \in {"setup", "unsetup"}
  BY CommandFields DEF Sections

LEMMA SetupTurn ==
  ASSUME SetupTypes, NEW o \in OwnSetup, Does(o)
  PROVE  Going("setup")
  BY SectionKind, OperationNames
  DEF SetupTypes, UserSetupTypeOK, ProgramInv, OwnSetup, Does, Going

LEMMA UnsetupTurn ==
  ASSUME SetupTypes, NEW o \in OwnUnsetup, Does(o)
  PROVE  Going("unsetup")
  BY SectionKind, OperationNames
  DEF SetupTypes, UserSetupTypeOK, ProgramInv, OwnUnsetup, Does, Going

LEMMA AudioTurn ==
  ASSUME SetupTypes, Does("restartAudio")
  PROVE  Going("setup") \/ Going("unsetup")
  BY SectionKind, OperationNames
  DEF SetupTypes, UserSetupTypeOK, ProgramInv, Does, Going

LEMMA RollbackTurn ==
  ASSUME SetupTypes, NEW u \in Undoings, Does(u)
  PROVE  Working /\ section.failed
  BY SectionKind, OperationNames
  DEF SetupTypes, UserSetupTypeOK, ProgramInv, Does

LEMMA SetupIsInOrder ==
  ASSUME SetupTypes
  PROVE  /\ Does("install") => {"preset", "reload"} \cap section.todo = {}
         /\ Does("restartAudio") /\ Going("setup") =>
              {"preset", "reload", "install"} \cap section.todo = {}
         /\ Does("restart") => "enable" \notin section.todo
         /\ Does("unback") => "unmask" \notin section.todo
         /\ \A o \in {"enable", "restart", "check", "unmask", "unback", "complete",
                    "launch"} : Does(o) => "restartAudio" \notin section.todo
<1>1. {"install", "restart", "unback", "complete"} \subseteq OwnSetup
  BY OperationNames DEF OwnSetup
<1>2. ASSUME Going("setup"), NEW j \in DOMAIN SetupOrder, Does(SetupOrder[j])
      PROVE  \A i \in DOMAIN SetupOrder : i < j => SetupOrder[i] \notin section.todo
  BY <1>2 DEF Order, Going, Does
<1>3. Does("install") => {"preset", "reload"} \cap section.todo = {}
  <2> HAVE Does("install")
  <2>1. Going("setup")
    BY <1>1, SetupTurn
  <2>a. \A i \in DOMAIN SetupOrder : i < 3 => SetupOrder[i] \notin section.todo
    BY <1>2, <2>1, SetupPositions
  <2>b. {1, 2} \subseteq DOMAIN SetupOrder
    BY SetupPositions
  <2>2. SetupOrder[1] \notin section.todo /\ SetupOrder[2] \notin section.todo
    BY <2>a, <2>b
  <2> QED
    BY <2>2, SetupPositions
<1>4. Does("restartAudio") /\ Going("setup") =>
              {"preset", "reload", "install"} \cap section.todo = {}
  <2> HAVE Does("restartAudio") /\ Going("setup")
  <2>a. \A i \in DOMAIN SetupOrder : i < 4 => SetupOrder[i] \notin section.todo
    BY <1>2, SetupPositions
  <2>b. {1, 2, 3} \subseteq DOMAIN SetupOrder
    BY SetupPositions
  <2>1. \A i \in {1, 2, 3} : SetupOrder[i] \notin section.todo
    BY <2>a, <2>b
  <2> QED
    BY <2>1, SetupPositions
<1>5. Does("restart") => "enable" \notin section.todo
  <2> HAVE Does("restart")
  <2>1. Going("setup")
    BY <1>1, SetupTurn
  <2>a. \A i \in DOMAIN SetupOrder : i < 6 => SetupOrder[i] \notin section.todo
    BY <1>2, <2>1, SetupPositions
  <2>b. {5} \subseteq DOMAIN SetupOrder
    BY SetupPositions
  <2>2. SetupOrder[5] \notin section.todo
    BY <2>a, <2>b
  <2> QED
    BY <2>2, SetupPositions
<1>6. Does("unback") => "unmask" \notin section.todo
  <2> HAVE Does("unback")
  <2>1. Going("setup")
    BY <1>1, SetupTurn
  <2>a. \A i \in DOMAIN SetupOrder : i < 9 => SetupOrder[i] \notin section.todo
    BY <1>2, <2>1, SetupPositions
  <2>b. {8} \subseteq DOMAIN SetupOrder
    BY SetupPositions
  <2>2. SetupOrder[8] \notin section.todo
    BY <2>a, <2>b
  <2> QED
    BY <2>2, SetupPositions
<1>7. ASSUME NEW o \in {"enable", "restart", "check", "unmask", "unback", "complete",
                        "launch"}, Does(o)
      PROVE  "restartAudio" \notin section.todo
  <2>1. Going("setup")
    BY <1>7, SetupTurn, OperationNames DEF OwnSetup
  <2>2. PICK j \in {5, 6, 7, 8, 9, 10, 11} : SetupOrder[j] = o
    BY SetupPositions
  <2>3. \A i \in DOMAIN SetupOrder : i < j => SetupOrder[i] \notin section.todo
    BY <1>2, <1>7, <2>1, <2>2, SetupPositions
  <2>4. 4 \in DOMAIN SetupOrder /\ 4 < j
    BY SetupPositions
  <2>5. SetupOrder[4] \notin section.todo
    BY <2>3, <2>4
  <2> QED
    BY <2>5, SetupPositions
<1> QED
  BY <1>3, <1>4, <1>5, <1>6, <1>7

LEMMA UnsetupIsInOrder ==
  ASSUME SetupTypes
  PROVE  /\ Does("mask") => "backUp" \notin section.todo
         /\ Does("remove") => {"backUp", "mask", "disable"} \cap section.todo = {}
         /\ Does("restartAudio") /\ Going("unsetup") =>
              {"backUp", "mask", "disable", "remove"} \cap section.todo = {}
         /\ Does("purge") => "restartAudio" \notin section.todo
         /\ Does("forget") => "restartAudio" \notin section.todo
<1>1. {"mask", "remove", "purge", "forget"} \subseteq OwnUnsetup
  BY OperationNames DEF OwnUnsetup
<1>2. ASSUME Going("unsetup"), NEW j \in DOMAIN UnsetupOrder, Does(UnsetupOrder[j])
      PROVE  \A i \in DOMAIN UnsetupOrder : i < j => UnsetupOrder[i] \notin section.todo
  BY <1>2 DEF Order, Going, Does
<1>3. Does("mask") => "backUp" \notin section.todo
  <2> HAVE Does("mask")
  <2>1. Going("unsetup")
    BY <1>1, UnsetupTurn
  <2>a. \A i \in DOMAIN UnsetupOrder : i < 2 => UnsetupOrder[i] \notin section.todo
    BY <1>2, <2>1, UnsetupPositions
  <2>b. {1} \subseteq DOMAIN UnsetupOrder
    BY UnsetupPositions
  <2>2. UnsetupOrder[1] \notin section.todo
    BY <2>a, <2>b
  <2> QED
    BY <2>2, UnsetupPositions
<1>4. Does("remove") => {"backUp", "mask", "disable"} \cap section.todo = {}
  <2> HAVE Does("remove")
  <2>1. Going("unsetup")
    BY <1>1, UnsetupTurn
  <2>a. \A i \in DOMAIN UnsetupOrder : i < 5 => UnsetupOrder[i] \notin section.todo
    BY <1>2, <2>1, UnsetupPositions
  <2>b. {1, 2, 4} \subseteq DOMAIN UnsetupOrder
    BY UnsetupPositions
  <2>2. /\ UnsetupOrder[1] \notin section.todo /\ UnsetupOrder[2] \notin section.todo
        /\ UnsetupOrder[4] \notin section.todo
    BY <2>a, <2>b
  <2> QED
    BY <2>2, UnsetupPositions
<1>5. Does("restartAudio") /\ Going("unsetup") =>
        {"backUp", "mask", "disable", "remove"} \cap section.todo = {}
  <2> HAVE Does("restartAudio") /\ Going("unsetup")
  <2>a. \A i \in DOMAIN UnsetupOrder : i < 6 => UnsetupOrder[i] \notin section.todo
    BY <1>2, UnsetupPositions
  <2>b. {1, 2, 4, 5} \subseteq DOMAIN UnsetupOrder
    BY UnsetupPositions
  <2>1. \A i \in {1, 2, 4, 5} : UnsetupOrder[i] \notin section.todo
    BY <2>a, <2>b
  <2> QED
    BY <2>1, UnsetupPositions
<1>6. Does("purge") => "restartAudio" \notin section.todo
  <2> HAVE Does("purge")
  <2>1. Going("unsetup")
    BY <1>1, UnsetupTurn
  <2>a. \A i \in DOMAIN UnsetupOrder : i < 7 => UnsetupOrder[i] \notin section.todo
    BY <1>2, <2>1, UnsetupPositions
  <2>b. {6} \subseteq DOMAIN UnsetupOrder
    BY UnsetupPositions
  <2>2. UnsetupOrder[6] \notin section.todo
    BY <2>a, <2>b
  <2> QED
    BY <2>2, UnsetupPositions
<1>7. Does("forget") => "restartAudio" \notin section.todo
  <2> HAVE Does("forget")
  <2>1. Going("unsetup")
    BY <1>1, UnsetupTurn
  <2>a. \A i \in DOMAIN UnsetupOrder : i < 8 => UnsetupOrder[i] \notin section.todo
    BY <1>2, <2>1, UnsetupPositions
  <2>b. {6} \subseteq DOMAIN UnsetupOrder
    BY UnsetupPositions
  <2>2. UnsetupOrder[6] \notin section.todo
    BY <2>a, <2>b
  <2> QED
    BY <2>2, UnsetupPositions
<1> QED
  BY <1>3, <1>4, <1>5, <1>6, <1>7

LEMMA RollbackIsInOrder ==
  ASSUME SetupTypes, Does("audio")
  PROVE  {"stamp", "policy"} \cap section.todo = {}
<1>1. Working /\ section.failed
  BY OperationNames, RollbackTurn
<1>2. RollbackOrder[2] \notin section.todo /\ RollbackOrder[3] \notin section.todo
  BY <1>1, RollbackPositions DEF Order, Does
<1> QED
  BY <1>2, RollbackPositions

-----------------------------------------------------------------------------
(* Types. *)

LEMMA SpendType ==
  ASSUME UserSetupTypeOK, NEW kind, Spend(kind)
  PROVE  remaining' \in Happenings
  BY DEF UserSetupTypeOK, Happenings, Spend

LEMMA CommandTypes ==
  /\ UserCommands \subseteq SomeCommands
  /\ \A asked \in BOOLEAN : ConditionalSetup(asked) \in SomeCommands
  /\ NoCommand \notin SomeCommands
<1>1. UserCommands \subseteq SomeCommands
  BY DEF SomeCommands
<1>2. ConditionalSetup(FALSE) \in SomeCommands
  BY DEF SomeCommands
<1>3. ConditionalSetup(TRUE) \in SomeCommands
  BY DEF SomeCommands, UserCommands, ConditionalSetup
<1>4. NoCommand \notin SomeCommands
  BY CommandFields DEF NoCommand
<1> QED
  BY <1>1, <1>2, <1>3, <1>4

LEMMA StartedType ==
  ASSUME UserSetupTypeOK, NEW command \in SomeCommands
  PROVE  Started(command) \in [Processes -> SomeCommands \cup {NoCommand}]
  BY DEF UserSetupTypeOK, Started

LEMMA ProceedType ==
  ASSUME SetupTypes, Working, NEW o, NEW steps \in SUBSET Undoings, Proceed(o, steps)
  PROVE  section' \in Sections /\ remaining' \in Happenings /\ ProgramInv'
<1>1. section \in Sections
  BY DEF SetupTypes, UserSetupTypeOK
<1>2. section' = [section EXCEPT !.todo = @ \ {o}, !.undo = @ \cup steps]
  BY DEF Proceed
<1>3. section' \in Sections
  BY <1>1, <1>2 DEF Sections
<1>4. remaining' \in Happenings
  BY DEF Proceed, SetupTypes, UserSetupTypeOK
<1>5. ProgramInv'
  BY <1>1, <1>2 DEF SetupTypes, ProgramInv, Sections
<1> QED
  BY <1>3, <1>4, <1>5

LEMMA FailType ==
  ASSUME SetupTypes, Working, NEW steps \in SUBSET Undoings, Fail(steps)
  PROVE  section' \in Sections /\ ProgramInv'
<1>1. section \in Sections
  BY DEF SetupTypes, UserSetupTypeOK
<1>2. section' = [section EXCEPT !.failed = TRUE, !.todo = section.undo \cup steps]
  BY DEF Fail
<1>3. section' \in Sections
  BY <1>1, <1>2 DEF Sections
<1>4. ProgramInv'
  BY <1>1, <1>2 DEF SetupTypes, ProgramInv, Sections
<1> QED
  BY <1>3, <1>4

LEMMA FailsType ==
  ASSUME SetupTypes, Working, NEW steps \in SUBSET Undoings, Fails(steps)
  PROVE  section' \in Sections /\ remaining' \in Happenings /\ ProgramInv'
  BY FailType, SpendType DEF Fails, SetupTypes

LEMMA WarnsType ==
  ASSUME SetupTypes, Working, NEW u, Warns(u)
  PROVE  section' \in Sections /\ remaining' \in Happenings /\ ProgramInv'
<1>1. section \in Sections
  BY DEF SetupTypes, UserSetupTypeOK
<1>2. section' = [section EXCEPT !.todo = @ \ {u}, !.warned = TRUE]
  BY DEF Warns
<1>3. section' \in Sections
  BY <1>1, <1>2 DEF Sections
<1>4. remaining' \in Happenings
  BY SpendType DEF Warns, SetupTypes
<1>5. ProgramInv'
  BY <1>1, <1>2 DEF SetupTypes, ProgramInv, Sections
<1> QED
  BY <1>3, <1>4, <1>5

LEMMA InstalledType ==
  ASSUME home \in Homes PROVE Installed \in Audios
  BY DEF Homes, Audios, Installed

LEMMA ServiceFailsType ==
  ASSUME service \in Services, NEW enabled \in BOOLEAN, NEW active \in BOOLEAN,
         ServiceFails(enabled, active)
  PROVE  service' \in Services
  BY DEF Services, ServiceFails

LEMMA SetupStepTypes ==
  ASSUME SetupTypes, OverrideInv, SetupStep PROVE SetupTypes'
<1> USE DEF SetupTypes, UserSetupTypeOK
<1>0. Working /\ section \in Sections /\ section.command \in SomeCommands
  BY DEF SetupStep, SavePreset, ReloadUnits, InstallFile, RestartAudio, EnableService,
         RestartService, CheckService, Unmask, RestoreOverride, CompleteSetup, LaunchGtk,
         Does, Sections
<1>1. CASE SavePreset
  <2>1. section.command.preset \in StartupPresets \cup {"none"}
    BY <1>0, CommandFields
  <2> QED
    BY <1>0, <1>1, <2>1, ProceedType, FailsType, OperationNames DEF SavePreset, Homes
<1>2. CASE ReloadUnits
  BY <1>0, <1>2, ProceedType, FailsType, OperationNames DEF ReloadUnits
<1>3. CASE InstallFile
  <2>1. CASE UNCHANGED home /\ Fails({})
    BY <1>0, <1>3, <2>1, FailsType DEF InstallFile
  <2>2. CASE ~(UNCHANGED home /\ Fails({}))
    <3>1. PICK f \in Outdated :
          /\ home' = [home EXCEPT !.policy = [@ EXCEPT ![f] = "current"]]
          /\ section' = [section EXCEPT !.mutated = @ \cup {f}, !.undo = @ \cup {"policy"},
               !.todo = IF Outdated = {f} THEN @ \ {"install"} ELSE @]
          /\ UNCHANGED remaining
      BY <1>3, <2>2 DEF InstallFile
    <3>2. home' \in Homes
      BY <3>1 DEF Homes, Contents
    <3>3. section' \in Sections
      BY <1>0, <3>1, OperationNames DEF Sections, Outdated
    <3>4. ProgramInv'
      BY <1>0, <3>1 DEF ProgramInv, Sections
    <3> QED
      BY <1>3, <3>1, <3>2, <3>3, <3>4 DEF InstallFile
  <2> QED
    BY <2>1, <2>2
<1>4. CASE RestartAudio
  <2>1. audio' \in Audios /\ interrupted' \in BOOLEAN
    BY <1>4, InstalledType DEF RestartAudio
  <2>2. section' \in Sections /\ remaining' \in Happenings /\ ProgramInv'
    <3>1. CASE Proceed("restartAudio", {"audio"}) \/ Fails({"audio"})
      BY <1>0, <3>1, ProceedType, FailsType, OperationNames
    <3>2. CASE /\ section' = [section EXCEPT !.todo = @ \ {"restartAudio"}, !.undo = {}]
               /\ UNCHANGED remaining
      BY <1>0, <3>2 DEF Sections, ProgramInv
    <3> QED
      BY <1>4, <3>1, <3>2 DEF RestartAudio
  <2> QED
    BY <1>4, <2>1, <2>2 DEF RestartAudio
<1>5. CASE EnableService
  BY <1>0, <1>5, ProceedType, FailsType, ServiceFailsType, OperationNames
  DEF EnableService, Services
<1>6. CASE RestartService
  BY <1>0, <1>6, ProceedType, FailsType, ServiceFailsType, OperationNames
  DEF RestartService, Services
<1>7. CASE CheckService
  BY <1>0, <1>7, ProceedType, FailsType, FailType, OperationNames DEF CheckService
<1>8. CASE Unmask
  BY <1>0, <1>8, ProceedType, FailsType, OperationNames DEF Unmask, Homes
<1>9. CASE RestoreOverride
  BY <1>0, <1>9, ProceedType, FailsType, OperationNames DEF RestoreOverride, Homes
<1>10. CASE CompleteSetup
  BY <1>0, <1>10, ProceedType, FailsType, OperationNames DEF CompleteSetup, Homes, Contents
<1>11. CASE LaunchGtk
  BY <1>0, <1>11, ProceedType, FailsType, OperationNames, StartedType, CommandTypes
  DEF LaunchGtk
<1> QED
  BY <1>1, <1>2, <1>3, <1>4, <1>5, <1>6, <1>7, <1>8, <1>9, <1>10, <1>11 DEF SetupStep

LEMMA RollbackStepTypes ==
  ASSUME SetupTypes, RollbackStep PROVE SetupTypes'
<1> USE DEF SetupTypes, UserSetupTypeOK
<1>0. /\ Working /\ section \in Sections /\ section.files \in Homes
      /\ section.unit \in Services
  BY DEF RollbackStep, RestoreConfiguration, RestoreStamp, RestorePolicy,
         RestartAudioAgain, RestoreEnablement, RestoreActivity, Does, Sections
<1>1. CASE RestoreConfiguration
  BY <1>0, <1>1, ProceedType, WarnsType DEF RestoreConfiguration, Homes
<1>2. CASE RestoreStamp
  BY <1>0, <1>2, ProceedType, WarnsType DEF RestoreStamp, Homes
<1>3. CASE RestorePolicy
  BY <1>0, <1>3, ProceedType, WarnsType DEF RestorePolicy, Homes
<1>4. CASE RestartAudioAgain
  BY <1>0, <1>4, ProceedType, WarnsType, InstalledType DEF RestartAudioAgain
<1>5. CASE RestoreEnablement
  BY <1>0, <1>5, ProceedType, WarnsType, ServiceFailsType
  DEF RestoreEnablement, Services
<1>6. CASE RestoreActivity
  BY <1>0, <1>6, ProceedType, WarnsType, ServiceFailsType DEF RestoreActivity, Services
<1> QED
  BY <1>1, <1>2, <1>3, <1>4, <1>5, <1>6 DEF RollbackStep

LEMMA UnsetupStepTypes ==
  ASSUME SetupTypes, OverrideInv, UnsetupStep PROVE SetupTypes'
<1> USE DEF SetupTypes, UserSetupTypeOK
<1>0. Working /\ section \in Sections /\ section.files \in Homes
  BY DEF UnsetupStep, BackUpOverride, Mask, QuitGtk, DisableService, RemoveFile, Purge,
         ForgetSetup, Does, Sections
<1>1. CASE BackUpOverride
  <2>1. home.target \in Overrides
    BY <1>1, UnsetupTurn, OperationNames DEF BackUpOverride, OwnUnsetup, OverrideInv, Does
  <2> QED
    BY <1>0, <1>1, <2>1, ProceedType, FailType, FailsType DEF BackUpOverride, Homes
<1>2. CASE Mask
  BY <1>0, <1>2, ProceedType, FailsType DEF Mask, Homes
<1>3. CASE QuitGtk
  BY <1>0, <1>3, ProceedType, StartedType, CommandTypes DEF QuitGtk
<1>4. CASE DisableService
  <2>1. service' \in Services
    <3>1. [enabled |-> FALSE, active |-> FALSE] \in Services
      BY Zenon DEF Services
    <3>2. ServiceFails(FALSE, FALSE) => service' \in Services
      BY DEF ServiceFails, Services
    <3> QED
      BY <1>4, <3>1, <3>2 DEF DisableService
  <2>2. section' \in Sections /\ remaining' \in Happenings /\ ProgramInv'
    BY <1>0, <1>4, ProceedType, FailsType DEF DisableService
  <2> QED
    BY <1>4, <2>1, <2>2 DEF DisableService
<1>5. CASE RemoveFile
  <2>1. CASE UNCHANGED home /\ Fails({})
    BY <1>0, <1>5, <2>1, FailsType DEF RemoveFile
  <2>2. CASE ~(UNCHANGED home /\ Fails({}))
    <3>1. PICK f \in Present :
          /\ home' = [home EXCEPT !.policy = [@ EXCEPT ![f] = "absent"]]
          /\ section' = [section EXCEPT !.mutated = @ \cup {f}, !.undo = @ \cup {"policy"},
               !.todo = IF Present = {f} THEN @ \ {"remove"} ELSE @]
          /\ UNCHANGED remaining
      BY <1>5, <2>2 DEF RemoveFile
    <3>2. home' \in Homes
      BY <3>1 DEF Homes, Contents
    <3>3. section' \in Sections
      BY <1>0, <3>1, OperationNames DEF Sections, Present
    <3>4. ProgramInv'
      BY <1>0, <3>1 DEF ProgramInv, Sections
    <3> QED
      BY <1>5, <3>1, <3>2, <3>3, <3>4 DEF RemoveFile
  <2> QED
    BY <2>1, <2>2
<1>6. CASE Purge
  BY <1>0, <1>6, ProceedType, FailsType DEF Purge, Homes
<1>7. CASE ForgetSetup
  BY <1>0, <1>7, ProceedType, FailsType DEF ForgetSetup, Homes, Contents
<1> QED
  BY <1>1, <1>2, <1>3, <1>4, <1>5, <1>6, <1>7 DEF UnsetupStep

LEMMA ProgramType ==
  ASSUME NEW command \in SomeCommands
  PROVE  Program(command) \subseteq
           IF command.kind = "setup" THEN SetupOperations ELSE UnsetupOperations
  BY OperationNames DEF Program, SetupSteps, UnsetupSteps

LEMMA EnterTypes ==
  ASSUME SetupTypes, NEW p \in Processes, Enter(p) PROVE SetupTypes'
<1> USE DEF SetupTypes, UserSetupTypeOK
<1>1. PICK readable \in BOOLEAN :
       /\ IF readable THEN UNCHANGED remaining ELSE Spend("failures")
       /\ section' = [command |-> waiting[p],
                      todo |-> IF readable THEN Program(waiting[p]) ELSE {},
                      files |-> home, unit |-> service, loaded |-> audio,
                      mutated |-> {}, undo |-> {}, failed |-> ~readable,
                      warned |-> FALSE, disturbed |-> FALSE]
  BY DEF Enter
<1>2. waiting[p] \in SomeCommands /\ waiting' \in [Processes -> SomeCommands \cup {NoCommand}]
  BY DEF Enter
<1>3. section' \in Sections
  BY <1>1, <1>2, ProgramType, OperationNames DEF Sections
<1>4. ProgramInv'
  BY <1>1, <1>2, ProgramType DEF ProgramInv
<1>5. remaining' \in Happenings
  BY <1>1, SpendType
<1> QED
  BY <1>2, <1>3, <1>4, <1>5 DEF Enter

LEMMA OtherStepTypes ==
  ASSUME SetupTypes,
         \/ Leave \/ \E command \in UserCommands : RunCommand(command)
         \/ StartGtk \/ EndGtk \/ Kill \/ Upgrade \/ EditAutostart \/ Disturb
  PROVE  SetupTypes'
<1> USE DEF SetupTypes, UserSetupTypeOK
<1>1. CASE Leave
  BY <1>1 DEF Leave, Working, ProgramInv
<1>2. ASSUME NEW command \in UserCommands, RunCommand(command) PROVE SetupTypes'
  BY <1>2, StartedType, CommandTypes, SpendType DEF RunCommand, Working, ProgramInv
<1>3. CASE StartGtk
  BY <1>3, StartedType, CommandTypes, SpendType DEF StartGtk, Working, ProgramInv
<1>4. CASE EndGtk
  BY <1>4 DEF EndGtk, Working, ProgramInv
<1>5. CASE Kill
  BY <1>5, SpendType DEF Kill, Working, ProgramInv
<1>6. CASE Upgrade
  <2>1. PICK changed \in SUBSET PolicyFiles :
          LET Aged(policy) == [f \in PolicyFiles |->
                IF policy[f] = "current" /\ f \in changed THEN "old" ELSE policy[f]]
          IN  /\ home' = [home EXCEPT !.policy = Aged(@),
                                      !.stamp = IF @ = "current" THEN "old" ELSE @]
              /\ audio' = [policy |-> Aged(audio.policy), module |-> "old"]
    BY <1>6 DEF Upgrade
  <2>2. home' \in Homes
    BY <2>1 DEF Homes, Contents
  <2>3. audio' \in Audios
    BY <2>1 DEF Audios, Contents
  <2> QED
    BY <1>6, <2>2, <2>3, SpendType DEF Upgrade, Working, ProgramInv
<1>7. CASE EditAutostart
  BY <1>7, SpendType DEF EditAutostart, Working, ProgramInv, Homes
<1>8. CASE Disturb
  <2>1. home' \in Homes /\ service' \in Services
    BY <1>8 DEF Disturb, Homes, Services
  <2>2. (Working => section \in Sections /\ section' = [section EXCEPT !.disturbed = TRUE])
        /\ (~Working => section' = section)
    BY <1>8 DEF Disturb
  <2>3. Working' => section' \in Sections
    BY <2>2 DEF Sections, Working
  <2>4. ProgramInv'
    BY <2>2 DEF ProgramInv, Working, Sections
  <2> QED
    BY <1>8, <2>1, <2>3, <2>4, SpendType DEF Disturb
<1> QED
  BY <1>1, <1>2, <1>3, <1>4, <1>5, <1>6, <1>7, <1>8

LEMMA InitSetupTypes == SetupInit => SetupTypes
<1> SUFFICES ASSUME SetupInit PROVE SetupTypes
  OBVIOUS
<1>1. PICK override \in Overrides \cup {"absent"} :
        /\ home = [policy |-> [f \in PolicyFiles |-> "absent"], stamp |-> "absent",
                   target |-> override, backup |-> "absent", configuration |-> "none"]
        /\ owned = {override} \ {"absent"}
  BY DEF SetupInit
<1>2. home \in Homes /\ owned \subseteq Overrides
  BY <1>1 DEF Homes, Contents
<1>3. audio \in Audios
  BY <1>2 DEF SetupInit, Homes, Audios
<1>4. remaining \in Happenings
  BY SetupAssumption DEF SetupInit
<1>5. ~Working
  BY DEF SetupInit, Working
<1>6. /\ service \in Services /\ gtk \in BOOLEAN
      /\ waiting \in [Processes -> SomeCommands \cup {NoCommand}]
      /\ interrupted \in BOOLEAN /\ removed \in BOOLEAN
  BY DEF SetupInit, Services
<1> QED
  BY <1>2, <1>3, <1>4, <1>5, <1>6 DEF SetupTypes, UserSetupTypeOK, ProgramInv

LEMMA NextSetupTypes ==
  ASSUME SetupTypes, OverrideInv, [SetupNext]_setupVars PROVE SetupTypes'
<1>1. CASE UNCHANGED setupVars
  BY <1>1 DEF setupVars, SetupTypes, UserSetupTypeOK, ProgramInv, Working
<1> QED
  BY <1>1, EnterTypes, SetupStepTypes, RollbackStepTypes, UnsetupStepTypes, OtherStepTypes
  DEF SetupNext

-----------------------------------------------------------------------------
(* The user's autostart file. *)

\* What the ways to go on leave of the section.
LEMMA ProceedKeeps ==
  ASSUME SetupTypes, Working, NEW o, NEW steps, Proceed(o, steps)
  PROVE  /\ section'.todo = section.todo \ {o} /\ section'.undo = section.undo \cup steps
         /\ section'.command = section.command /\ section'.files = section.files
         /\ section'.unit = section.unit /\ section'.loaded = section.loaded
         /\ section'.mutated = section.mutated /\ section'.failed = section.failed
         /\ section'.warned = section.warned /\ section'.disturbed = section.disturbed
  BY DEF SetupTypes, UserSetupTypeOK, Sections, Proceed

LEMMA FailKeeps ==
  ASSUME SetupTypes, Working, NEW steps, Fail(steps)
  PROVE  /\ section'.todo = section.undo \cup steps /\ section'.undo = section.undo
         /\ section'.command = section.command /\ section'.files = section.files
         /\ section'.unit = section.unit /\ section'.loaded = section.loaded
         /\ section'.mutated = section.mutated /\ section'.failed
         /\ section'.warned = section.warned /\ section'.disturbed = section.disturbed
  BY DEF SetupTypes, UserSetupTypeOK, Sections, Fail

LEMMA WarnsKeeps ==
  ASSUME SetupTypes, Working, NEW u, Warns(u)
  PROVE  /\ section'.todo = section.todo \ {u} /\ section'.undo = section.undo
         /\ section'.command = section.command /\ section'.files = section.files
         /\ section'.unit = section.unit /\ section'.loaded = section.loaded
         /\ section'.mutated = section.mutated /\ section'.failed = section.failed
         /\ section'.warned /\ section'.disturbed = section.disturbed
  BY DEF SetupTypes, UserSetupTypeOK, Sections, Warns

\* A step of a command: it is done with one operation or none, or has failed.
Moves(o) ==
  \/ section'.failed
  \/ /\ section'.todo \in {section.todo, section.todo \ {o}}
     /\ section'.command = section.command /\ section'.files = section.files
     /\ section'.failed = section.failed

LEMMA ProceedMoves ==
  ASSUME SetupTypes, Working, NEW o, NEW steps, Proceed(o, steps) PROVE Moves(o)
  BY ProceedKeeps DEF Moves

LEMMA FailsMoves ==
  ASSUME SetupTypes, Working, NEW o, NEW steps, Fails(steps) PROVE Moves(o)
  BY FailKeeps DEF Moves, Fails

\* Where the file is, as far as OverrideInv asks.
SamePlace ==
  home'.target = home.target /\ home'.backup = home.backup /\ owned' = owned

LEMMA PlaceRests ==
  ASSUME SetupTypes, OverrideInv, SamePlace, Working' => Working,
         NEW o, o \notin {"backUp", "mask", "unmask", "unback"}, Working' => Moves(o)
  PROVE  OverrideInv'
  BY DEF OverrideInv, OverrideIsKept, SamePlace, Going, Moves

LEMMA PlaceRestsOutside ==
  ASSUME SetupTypes, OverrideInv, SamePlace, Working' => Working,
         Working' => /\ section'.todo = section.todo /\ section'.command = section.command
                     /\ section'.files = section.files /\ section'.failed = section.failed
  PROVE  OverrideInv'
  BY DEF OverrideInv, OverrideIsKept, SamePlace, Going

LEMMA PlaceRestsAfterFailure ==
  ASSUME SetupTypes, OverrideInv, SamePlace, Working' => Working /\ section'.failed
  PROVE  OverrideInv'
  BY DEF OverrideInv, OverrideIsKept, SamePlace, Going

LEMMA SetupStepOverride ==
  ASSUME SetupTypes, OverrideInv, SetupStep PROVE OverrideInv'
<1> USE DEF SetupTypes, UserSetupTypeOK
<1>0. Working /\ section \in Sections
  BY DEF SetupStep, SavePreset, ReloadUnits, InstallFile, RestartAudio, EnableService,
         RestartService, CheckService, Unmask, RestoreOverride, CompleteSetup, LaunchGtk,
         Does, Sections
<1>1. CASE SavePreset
  <2>1. SamePlace
    BY <1>1 DEF SavePreset, SamePlace, Homes
  <2>2. Moves("preset")
    BY <1>0, <1>1, ProceedMoves, FailsMoves DEF SavePreset
  <2> QED
    BY <1>0, <2>1, <2>2, PlaceRests
<1>2. CASE ReloadUnits
  <2>1. SamePlace
    BY <1>2 DEF ReloadUnits, SamePlace
  <2>2. Moves("reload")
    BY <1>0, <1>2, ProceedMoves, FailsMoves DEF ReloadUnits
  <2> QED
    BY <1>0, <2>1, <2>2, PlaceRests
<1>3. CASE InstallFile
  <2>1. SamePlace
    BY <1>3 DEF InstallFile, SamePlace, Homes
  <2>2. Moves("install")
    BY <1>0, <1>3, ProceedMoves, FailsMoves DEF InstallFile, Moves, Sections
  <2> QED
    BY <1>0, <2>1, <2>2, PlaceRests
<1>4. CASE RestartAudio
  <2>1. SamePlace
    BY <1>4 DEF RestartAudio, SamePlace
  <2>2. Moves("restartAudio")
    BY <1>0, <1>4, ProceedMoves, FailsMoves DEF RestartAudio, Moves, Sections
  <2> QED
    BY <1>0, <2>1, <2>2, PlaceRests
<1>5. CASE EnableService
  <2>1. SamePlace
    BY <1>5 DEF EnableService, SamePlace
  <2>2. Moves("enable")
    BY <1>0, <1>5, ProceedMoves, FailsMoves DEF EnableService
  <2> QED
    BY <1>0, <2>1, <2>2, PlaceRests
<1>6. CASE RestartService
  <2>1. SamePlace
    BY <1>6 DEF RestartService, SamePlace
  <2>2. Moves("restart")
    BY <1>0, <1>6, ProceedMoves, FailsMoves DEF RestartService
  <2> QED
    BY <1>0, <2>1, <2>2, PlaceRests
<1>7. CASE CheckService
  <2>1. SamePlace
    BY <1>7 DEF CheckService, SamePlace
  <2>2. Moves("check")
    BY <1>0, <1>7, ProceedMoves, FailsMoves, FailKeeps DEF CheckService, Moves
  <2> QED
    BY <1>0, <2>1, <2>2, PlaceRests
<1>8. CASE Unmask
  <2>1. CASE UNCHANGED home /\ Fails({})
    BY <1>0, <1>8, <2>1, FailKeeps, PlaceRestsAfterFailure DEF Unmask, SamePlace, Fails
  <2>2. CASE home' = [home EXCEPT !.target = "absent"] /\ Proceed("unmask", {})
    <3>1. Going("setup") /\ home.target = "mask"
      BY <1>8, SetupTurn, OperationNames DEF Unmask, OwnSetup, OverrideInv, Does
    <3>2. home'.target = "absent" /\ home'.backup = home.backup /\ owned' = owned
      BY <1>8, <2>2 DEF Unmask, Homes
    <3>3. "mask" \notin owned
      BY SetupAssumption
    <3> QED
      BY <1>0, <2>2, <3>1, <3>2, <3>3, ProceedKeeps DEF OverrideInv, OverrideIsKept, Going
  <2> QED
    BY <1>8, <2>1, <2>2 DEF Unmask
<1>9. CASE RestoreOverride
  <2>1. CASE UNCHANGED home /\ Fails({})
    BY <1>0, <1>9, <2>1, FailKeeps, PlaceRestsAfterFailure DEF RestoreOverride, SamePlace, Fails
  <2>2. CASE /\ home' = [home EXCEPT !.target = home.backup, !.backup = "absent"]
             /\ Proceed("unback", {})
    <3>1. Going("setup") /\ "unmask" \notin section.todo /\ home.target = "absent"
      BY <1>9, SetupTurn, SetupIsInOrder, OperationNames
      DEF RestoreOverride, OwnSetup, OverrideInv, Does
    <3>2. home'.target = home.backup /\ home'.backup = "absent" /\ owned' = owned
      BY <1>9, <2>2 DEF RestoreOverride, Homes
    <3>3. "absent" \notin owned
      BY SetupAssumption
    <3> QED
      BY <1>0, <2>2, <3>1, <3>2, <3>3, ProceedKeeps DEF OverrideInv, OverrideIsKept, Going
  <2> QED
    BY <1>9, <2>1, <2>2 DEF RestoreOverride
<1>10. CASE CompleteSetup
  <2>1. SamePlace
    BY <1>10 DEF CompleteSetup, SamePlace, Homes
  <2>2. Moves("complete")
    BY <1>0, <1>10, ProceedMoves, FailsMoves DEF CompleteSetup
  <2> QED
    BY <1>0, <2>1, <2>2, PlaceRests
<1>11. CASE LaunchGtk
  <2>1. SamePlace
    BY <1>11 DEF LaunchGtk, SamePlace
  <2>2. Moves("launch")
    BY <1>0, <1>11, ProceedMoves, FailsMoves DEF LaunchGtk
  <2> QED
    BY <1>0, <2>1, <2>2, PlaceRests
<1> QED
  BY <1>1, <1>2, <1>3, <1>4, <1>5, <1>6, <1>7, <1>8, <1>9, <1>10, <1>11 DEF SetupStep

LEMMA RollbackStepOverride ==
  ASSUME SetupTypes, OverrideInv, RollbackStep PROVE OverrideInv'
<1> USE DEF SetupTypes, UserSetupTypeOK
<1>0. Working /\ section \in Sections /\ section.failed
  BY RollbackTurn, OperationNames
  DEF RollbackStep, RestoreConfiguration, RestoreStamp, RestorePolicy,
      RestartAudioAgain, RestoreEnablement, RestoreActivity, Does
<1>1. CASE RestoreConfiguration
  BY <1>0, <1>1, ProceedKeeps, WarnsKeeps, PlaceRestsAfterFailure
  DEF RestoreConfiguration, SamePlace, Homes
<1>2. CASE RestoreStamp
  BY <1>0, <1>2, ProceedKeeps, WarnsKeeps, PlaceRestsAfterFailure DEF RestoreStamp, SamePlace, Homes
<1>3. CASE RestorePolicy
  BY <1>0, <1>3, ProceedKeeps, WarnsKeeps, PlaceRestsAfterFailure DEF RestorePolicy, SamePlace, Homes
<1>4. CASE RestartAudioAgain
  BY <1>0, <1>4, ProceedKeeps, WarnsKeeps, PlaceRestsAfterFailure DEF RestartAudioAgain, SamePlace
<1>5. CASE RestoreEnablement
  BY <1>0, <1>5, ProceedKeeps, WarnsKeeps, PlaceRestsAfterFailure DEF RestoreEnablement, SamePlace
<1>6. CASE RestoreActivity
  BY <1>0, <1>6, ProceedKeeps, WarnsKeeps, PlaceRestsAfterFailure DEF RestoreActivity, SamePlace
<1> QED
  BY <1>1, <1>2, <1>3, <1>4, <1>5, <1>6 DEF RollbackStep

LEMMA UnsetupStepOverride ==
  ASSUME SetupTypes, OverrideInv, UnsetupStep PROVE OverrideInv'
<1> USE DEF SetupTypes, UserSetupTypeOK
<1>0. Working /\ section \in Sections
  BY DEF UnsetupStep, BackUpOverride, Mask, QuitGtk, DisableService, RemoveFile, Purge,
         ForgetSetup, Does
<1>1. CASE BackUpOverride
  <2>1. CASE UNCHANGED home /\ (Fail({}) \/ Fails({}))
    BY <1>0, <1>1, <2>1, FailKeeps, PlaceRestsAfterFailure DEF BackUpOverride, SamePlace, Fails
  <2>2. CASE /\ home.backup = "absent" /\ Proceed("backUp", {})
             /\ home' = [home EXCEPT !.backup = home.target, !.target = "absent"]
    <3>1. /\ Going("unsetup") /\ home.target \in Overrides
          /\ home.target \in {section.files.target, section.files.backup}
      BY <1>1, UnsetupTurn, OperationNames, SetupAssumption
      DEF BackUpOverride, OwnUnsetup, OverrideInv, Does
    <3>2. home'.target = "absent" /\ home'.backup = home.target /\ owned' = owned
      BY <1>1, <2>2 DEF BackUpOverride, Homes
    <3>3. "absent" \notin owned
      BY SetupAssumption
    <3> QED
      BY <1>0, <2>2, <3>1, <3>2, <3>3, ProceedKeeps DEF OverrideInv, OverrideIsKept, Going
  <2> QED
    BY <1>1, <2>1, <2>2 DEF BackUpOverride
<1>2. CASE Mask
  <2>0. /\ Going("unsetup") /\ home.target = "absent"
        /\ {home.target, home.backup} \ {"absent"}
             \subseteq {section.files.target, section.files.backup}
    BY <1>2, UnsetupTurn, UnsetupIsInOrder, OperationNames
    DEF Mask, OwnUnsetup, OverrideInv, Does
  <2>1. CASE UNCHANGED home /\ Fails({})
    BY <1>0, <1>2, <2>1, FailKeeps, PlaceRestsAfterFailure DEF Mask, SamePlace, Fails
  <2>2. CASE home' = [home EXCEPT !.target = "mask"] /\ Proceed("mask", {})
    <3>1. home'.target = "mask" /\ home'.backup = home.backup /\ owned' = owned
      BY <1>2, <2>2 DEF Mask, Homes
    <3>2. "absent" \notin owned
      BY SetupAssumption
    <3>3. "backUp" \notin section.todo
      BY <1>2, UnsetupIsInOrder DEF Mask
    <3> QED
      BY <1>0, <2>0, <2>2, <3>1, <3>2, <3>3, ProceedKeeps DEF OverrideInv, OverrideIsKept, Going
  <2>3. CASE /\ home' = [home EXCEPT !.target = section.files.target,
                                     !.backup = section.files.backup]
             /\ Fails({})
    <3>1. /\ home'.target = section.files.target /\ home'.backup = section.files.backup
          /\ owned' = owned
      BY <1>2, <2>3 DEF Mask, Homes
    <3>2. "absent" \notin owned
      BY SetupAssumption
    <3> QED
      BY <1>0, <2>0, <2>3, <3>1, <3>2, FailKeeps DEF OverrideInv, OverrideIsKept, Going, Fails
  <2> QED
    BY <1>2, <2>1, <2>2, <2>3 DEF Mask
<1>3. CASE QuitGtk
  <2>1. SamePlace
    BY <1>3 DEF QuitGtk, SamePlace
  <2>2. Moves("quit")
    BY <1>0, <1>3, ProceedMoves, FailsMoves DEF QuitGtk
  <2> QED
    BY <1>0, <2>1, <2>2, PlaceRests
<1>4. CASE DisableService
  <2>1. SamePlace
    BY <1>4 DEF DisableService, SamePlace
  <2>2. Moves("disable")
    BY <1>0, <1>4, ProceedMoves, FailsMoves DEF DisableService
  <2> QED
    BY <1>0, <2>1, <2>2, PlaceRests
<1>5. CASE RemoveFile
  <2>1. SamePlace
    BY <1>5 DEF RemoveFile, SamePlace, Homes
  <2>2. Moves("remove")
    BY <1>0, <1>5, ProceedMoves, FailsMoves DEF RemoveFile, Moves, Sections
  <2> QED
    BY <1>0, <2>1, <2>2, PlaceRests
<1>6. CASE Purge
  <2>1. SamePlace
    BY <1>6 DEF Purge, SamePlace, Homes
  <2>2. Moves("purge")
    BY <1>0, <1>6, ProceedMoves, FailsMoves DEF Purge
  <2> QED
    BY <1>0, <2>1, <2>2, PlaceRests
<1>7. CASE ForgetSetup
  <2>1. SamePlace
    BY <1>7 DEF ForgetSetup, SamePlace, Homes
  <2>2. Moves("forget")
    BY <1>0, <1>7, ProceedMoves, FailsMoves DEF ForgetSetup
  <2> QED
    BY <1>0, <2>1, <2>2, PlaceRests
<1> QED
  BY <1>1, <1>2, <1>3, <1>4, <1>5, <1>6, <1>7 DEF UnsetupStep

LEMMA EnterOverride ==
  ASSUME SetupTypes, OverrideInv, NEW p \in Processes, Enter(p) PROVE OverrideInv'
<1> USE DEF SetupTypes, UserSetupTypeOK
<1>1. PICK readable \in BOOLEAN :
        section' = [command |-> waiting[p],
                    todo |-> IF readable THEN Program(waiting[p]) ELSE {},
                    files |-> home, unit |-> service, loaded |-> audio,
                    mutated |-> {}, undo |-> {}, failed |-> ~readable,
                    warned |-> FALSE, disturbed |-> FALSE]
  BY DEF Enter
<1>2. home' = home /\ owned' = owned
  BY DEF Enter
<1>3. OverrideIsKept'
  BY <1>2 DEF OverrideInv, OverrideIsKept
<1>4. CASE ~readable
  BY <1>1, <1>3, <1>4 DEF OverrideInv, Going
<1>5. CASE readable /\ waiting[p].kind = "setup"
  <2>1. Program(waiting[p]) = SetupSteps(waiting[p])
    BY <1>5 DEF Program
  <2>2. "unmask" \in SetupSteps(waiting[p]) => home.target = "mask"
    BY DEF SetupSteps
  <2>3. "unback" \in SetupSteps(waiting[p]) => "unmask" \in SetupSteps(waiting[p])
    BY DEF SetupSteps
  <2> QED
    BY <1>1, <1>2, <1>3, <1>5, <2>1, <2>2, <2>3 DEF OverrideInv, Going
<1>6. CASE readable /\ waiting[p].kind # "setup"
  <2>1. Program(waiting[p]) = UnsetupSteps(waiting[p])
    BY <1>6 DEF Program
  <2>2. "backUp" \in UnsetupSteps(waiting[p]) <=> home.target \in Overrides
    BY DEF UnsetupSteps
  <2>3. "mask" \in UnsetupSteps(waiting[p]) <=> home.target # "mask"
    BY DEF UnsetupSteps
  <2>4. home.target \in Overrides \cup {"absent", "mask"} /\ "mask" \notin Overrides
    BY SetupAssumption DEF Homes
  <2> QED
    BY <1>1, <1>2, <1>3, <1>6, <2>1, <2>2, <2>3, <2>4 DEF OverrideInv, Going
<1> QED
  BY <1>4, <1>5, <1>6

LEMMA OtherStepOverride ==
  ASSUME SetupTypes, OverrideInv,
         \/ Leave \/ \E command \in UserCommands : RunCommand(command)
         \/ StartGtk \/ EndGtk \/ Kill \/ Upgrade \/ EditAutostart \/ Disturb
  PROVE  OverrideInv'
<1> USE DEF SetupTypes, UserSetupTypeOK
<1>1. CASE Leave
  BY <1>1, PlaceRestsOutside DEF Leave, SamePlace, Working
<1>2. ASSUME NEW command \in UserCommands, RunCommand(command) PROVE OverrideInv'
  BY <1>2, PlaceRestsOutside DEF RunCommand, SamePlace, Working
<1>3. CASE StartGtk
  BY <1>3, PlaceRestsOutside DEF StartGtk, SamePlace, Working
<1>4. CASE EndGtk
  BY <1>4, PlaceRestsOutside DEF EndGtk, SamePlace, Working
<1>5. CASE Kill
  BY <1>5, PlaceRestsOutside DEF Kill, SamePlace, Working
<1>6. CASE Upgrade
  <2>1. SamePlace /\ ~Working'
    BY <1>6 DEF Upgrade, SamePlace, Homes, Working
  <2> QED
    BY <2>1, PlaceRestsOutside
<1>7. CASE EditAutostart
  <2>1. PICK override \in (Overrides \ {home.target, home.backup}) \cup {"absent"} :
          /\ home' = [home EXCEPT !.target = override]
          /\ owned' = (owned \ {home.target}) \cup ({override} \ {"absent"})
    BY <1>7 DEF EditAutostart
  <2>2. home'.target = override /\ home'.backup = home.backup
    BY <2>1 DEF Homes
  <2>3. ~Working'
    BY <1>7 DEF EditAutostart, Working
  <2> QED
    BY <2>1, <2>2, <2>3 DEF OverrideInv, OverrideIsKept, Going
<1>8. CASE Disturb
  <2>1. SamePlace
    BY <1>8 DEF Disturb, SamePlace, Homes
  <2>2. /\ Working => section \in Sections /\ section' = [section EXCEPT !.disturbed = TRUE]
        /\ ~Working => section' = section
    BY <1>8 DEF Disturb
  <2>3. Working' => Working
    BY <2>2 DEF Working
  <2>4. Working' => /\ section'.todo = section.todo /\ section'.command = section.command
                    /\ section'.files = section.files /\ section'.failed = section.failed
    BY <2>2, <2>3 DEF Sections
  <2> QED
    BY <2>1, <2>3, <2>4, PlaceRestsOutside
<1> QED
  BY <1>1, <1>2, <1>3, <1>4, <1>5, <1>6, <1>7, <1>8

LEMMA InitOverride == SetupInit => OverrideInv
  BY DEF SetupInit, OverrideInv, OverrideIsKept, Going, Working

LEMMA NextOverride ==
  ASSUME SetupTypes, OverrideInv, [SetupNext]_setupVars PROVE OverrideInv'
<1>1. CASE UNCHANGED setupVars
  BY <1>1, PlaceRestsOutside DEF setupVars, SamePlace, Working
<1> QED
  BY <1>1, EnterOverride, SetupStepOverride, RollbackStepOverride, UnsetupStepOverride,
     OtherStepOverride DEF SetupNext

\* The user's own autostart file is where it was or in the backup, whichever
\* command fails or dies half-way.
THEOREM SetupOverrideIsKept == SetupSpec => []OverrideIsKept
<1>1. SetupInit => SetupTypes /\ OverrideInv
  BY InitSetupTypes, InitOverride
<1>2. SetupTypes /\ OverrideInv /\ [SetupNext]_setupVars => (SetupTypes /\ OverrideInv)'
  BY NextSetupTypes, NextOverride
<1>3. SetupTypes /\ OverrideInv => OverrideIsKept
  BY DEF OverrideInv
<1> QED
  BY <1>1, <1>2, <1>3, PTL DEF SetupSpec

-----------------------------------------------------------------------------
(* What a command has done. *)

\* Nothing but the operation o has been crossed out, and what the command found
\* is what it was.
GoesOn(o) ==
  /\ section'.todo = section.todo \ {o}
  /\ section'.command = section.command /\ section'.files = section.files
  /\ section'.disturbed = section.disturbed

LEMMA ProceedGoesOn ==
  ASSUME SetupTypes, Working, NEW o, NEW steps, Proceed(o, steps) PROVE GoesOn(o)
  BY ProceedKeeps DEF GoesOn

LEMMA InstallOutcome ==
  ASSUME SetupTypes, InstallFile
  PROVE  \/ UNCHANGED home /\ Fails({})
         \/ /\ \E f \in Outdated :
                 /\ home'.policy = [home.policy EXCEPT ![f] = "current"]
                 /\ Outdated' = Outdated \ {f}
                 /\ section'.mutated = section.mutated \cup {f}
                 /\ section'.todo = IF Outdated = {f} THEN section.todo \ {"install"}
                                                      ELSE section.todo
            /\ home'.stamp = home.stamp /\ home'.target = home.target
            /\ home'.backup = home.backup /\ home'.configuration = home.configuration
            /\ section'.undo = section.undo \cup {"policy"}
            /\ section'.command = section.command /\ section'.files = section.files
            /\ section'.unit = section.unit /\ section'.loaded = section.loaded
            /\ section'.failed = section.failed /\ section'.warned = section.warned
            /\ section'.disturbed = section.disturbed
            /\ UNCHANGED <<audio, service, interrupted>>
<1> USE DEF SetupTypes, UserSetupTypeOK
<1>0. Working /\ section \in Sections
  BY DEF InstallFile, Does
<1>1. SUFFICES ASSUME ~(UNCHANGED home /\ Fails({})) 
      PROVE  /\ \E f \in Outdated :
                 /\ home'.policy = [home.policy EXCEPT ![f] = "current"]
                 /\ Outdated' = Outdated \ {f}
                 /\ section'.mutated = section.mutated \cup {f}
                 /\ section'.todo = IF Outdated = {f} THEN section.todo \ {"install"}
                                                      ELSE section.todo
            /\ home'.stamp = home.stamp /\ home'.target = home.target
            /\ home'.backup = home.backup /\ home'.configuration = home.configuration
            /\ section'.undo = section.undo \cup {"policy"}
            /\ section'.command = section.command /\ section'.files = section.files
            /\ section'.unit = section.unit /\ section'.loaded = section.loaded
            /\ section'.failed = section.failed /\ section'.warned = section.warned
            /\ section'.disturbed = section.disturbed
            /\ UNCHANGED <<audio, service, interrupted>>
  OBVIOUS
<1>2. PICK f \in Outdated :
          /\ home' = [home EXCEPT !.policy = [@ EXCEPT ![f] = "current"]]
          /\ section' = [section EXCEPT !.mutated = @ \cup {f}, !.undo = @ \cup {"policy"},
               !.todo = IF Outdated = {f} THEN @ \ {"install"} ELSE @]
  BY <1>1 DEF InstallFile
<1>3. /\ home'.policy = [home.policy EXCEPT ![f] = "current"]
      /\ home'.stamp = home.stamp /\ home'.target = home.target
      /\ home'.backup = home.backup /\ home'.configuration = home.configuration
  BY <1>2 DEF Homes
<1>4. Outdated' = Outdated \ {f}
  BY <1>3 DEF Outdated, Homes
<1>5. /\ section'.mutated = section.mutated \cup {f}
      /\ section'.todo = IF Outdated = {f} THEN section.todo \ {"install"}
                                           ELSE section.todo
      /\ section'.undo = section.undo \cup {"policy"}
      /\ section'.command = section.command /\ section'.files = section.files
      /\ section'.unit = section.unit /\ section'.loaded = section.loaded
      /\ section'.failed = section.failed /\ section'.warned = section.warned
      /\ section'.disturbed = section.disturbed
  BY <1>0, <1>2 DEF Sections
<1> QED
  BY <1>3, <1>4, <1>5 DEF InstallFile

LEMMA SetupStepDone ==
  ASSUME SetupTypes, OverrideInv, DoneInv, SetupStep PROVE DoneInv'
<1> USE DEF SetupTypes, UserSetupTypeOK
<1>0. Working /\ section \in Sections
  BY DEF SetupStep, SavePreset, ReloadUnits, InstallFile, RestartAudio, EnableService,
         RestartService, CheckService, Unmask, RestoreOverride, CompleteSetup, LaunchGtk,
         Does, Sections
<1>a. SUFFICES ASSUME Going("setup")' PROVE DoneInv'
  BY DEF DoneInv
<1>b. ASSUME NEW steps, Fails(steps) \/ Fail(steps) PROVE FALSE
  BY <1>0, <1>a, <1>b, FailKeeps DEF Going, Fails
<1>1. CASE SavePreset
  <2>1. GoesOn("preset") /\ home' = [home EXCEPT !.configuration = section.command.preset]
    BY <1>0, <1>1, <1>b, ProceedGoesOn DEF SavePreset
  <2>2. /\ home'.configuration = section.command.preset /\ home'.policy = home.policy
        /\ home'.stamp = home.stamp /\ home'.target = home.target
        /\ home'.backup = home.backup
    BY <2>1 DEF Homes
  <2>3. Going("setup") /\ service' = service
    BY <1>1, SetupTurn, OperationNames DEF SavePreset, OwnSetup
  <2> QED
    BY <2>1, <2>2, <2>3 DEF DoneInv, GoesOn, Outdated
<1>2. CASE ReloadUnits
  <2>1. GoesOn("reload")
    BY <1>0, <1>2, <1>b, ProceedGoesOn DEF ReloadUnits
  <2>2. Going("setup") /\ home' = home /\ service' = service
    BY <1>2, SetupTurn, OperationNames DEF ReloadUnits, OwnSetup
  <2> QED
    BY <2>1, <2>2 DEF DoneInv, GoesOn, Outdated
<1>3. CASE InstallFile
  <2>1. Going("setup") /\ service' = service
    BY <1>3, SetupTurn, OperationNames DEF InstallFile, OwnSetup
  <2>2. "install" \in section.todo
    BY <1>3 DEF InstallFile, Does
  <2>3. PICK f \in Outdated :
          /\ Outdated' = Outdated \ {f}
          /\ section'.todo = IF Outdated = {f} THEN section.todo \ {"install"}
                                               ELSE section.todo
    BY <1>3, <1>b, InstallOutcome
  <2>4. /\ home'.stamp = home.stamp /\ home'.target = home.target
        /\ home'.backup = home.backup /\ home'.configuration = home.configuration
        /\ section'.command = section.command /\ section'.files = section.files
        /\ section'.disturbed = section.disturbed
    BY <1>3, <1>b, InstallOutcome
  <2> QED
    BY <2>1, <2>2, <2>3, <2>4 DEF DoneInv
<1>4. CASE RestartAudio
  <2>1. Going("setup") /\ home' = home /\ service' = service
    BY <1>0, <1>4, <1>a, <1>b, AudioTurn, ProceedKeeps DEF RestartAudio, Going, Sections
  <2>2. GoesOn("restartAudio")
    BY <1>0, <1>4, <1>b, <2>1, ProceedGoesOn DEF RestartAudio, Going
  <2>3. "install" \notin section.todo
    BY <1>4, <2>1, SetupIsInOrder DEF RestartAudio
  <2> QED
    BY <2>1, <2>2, <2>3 DEF DoneInv, GoesOn, Outdated
<1>5. CASE EnableService
  <2>1. GoesOn("enable") /\ service' = [service EXCEPT !.enabled = TRUE]
    BY <1>0, <1>5, <1>b, ProceedGoesOn DEF EnableService
  <2>2. service'.enabled /\ service'.active = service.active
    BY <2>1 DEF Services
  <2>3. Going("setup") /\ home' = home
    BY <1>5, SetupTurn, OperationNames DEF EnableService, OwnSetup
  <2> QED
    BY <2>1, <2>2, <2>3 DEF DoneInv, GoesOn, Outdated
<1>6. CASE RestartService
  <2>1. GoesOn("restart") /\ service' = [service EXCEPT !.active = TRUE]
    BY <1>0, <1>6, <1>b, ProceedGoesOn DEF RestartService
  <2>2. service'.active /\ service'.enabled = service.enabled
    BY <2>1 DEF Services
  <2>3. Going("setup") /\ home' = home
    BY <1>6, SetupTurn, OperationNames DEF RestartService, OwnSetup
  <2> QED
    BY <2>1, <2>2, <2>3 DEF DoneInv, GoesOn, Outdated
<1>7. CASE CheckService
  <2>1. GoesOn("check")
    BY <1>0, <1>7, <1>b, ProceedGoesOn DEF CheckService
  <2>2. Going("setup") /\ home' = home /\ service' = service
    BY <1>7, SetupTurn, OperationNames DEF CheckService, OwnSetup
  <2> QED
    BY <2>1, <2>2 DEF DoneInv, GoesOn, Outdated
<1>8. CASE Unmask
  <2>1. GoesOn("unmask") /\ home' = [home EXCEPT !.target = "absent"]
    BY <1>0, <1>8, <1>b, ProceedGoesOn DEF Unmask
  <2>2. /\ home'.target = "absent" /\ home'.policy = home.policy
        /\ home'.stamp = home.stamp /\ home'.backup = home.backup
        /\ home'.configuration = home.configuration
    BY <2>1 DEF Homes
  <2>3. Going("setup") /\ service' = service /\ "unmask" \in section.todo
    BY <1>8, SetupTurn, OperationNames DEF Unmask, OwnSetup, Does
  <2> QED
    BY <2>1, <2>2, <2>3 DEF DoneInv, GoesOn, Outdated
<1>9. CASE RestoreOverride
  <2>1. GoesOn("unback") /\ home' = [home EXCEPT !.target = home.backup, !.backup = "absent"]
    BY <1>0, <1>9, <1>b, ProceedGoesOn DEF RestoreOverride
  <2>2. /\ home'.target = home.backup /\ home'.policy = home.policy
        /\ home'.stamp = home.stamp /\ home'.configuration = home.configuration
    BY <2>1 DEF Homes
  <2>3. /\ Going("setup") /\ service' = service
        /\ "unback" \in section.todo /\ "unmask" \notin section.todo
    BY <1>9, SetupTurn, SetupIsInOrder, OperationNames DEF RestoreOverride, OwnSetup, Does
  <2>4. home.backup # "mask"
    BY SetupAssumption DEF Homes
  <2> QED
    BY <2>1, <2>2, <2>3, <2>4 DEF DoneInv, GoesOn, Outdated
<1>10. CASE CompleteSetup
  <2>1. GoesOn("complete") /\ home' = [home EXCEPT !.stamp = "current"]
    BY <1>0, <1>10, <1>b, ProceedGoesOn DEF CompleteSetup
  <2>2. /\ home'.stamp = "current" /\ home'.policy = home.policy
        /\ home'.target = home.target /\ home'.backup = home.backup
        /\ home'.configuration = home.configuration
    BY <2>1 DEF Homes
  <2>3. Going("setup") /\ service' = service
    BY <1>10, SetupTurn, OperationNames DEF CompleteSetup, OwnSetup
  <2> QED
    BY <2>1, <2>2, <2>3 DEF DoneInv, GoesOn, Outdated
<1>11. CASE LaunchGtk
  <2>1. GoesOn("launch")
    BY <1>0, <1>11, <1>b, ProceedGoesOn DEF LaunchGtk
  <2>2. Going("setup") /\ home' = home /\ service' = service
    BY <1>11, SetupTurn, OperationNames DEF LaunchGtk, OwnSetup
  <2> QED
    BY <2>1, <2>2 DEF DoneInv, GoesOn, Outdated
<1> QED
  BY <1>1, <1>2, <1>3, <1>4, <1>5, <1>6, <1>7, <1>8, <1>9, <1>10, <1>11 DEF SetupStep

LEMMA EnterDone ==
  ASSUME SetupTypes, NEW p \in Processes, Enter(p) PROVE DoneInv' /\ RemovedInv'
<1> USE DEF SetupTypes, UserSetupTypeOK
<1>1. PICK readable \in BOOLEAN :
        section' = [command |-> waiting[p],
                    todo |-> IF readable THEN Program(waiting[p]) ELSE {},
                    files |-> home, unit |-> service, loaded |-> audio,
                    mutated |-> {}, undo |-> {}, failed |-> ~readable,
                    warned |-> FALSE, disturbed |-> FALSE]
  BY DEF Enter
<1>2. home' = home /\ service' = service /\ audio' = audio
  BY DEF Enter
<1>3. CASE ~readable
  BY <1>1, <1>3 DEF DoneInv, RemovedInv, Going
<1>4. CASE readable /\ waiting[p].kind = "setup"
  <2> DEFINE steps == SetupSteps(waiting[p])
  <2>1. Going("unsetup")' = FALSE
    BY <1>1, <1>4 DEF Going
  <2>2. section'.todo = steps
    BY <1>1, <1>4 DEF Program
  <2>3. CASE ~waiting[p].force /\ waiting[p].preset = "none" /\ IsReady
    <3>1. steps = {}
      BY <2>3 DEF SetupSteps
    <3> QED
      BY <1>1, <1>2, <1>4, <2>1, <2>2, <2>3, <3>1
      DEF DoneInv, RemovedInv, Going, IsReady, Outdated
  <2>4. CASE ~(~waiting[p].force /\ waiting[p].preset = "none" /\ IsReady)
    <3>1. /\ {"reload", "enable", "restart", "check", "complete"} \subseteq steps
          /\ "preset" \in steps <=> waiting[p].preset # "none"
          /\ "install" \in steps <=> Outdated # {}
          /\ Outdated # {} => "restartAudio" \in steps
          /\ "unmask" \in steps <=> home.target = "mask"
          /\ "unback" \in steps <=> home.target = "mask" /\ home.backup # "absent"
      BY <2>4 DEF SetupSteps
    <3> QED
      BY <1>1, <1>2, <1>4, <2>1, <2>2, <3>1 DEF DoneInv, RemovedInv, Going, Outdated
  <2> QED
    BY <2>3, <2>4
<1>5. CASE readable /\ waiting[p].kind # "setup"
  <2> DEFINE steps == UnsetupSteps(waiting[p])
  <2>1. Going("setup")' = FALSE
    BY <1>1, <1>5 DEF Going
  <2>2. section'.todo = steps
    BY <1>1, <1>5 DEF Program
  <2>3. /\ {"quit", "disable", "forget"} \subseteq steps
        /\ "mask" \in steps <=> home.target # "mask"
        /\ "remove" \in steps <=> Present # {}
        /\ "restartAudio" \in steps <=> Present # {}
        /\ "purge" \in steps <=> waiting[p].purge
    BY DEF UnsetupSteps
  <2> QED
    BY <1>1, <1>2, <1>5, <2>1, <2>2, <2>3 DEF DoneInv, RemovedInv, Going, Present
<1> QED
  BY <1>3, <1>4, <1>5

LEMMA RemoveOutcome ==
  ASSUME SetupTypes, RemoveFile
  PROVE  \/ UNCHANGED home /\ Fails({})
         \/ /\ \E f \in Present :
                 /\ home'.policy = [home.policy EXCEPT ![f] = "absent"]
                 /\ Present' = Present \ {f}
                 /\ section'.mutated = section.mutated \cup {f}
                 /\ section'.todo = IF Present = {f} THEN section.todo \ {"remove"}
                                                     ELSE section.todo
            /\ home'.stamp = home.stamp /\ home'.target = home.target
            /\ home'.backup = home.backup /\ home'.configuration = home.configuration
            /\ section'.undo = section.undo \cup {"policy"}
            /\ section'.command = section.command /\ section'.files = section.files
            /\ section'.unit = section.unit /\ section'.loaded = section.loaded
            /\ section'.failed = section.failed /\ section'.warned = section.warned
            /\ section'.disturbed = section.disturbed
            /\ UNCHANGED <<audio, service, interrupted>>
<1> USE DEF SetupTypes, UserSetupTypeOK
<1>0. Working /\ section \in Sections
  BY DEF RemoveFile, Does
<1>1. CASE UNCHANGED home /\ Fails({})
  BY <1>1
<1>2. CASE ~(UNCHANGED home /\ Fails({}))
  <2>1. PICK f \in Present :
          /\ home' = [home EXCEPT !.policy = [@ EXCEPT ![f] = "absent"]]
          /\ section' = [section EXCEPT !.mutated = @ \cup {f}, !.undo = @ \cup {"policy"},
               !.todo = IF Present = {f} THEN @ \ {"remove"} ELSE @]
    BY <1>2 DEF RemoveFile
  <2>2. /\ home'.policy = [home.policy EXCEPT ![f] = "absent"]
        /\ home'.stamp = home.stamp /\ home'.target = home.target
        /\ home'.backup = home.backup /\ home'.configuration = home.configuration
    BY <2>1 DEF Homes
  <2>3. Present' = Present \ {f}
    BY <2>2 DEF Present, Homes
  <2>4. /\ section'.mutated = section.mutated \cup {f}
        /\ section'.todo = IF Present = {f} THEN section.todo \ {"remove"}
                                            ELSE section.todo
        /\ section'.undo = section.undo \cup {"policy"}
        /\ section'.command = section.command /\ section'.files = section.files
        /\ section'.unit = section.unit /\ section'.loaded = section.loaded
        /\ section'.failed = section.failed /\ section'.warned = section.warned
        /\ section'.disturbed = section.disturbed
    BY <1>0, <2>1 DEF Sections
  <2> QED
    BY <2>2, <2>3, <2>4 DEF RemoveFile
<1> QED
  BY <1>1, <1>2

LEMMA SetupStepRemoved ==
  ASSUME SetupTypes, RemovedInv, SetupStep PROVE RemovedInv'
<1> USE DEF SetupTypes, UserSetupTypeOK
<1>1. SUFFICES ASSUME Going("unsetup")' PROVE RemovedInv'
  BY DEF RemovedInv
<1>2. Working /\ section \in Sections
  BY DEF SetupStep, SavePreset, ReloadUnits, InstallFile, RestartAudio, EnableService,
         RestartService, CheckService, Unmask, RestoreOverride, CompleteSetup, LaunchGtk,
         Does, Sections
<1>3. ASSUME NEW steps, Fails(steps) \/ Fail(steps) PROVE FALSE
  BY <1>1, <1>2, <1>3, FailKeeps DEF Going, Fails
<1>4. ASSUME NEW o \in OwnSetup, NEW steps, Does(o), Proceed(o, steps) PROVE FALSE
  BY <1>1, <1>2, <1>4, SetupTurn, ProceedKeeps DEF Going
<1>5. ~InstallFile
  <2>1. SUFFICES ASSUME InstallFile PROVE FALSE
    OBVIOUS
  <2>2. Going("setup")
    BY <2>1, SetupTurn, OperationNames DEF InstallFile, OwnSetup
  <2> QED
    BY <1>1, <1>3, <2>1, <2>2, InstallOutcome DEF Going
<1>6. RestartAudio
  BY <1>3, <1>4, <1>5, OperationNames
  DEF SetupStep, SavePreset, ReloadUnits, EnableService, RestartService, CheckService,
      Unmask, RestoreOverride, CompleteSetup, LaunchGtk, OwnSetup
<1>7. /\ Going("unsetup") /\ home' = home /\ service' = service
      /\ section' = [section EXCEPT !.todo = @ \ {"restartAudio"}, !.undo = {}]
  BY <1>1, <1>2, <1>3, <1>6, AudioTurn, ProceedKeeps DEF RestartAudio, Going
<1>8. GoesOn("restartAudio")
  BY <1>2, <1>7 DEF GoesOn, Sections
<1>9. "remove" \notin section.todo
  BY <1>6, <1>7, UnsetupIsInOrder DEF RestartAudio
<1> QED
  BY <1>7, <1>8, <1>9 DEF RemovedInv, GoesOn, Present

LEMMA UnsetupStepRemoved ==
  ASSUME SetupTypes, OverrideInv, RemovedInv, UnsetupStep PROVE RemovedInv'
<1> USE DEF SetupTypes, UserSetupTypeOK
<1>0. Working /\ section \in Sections
  BY DEF UnsetupStep, BackUpOverride, Mask, QuitGtk, DisableService, RemoveFile, Purge,
         ForgetSetup, Does
<1>a. SUFFICES ASSUME Going("unsetup")' PROVE RemovedInv'
  BY DEF RemovedInv
<1>b. ASSUME NEW steps, Fails(steps) \/ Fail(steps) PROVE FALSE
  BY <1>0, <1>a, <1>b, FailKeeps DEF Going, Fails
<1>1. CASE BackUpOverride
  <2>1. GoesOn("backUp") /\ home' = [home EXCEPT !.backup = home.target, !.target = "absent"]
    BY <1>0, <1>1, <1>b, ProceedGoesOn DEF BackUpOverride
  <2>2. /\ home'.policy = home.policy /\ home'.stamp = home.stamp
        /\ home'.configuration = home.configuration
    BY <2>1 DEF Homes
  <2>3. Going("unsetup") /\ service' = service /\ "mask" \in section.todo
    BY <1>1, UnsetupTurn, OperationNames DEF BackUpOverride, OwnUnsetup, OverrideInv, Does
  <2> QED
    BY <2>1, <2>2, <2>3 DEF RemovedInv, GoesOn, Present
<1>2. CASE Mask
  <2>1. GoesOn("mask") /\ home' = [home EXCEPT !.target = "mask"]
    BY <1>0, <1>2, <1>b, ProceedGoesOn DEF Mask
  <2>2. /\ home'.policy = home.policy /\ home'.stamp = home.stamp
        /\ home'.target = "mask" /\ home'.configuration = home.configuration
    BY <2>1 DEF Homes
  <2>3. Going("unsetup") /\ service' = service
    BY <1>2, UnsetupTurn, OperationNames DEF Mask, OwnUnsetup
  <2> QED
    BY <2>1, <2>2, <2>3 DEF RemovedInv, GoesOn, Present
<1>3. CASE QuitGtk
  <2>1. GoesOn("quit")
    BY <1>0, <1>3, ProceedGoesOn DEF QuitGtk
  <2>2. Going("unsetup") /\ home' = home /\ service' = service
    BY <1>3, UnsetupTurn, OperationNames DEF QuitGtk, OwnUnsetup
  <2> QED
    BY <2>1, <2>2 DEF RemovedInv, GoesOn, Present
<1>4. CASE DisableService
  <2>1. GoesOn("disable") /\ service' = [enabled |-> FALSE, active |-> FALSE]
    BY <1>0, <1>4, <1>b, ProceedGoesOn DEF DisableService
  <2>2. Going("unsetup") /\ home' = home
    BY <1>4, UnsetupTurn, OperationNames DEF DisableService, OwnUnsetup
  <2> QED
    BY <2>1, <2>2 DEF RemovedInv, GoesOn, Present
<1>5. CASE RemoveFile
  <2>1. Going("unsetup") /\ service' = service
    BY <1>5, UnsetupTurn, OperationNames DEF RemoveFile, OwnUnsetup
  <2>2. "remove" \in section.todo
    BY <1>5 DEF RemoveFile, Does
  <2>3. PICK f \in Present :
          /\ Present' = Present \ {f}
          /\ section'.todo = IF Present = {f} THEN section.todo \ {"remove"}
                                              ELSE section.todo
    BY <1>5, <1>b, RemoveOutcome
  <2>4. /\ home'.stamp = home.stamp /\ home'.target = home.target
        /\ home'.configuration = home.configuration
        /\ section'.command = section.command /\ section'.files = section.files
        /\ section'.disturbed = section.disturbed
    BY <1>5, <1>b, RemoveOutcome
  <2> QED
    BY <2>1, <2>2, <2>3, <2>4 DEF RemovedInv
<1>6. CASE Purge
  <2>1. GoesOn("purge") /\ home' = [home EXCEPT !.configuration = "none"]
    BY <1>0, <1>6, <1>b, ProceedGoesOn DEF Purge
  <2>2. /\ home'.policy = home.policy /\ home'.stamp = home.stamp
        /\ home'.target = home.target /\ home'.configuration = "none"
    BY <2>1 DEF Homes
  <2>3. Going("unsetup") /\ service' = service /\ "purge" \in section.todo
    BY <1>6, UnsetupTurn, OperationNames DEF Purge, OwnUnsetup, Does
  <2> QED
    BY <2>1, <2>2, <2>3 DEF RemovedInv, GoesOn, Present
<1>7. CASE ForgetSetup
  <2>1. GoesOn("forget") /\ home' = [home EXCEPT !.stamp = "absent"]
    BY <1>0, <1>7, <1>b, ProceedGoesOn DEF ForgetSetup
  <2>2. /\ home'.policy = home.policy /\ home'.stamp = "absent"
        /\ home'.target = home.target /\ home'.configuration = home.configuration
    BY <2>1 DEF Homes
  <2>3. Going("unsetup") /\ service' = service
    BY <1>7, UnsetupTurn, OperationNames DEF ForgetSetup, OwnUnsetup
  <2> QED
    BY <2>1, <2>2, <2>3 DEF RemovedInv, GoesOn, Present
<1> QED
  BY <1>1, <1>2, <1>3, <1>4, <1>5, <1>6, <1>7 DEF UnsetupStep

\* The steps of one kind of command leave nothing to show for the other.
LEMMA ForeignSteps ==
  ASSUME SetupTypes, RollbackStep \/ UnsetupStep
  PROVE  /\ ~Going("setup")'
         /\ RollbackStep => ~Going("unsetup")'
<1> USE DEF SetupTypes, UserSetupTypeOK
<1>0. Working /\ section \in Sections
  BY DEF RollbackStep, RestoreConfiguration, RestoreStamp, RestorePolicy,
         RestartAudioAgain, RestoreEnablement, RestoreActivity,
         UnsetupStep, BackUpOverride, Mask, QuitGtk, DisableService, RemoveFile, Purge,
         ForgetSetup, Does
<1>1. CASE RollbackStep
  <2>1. section.failed
    BY <1>1, RollbackTurn, OperationNames
    DEF RollbackStep, RestoreConfiguration, RestoreStamp, RestorePolicy,
        RestartAudioAgain, RestoreEnablement, RestoreActivity
  <2>2. section'.failed
    BY <1>0, <1>1, <2>1, ProceedKeeps, WarnsKeeps
    DEF RollbackStep, RestoreConfiguration, RestoreStamp, RestorePolicy,
        RestartAudioAgain, RestoreEnablement, RestoreActivity
  <2> QED
    BY <2>2 DEF Going
<1>2. CASE UnsetupStep
  <2>1. Going("unsetup")
    BY <1>2, UnsetupTurn, OperationNames
    DEF UnsetupStep, BackUpOverride, Mask, QuitGtk, DisableService, RemoveFile, Purge,
        ForgetSetup, OwnUnsetup
  <2>2. section'.command = section.command
    BY <1>0, <1>2, ProceedKeeps, FailKeeps, RemoveOutcome
    DEF UnsetupStep, BackUpOverride, Mask, QuitGtk, DisableService, Purge, ForgetSetup, Fails
  <2>3. ~RollbackStep
    BY <2>1, RollbackTurn, OperationNames
    DEF RollbackStep, RestoreConfiguration, RestoreStamp, RestorePolicy,
        RestartAudioAgain, RestoreEnablement, RestoreActivity, Going
  <2> QED
    BY <2>1, <2>2, <2>3 DEF Going
<1> QED
  BY <1>1, <1>2

LEMMA OtherStepDone ==
  ASSUME SetupTypes, DoneInv, RemovedInv,
         \/ Leave \/ \E command \in UserCommands : RunCommand(command)
         \/ StartGtk \/ EndGtk \/ Kill \/ Upgrade \/ EditAutostart \/ Disturb
  PROVE  DoneInv' /\ RemovedInv'
<1> USE DEF SetupTypes, UserSetupTypeOK
<1>1. CASE ~Working'
  BY <1>1 DEF DoneInv, RemovedInv, Going
<1>2. CASE UNCHANGED <<home, service, section>>
  BY <1>2 DEF DoneInv, RemovedInv, Going, Working, Outdated, Present
<1>3. CASE Disturb /\ Working'
  <2>1. Working /\ section' = [section EXCEPT !.disturbed = TRUE]
    BY <1>3 DEF Disturb, Working
  <2>2. /\ section'.disturbed /\ section'.todo = section.todo
        /\ section'.command = section.command /\ section'.files = section.files
        /\ section'.failed = section.failed
    BY <2>1 DEF Sections
  <2>3. /\ home'.policy = home.policy /\ home'.stamp = home.stamp
        /\ home'.target = home.target /\ home'.backup = home.backup
        /\ service'.enabled = service.enabled
    BY <1>3 DEF Disturb, Homes, Services
  <2>4. service = [enabled |-> FALSE, active |-> FALSE] => service' = service
    BY <1>3 DEF Disturb
  <2> QED
    BY <2>1, <2>2, <2>3, <2>4 DEF DoneInv, RemovedInv, Going, Outdated, Present
<1> QED
  BY <1>1, <1>2, <1>3
  DEF Leave, RunCommand, StartGtk, EndGtk, Kill, Upgrade, EditAutostart, Working

-----------------------------------------------------------------------------
(* What a failure undoes. *)

\* A step of a setup that has not failed changes what was noted before, or what
\* it notes.
LEMMA UndoIsNoted ==
  ASSUME SetupTypes, UndoInv, Going("setup"), NEW o, NEW steps,
         Proceed(o, steps) \/ Fail(steps),
         home'.configuration = home.configuration \/ "configuration" \in steps,
         home'.stamp = home.stamp \/ "stamp" \in steps,
         home'.policy = home.policy,
         audio' = audio \/ "audio" \in steps,
         service'.enabled = service.enabled \/ "enablement" \in section.undo \cup steps,
         service'.active = service.active \/ "activity" \in section.undo \cup steps,
         o = "enable" => {"enablement", "activity"} \subseteq steps
  PROVE  UndoInv'
<1>1. /\ section'.command = section.command /\ section'.files = section.files
      /\ section'.unit = section.unit /\ section'.loaded = section.loaded
      /\ section'.mutated = section.mutated
      /\ section'.warned = section.warned /\ section'.disturbed = section.disturbed
  BY ProceedKeeps, FailKeeps DEF Going
<1>2. /\ ~section'.failed => /\ section'.undo = section.undo \cup steps
                             /\ section'.todo = section.todo \ {o}
      /\ section'.failed => section'.todo = section.undo \cup steps
  BY ProceedKeeps, FailKeeps DEF Going
<1>3. ASSUME NEW u PROVE Noted(u)' <=> u \in section.undo \cup steps
  BY <1>2 DEF Noted
<1>4. ASSUME NEW u PROVE Noted(u) => Noted(u)'
  BY <1>3 DEF Noted, Going
<1>5. ~section.warned =>
       /\ section.disturbed \/ Noted("configuration")'
            \/ home'.configuration = section.files.configuration
       /\ Noted("stamp")' \/ home'.stamp = section.files.stamp
       /\ \A f \in PolicyFiles :
            \/ home'.policy[f] = section.files.policy[f]
            \/ f \in section.mutated /\ Noted("policy")'
       /\ Noted("audio")' \/ audio' = section.loaded
       /\ Noted("enablement")' \/ service'.enabled = section.unit.enabled
       /\ section.disturbed \/ Noted("activity")'
            \/ service'.active = section.unit.active
  BY <1>3, <1>4 DEF UndoInv, Going
<1>6. Going("setup")' /\ "restart" \in section'.todo =>
        "enable" \in section'.todo \/ {"enablement", "activity"} \subseteq section'.undo
  BY <1>1, <1>2 DEF UndoInv, Going
<1> QED
  BY <1>1, <1>5, <1>6 DEF UndoInv

LEMMA SetupStepUndo ==
  ASSUME SetupTypes, UndoInv, SetupStep PROVE UndoInv'
<1> USE DEF SetupTypes, UserSetupTypeOK
<1>0. Working /\ section \in Sections
  BY DEF SetupStep, SavePreset, ReloadUnits, InstallFile, RestartAudio, EnableService,
         RestartService, CheckService, Unmask, RestoreOverride, CompleteSetup, LaunchGtk,
         Does, Sections
<1>1. CASE SavePreset
  <2>1. Going("setup") /\ service' = service /\ audio' = audio
    BY <1>1, SetupTurn, OperationNames DEF SavePreset, OwnSetup
  <2>2. home'.policy = home.policy /\ home'.stamp = home.stamp
    BY <1>1 DEF SavePreset, Homes
  <2>3. CASE Proceed("preset", {"configuration"})
    BY <2>1, <2>2, <2>3, UndoIsNoted
  <2>4. CASE home' = home /\ Fail({})
    BY <2>1, <2>4, UndoIsNoted
  <2> QED
    BY <1>1, <2>3, <2>4 DEF SavePreset, Fails
<1>2. CASE ReloadUnits
  <2>1. /\ Going("setup") /\ home' = home /\ service' = service /\ audio' = audio
        /\ Proceed("reload", {}) \/ Fail({})
    BY <1>2, SetupTurn, OperationNames DEF ReloadUnits, OwnSetup, Fails
  <2> QED
    BY <2>1, UndoIsNoted
<1>3. CASE InstallFile
  <2>1. Going("setup")
    BY <1>3, SetupTurn, OperationNames DEF InstallFile, OwnSetup
  <2>2. CASE UNCHANGED home /\ Fails({})
    <3>1. home' = home /\ service' = service /\ audio' = audio /\ Fail({})
      BY <1>3, <2>2 DEF InstallFile, Fails
    <3> QED
      BY <2>1, <3>1, UndoIsNoted
  <2>3. CASE ~(UNCHANGED home /\ Fails({}))
    <3>1. PICK f \in Outdated :
            /\ home'.policy = [home.policy EXCEPT ![f] = "current"]
            /\ section'.mutated = section.mutated \cup {f}
            /\ section'.todo = IF Outdated = {f} THEN section.todo \ {"install"}
                                                 ELSE section.todo
      BY <1>3, <2>3, InstallOutcome
    <3>2. /\ home'.stamp = home.stamp /\ home'.configuration = home.configuration
          /\ section'.undo = section.undo \cup {"policy"}
          /\ section'.command = section.command /\ section'.files = section.files
          /\ section'.unit = section.unit /\ section'.loaded = section.loaded
          /\ section'.failed = section.failed /\ section'.warned = section.warned
          /\ section'.disturbed = section.disturbed
          /\ audio' = audio /\ service' = service
      BY <1>3, <2>3, InstallOutcome
    <3>3. \A g \in PolicyFiles : g # f => home'.policy[g] = home.policy[g]
      BY <3>1 DEF Homes
    <3>4. \A u : Noted(u)' <=> u \in section.undo \cup {"policy"}
      BY <2>1, <3>2 DEF Noted, Going
    <3>5. \A u : Noted(u) <=> u \in section.undo
      BY <2>1 DEF Noted, Going
    <3> QED
      BY <2>1, <3>1, <3>2, <3>3, <3>4, <3>5 DEF UndoInv, Going
  <2> QED
    BY <2>2, <2>3
<1>4. CASE RestartAudio
  <2>1. home' = home /\ service' = service
    BY <1>4 DEF RestartAudio
  <2>2. CASE Going("setup")
    <3>1. Proceed("restartAudio", {"audio"}) \/ Fail({"audio"})
      BY <1>4, <2>2 DEF RestartAudio, Going, Fails
    <3> QED
      BY <2>1, <2>2, <3>1, UndoIsNoted
  <2>3. CASE Going("unsetup")
    <3>1. section'.command = section.command
      BY <1>0, <1>4, ProceedKeeps, FailKeeps DEF RestartAudio, Sections, Fails
    <3> QED
      BY <2>3, <3>1 DEF UndoInv, Going
  <2> QED
    BY <1>4, <2>2, <2>3, AudioTurn DEF RestartAudio
<1>5. CASE EnableService
  <2>1. /\ Going("setup") /\ home' = home /\ audio' = audio
        /\ \/ Proceed("enable", {"enablement", "activity"})
           \/ Fail({"enablement", "activity"})
    BY <1>5, SetupTurn, OperationNames DEF EnableService, OwnSetup, Fails
  <2> QED
    BY <2>1, UndoIsNoted
<1>6. CASE RestartService
  <2>1. /\ Going("setup") /\ home' = home /\ audio' = audio
        /\ Proceed("restart", {}) \/ Fail({})
    BY <1>6, SetupTurn, OperationNames DEF RestartService, OwnSetup, Fails
  <2>2. "enable" \notin section.todo /\ "restart" \in section.todo
    BY <1>6, SetupIsInOrder DEF RestartService, Does
  <2>3. "activity" \in section.undo
    BY <2>1, <2>2 DEF UndoInv
  <2>4. service'.enabled = service.enabled
    BY <1>6 DEF RestartService, ServiceFails, Services
  <2> QED
    BY <2>1, <2>3, <2>4, UndoIsNoted
<1>7. CASE CheckService
  <2>1. /\ Going("setup") /\ home' = home /\ service' = service /\ audio' = audio
        /\ Proceed("check", {}) \/ Fail({})
    BY <1>7, SetupTurn, OperationNames DEF CheckService, OwnSetup, Fails
  <2> QED
    BY <2>1, UndoIsNoted
<1>8. CASE Unmask
  <2>1. /\ Going("setup") /\ service' = service /\ audio' = audio
        /\ Proceed("unmask", {}) \/ Fail({})
    BY <1>8, SetupTurn, OperationNames DEF Unmask, OwnSetup, Fails
  <2>2. /\ home'.policy = home.policy /\ home'.stamp = home.stamp
        /\ home'.configuration = home.configuration
    BY <1>8 DEF Unmask, Homes
  <2> QED
    BY <2>1, <2>2, UndoIsNoted
<1>9. CASE RestoreOverride
  <2>1. /\ Going("setup") /\ service' = service /\ audio' = audio
        /\ Proceed("unback", {}) \/ Fail({})
    BY <1>9, SetupTurn, OperationNames DEF RestoreOverride, OwnSetup, Fails
  <2>2. /\ home'.policy = home.policy /\ home'.stamp = home.stamp
        /\ home'.configuration = home.configuration
    BY <1>9 DEF RestoreOverride, Homes
  <2> QED
    BY <2>1, <2>2, UndoIsNoted
<1>10. CASE CompleteSetup
  <2>1. Going("setup") /\ service' = service /\ audio' = audio
    BY <1>10, SetupTurn, OperationNames DEF CompleteSetup, OwnSetup
  <2>2. home'.policy = home.policy /\ home'.configuration = home.configuration
    BY <1>10 DEF CompleteSetup, Homes
  <2>3. CASE Proceed("complete", {"stamp"})
    BY <2>1, <2>2, <2>3, UndoIsNoted
  <2>4. CASE home' = home /\ Fail({})
    BY <2>1, <2>4, UndoIsNoted
  <2> QED
    BY <1>10, <2>3, <2>4 DEF CompleteSetup, Fails
<1>11. CASE LaunchGtk
  <2>1. /\ Going("setup") /\ home' = home /\ service' = service /\ audio' = audio
        /\ Proceed("launch", {}) \/ Fail({})
    BY <1>11, SetupTurn, OperationNames DEF LaunchGtk, OwnSetup, Fails
  <2> QED
    BY <2>1, UndoIsNoted
<1> QED
  BY <1>1, <1>2, <1>3, <1>4, <1>5, <1>6, <1>7, <1>8, <1>9, <1>10, <1>11 DEF SetupStep

LEMMA RollbackStepUndo ==
  ASSUME SetupTypes, UndoInv, RollbackStep PROVE UndoInv'
<1> USE DEF SetupTypes, UserSetupTypeOK
<1>0. /\ Working /\ section \in Sections /\ section.failed
      /\ section.files \in Homes /\ section.unit \in Services
  BY RollbackTurn, OperationNames
  DEF RollbackStep, RestoreConfiguration, RestoreStamp, RestorePolicy,
      RestartAudioAgain, RestoreEnablement, RestoreActivity, Does, Sections
<1>1. ASSUME NEW u, Warns(u) PROVE UndoInv'
  BY <1>0, <1>1, WarnsKeeps DEF UndoInv, Going
<1>2. ASSUME NEW u, Proceed(u, {})
      PROVE  /\ ~Going("setup")' /\ section'.failed
             /\ section'.todo = section.todo \ {u}
             /\ section'.command = section.command /\ section'.files = section.files
             /\ section'.unit = section.unit /\ section'.loaded = section.loaded
             /\ section'.mutated = section.mutated
             /\ section'.warned = section.warned /\ section'.disturbed = section.disturbed
  BY <1>0, <1>2, ProceedKeeps DEF Going
<1>3. ASSUME NEW u, Proceed(u, {}), NEW w PROVE Noted(w)' <=> (Noted(w) /\ w # u)
  BY <1>0, <1>2, <1>3 DEF Noted
<1>4. CASE RestoreConfiguration
  <2>1. CASE /\ home' = [home EXCEPT !.configuration = section.files.configuration]
             /\ Proceed("configuration", {})
    <3>1. /\ home'.policy = home.policy /\ home'.stamp = home.stamp
          /\ home'.configuration = section.files.configuration
          /\ audio' = audio /\ service' = service
      BY <1>4, <2>1 DEF RestoreConfiguration, Homes
    <3> QED
      BY <1>0, <1>2, <1>3, <2>1, <3>1 DEF UndoInv, Installed
  <2> QED
    BY <1>1, <1>4, <2>1 DEF RestoreConfiguration
<1>5. CASE RestoreStamp
  <2>1. CASE home' = [home EXCEPT !.stamp = section.files.stamp] /\ Proceed("stamp", {})
    <3>1. /\ home'.policy = home.policy /\ home'.stamp = section.files.stamp
          /\ home'.configuration = home.configuration
          /\ audio' = audio /\ service' = service
      BY <1>5, <2>1 DEF RestoreStamp, Homes
    <3> QED
      BY <1>0, <1>2, <1>3, <2>1, <3>1 DEF UndoInv, Installed
  <2> QED
    BY <1>1, <1>5, <2>1 DEF RestoreStamp
<1>6. CASE RestorePolicy
  <2>1. PICK restored \in SUBSET section.mutated :
          /\ home' = [home EXCEPT !.policy = [f \in PolicyFiles |->
                        IF f \in restored THEN section.files.policy[f] ELSE @[f]]]
          /\ IF restored = section.mutated THEN Proceed("policy", {}) ELSE Warns("policy")
    BY <1>6 DEF RestorePolicy
  <2>2. CASE Proceed("policy", {}) /\ restored = section.mutated
    <3>1. /\ home'.stamp = home.stamp /\ home'.configuration = home.configuration
          /\ audio' = audio /\ service' = service
      BY <1>6, <2>1 DEF RestorePolicy, Homes
    <3>2. \A f \in PolicyFiles :
            home'.policy[f] = IF f \in section.mutated THEN section.files.policy[f]
                                                       ELSE home.policy[f]
      BY <2>1, <2>2 DEF Homes
    <3>3. Noted("policy")
      BY <1>0, <1>6 DEF RestorePolicy, Does, Noted
    <3> QED
      BY <1>0, <1>2, <1>3, <2>2, <3>1, <3>2, <3>3 DEF UndoInv
  <2> QED
    BY <1>1, <2>1, <2>2
<1>7. CASE RestartAudioAgain
  <2>1. CASE audio' = Installed /\ Proceed("audio", {})
    <3>1. home' = home /\ service' = service /\ audio' = Installed'
      BY <1>7, <2>1 DEF RestartAudioAgain, Installed
    <3>2. ~Noted("policy")
      BY <1>0, <1>7, RollbackIsInOrder DEF RestartAudioAgain, Noted
    <3> QED
      BY <1>0, <1>2, <1>3, <2>1, <3>1, <3>2 DEF UndoInv
  <2> QED
    BY <1>1, <1>7, <2>1 DEF RestartAudioAgain
<1>8. CASE RestoreEnablement
  <2>1. CASE /\ service' = [service EXCEPT !.enabled = section.unit.enabled]
             /\ Proceed("enablement", {})
    <3>1. /\ service'.enabled = section.unit.enabled /\ service'.active = service.active
          /\ home' = home /\ audio' = audio
      BY <1>8, <2>1 DEF RestoreEnablement, Services
    <3> QED
      BY <1>0, <1>2, <1>3, <2>1, <3>1 DEF UndoInv, Installed
  <2> QED
    BY <1>1, <1>8, <2>1 DEF RestoreEnablement
<1>9. CASE RestoreActivity
  <2>1. CASE /\ service' = [service EXCEPT !.active = section.unit.active]
             /\ Proceed("activity", {})
    <3>1. /\ service'.active = section.unit.active /\ service'.enabled = service.enabled
          /\ home' = home /\ audio' = audio
      BY <1>9, <2>1 DEF RestoreActivity, Services
    <3> QED
      BY <1>0, <1>2, <1>3, <2>1, <3>1 DEF UndoInv, Installed
  <2> QED
    BY <1>1, <1>9, <2>1 DEF RestoreActivity
<1> QED
  BY <1>4, <1>5, <1>6, <1>7, <1>8, <1>9 DEF RollbackStep

LEMMA UnsetupStepUndo ==
  ASSUME SetupTypes, UndoInv, UnsetupStep PROVE UndoInv'
<1> USE DEF SetupTypes, UserSetupTypeOK
<1>0. Working /\ section \in Sections
  BY DEF UnsetupStep, BackUpOverride, Mask, QuitGtk, DisableService, RemoveFile, Purge,
         ForgetSetup, Does
<1>1. Going("unsetup")
  BY UnsetupTurn, OperationNames
  DEF UnsetupStep, BackUpOverride, Mask, QuitGtk, DisableService, RemoveFile, Purge,
      ForgetSetup, OwnUnsetup
<1>2. section'.command = section.command
  BY <1>0, ProceedKeeps, FailKeeps, RemoveOutcome
  DEF UnsetupStep, BackUpOverride, Mask, QuitGtk, DisableService, Purge, ForgetSetup, Fails
<1> QED
  BY <1>1, <1>2 DEF UndoInv, Going

LEMMA EnterUndo ==
  ASSUME SetupTypes, NEW p \in Processes, Enter(p) PROVE UndoInv'
<1>1. PICK readable \in BOOLEAN :
        section' = [command |-> waiting[p],
                    todo |-> IF readable THEN Program(waiting[p]) ELSE {},
                    files |-> home, unit |-> service, loaded |-> audio,
                    mutated |-> {}, undo |-> {}, failed |-> ~readable,
                    warned |-> FALSE, disturbed |-> FALSE]
  BY DEF Enter
<1>2. home' = home /\ service' = service /\ audio' = audio
  BY DEF Enter
<1>3. Going("setup")' /\ "restart" \in section'.todo => "enable" \in section'.todo
  BY <1>1 DEF Going, Program, SetupSteps
<1> QED
  BY <1>1, <1>2, <1>3 DEF UndoInv

LEMMA OtherStepUndo ==
  ASSUME SetupTypes, UndoInv,
         \/ Leave \/ \E command \in UserCommands : RunCommand(command)
         \/ StartGtk \/ EndGtk \/ Kill \/ Upgrade \/ EditAutostart \/ Disturb
  PROVE  UndoInv'
<1> USE DEF SetupTypes, UserSetupTypeOK
<1>1. CASE ~Working'
  BY <1>1 DEF UndoInv, Going
<1>2. CASE UNCHANGED <<home, audio, service, section>>
  BY <1>2 DEF UndoInv, Going, Working, Noted, Installed
<1>3. CASE Disturb /\ Working'
  <2>1. Working /\ section' = [section EXCEPT !.disturbed = TRUE]
    BY <1>3 DEF Disturb, Working
  <2>2. /\ section'.disturbed /\ section'.todo = section.todo
        /\ section'.command = section.command /\ section'.files = section.files
        /\ section'.unit = section.unit /\ section'.loaded = section.loaded
        /\ section'.mutated = section.mutated /\ section'.undo = section.undo
        /\ section'.warned = section.warned /\ section'.failed = section.failed
    BY <2>1 DEF Sections
  <2>3. /\ home'.policy = home.policy /\ home'.stamp = home.stamp
        /\ service'.enabled = service.enabled /\ audio' = audio
    BY <1>3 DEF Disturb, Homes, Services
  <2>4. \A u : Noted(u)' <=> Noted(u)
    BY <2>2 DEF Noted
  <2> QED
    BY <2>1, <2>2, <2>3, <2>4 DEF UndoInv, Going, Installed
<1> QED
  BY <1>1, <1>2, <1>3
  DEF Leave, RunCommand, StartGtk, EndGtk, Kill, Upgrade, EditAutostart, Working

LEMMA InitUndo == SetupInit => UndoInv
  BY DEF SetupInit, UndoInv, Going, Working

LEMMA NextUndo ==
  ASSUME SetupTypes, UndoInv, [SetupNext]_setupVars PROVE UndoInv'
<1>1. CASE UNCHANGED setupVars
  BY <1>1 DEF setupVars, UndoInv, Going, Working, Noted, Installed
<1> QED
  BY <1>1, EnterUndo, SetupStepUndo, RollbackStepUndo, UnsetupStepUndo, OtherStepUndo
  DEF SetupNext

LEMMA AllIsUndone == SetupTypes /\ UndoInv => FailedSetupIsUndone
<1> USE DEF SetupTypes, UserSetupTypeOK
<1>1. SUFFICES ASSUME SetupTypes, UndoInv, Finished, section.command.kind = "setup",
                      section.failed, ~section.warned, ~section.disturbed
      PROVE  /\ home = [section.files EXCEPT !.target = home.target,
                                             !.backup = home.backup]
             /\ service = section.unit
             /\ audio \in {section.loaded, Installed}
  BY DEF FailedSetupIsUndone
<1>2. /\ Working /\ section \in Sections /\ section.files \in Homes
      /\ section.unit \in Services /\ section.todo = {}
  BY <1>1 DEF Finished, Sections
<1>3. \A u : ~Noted(u)
  BY <1>1, <1>2 DEF Noted
<1>4. /\ home.configuration = section.files.configuration
      /\ home.stamp = section.files.stamp
      /\ \A f \in PolicyFiles : home.policy[f] = section.files.policy[f]
      /\ audio \in {section.loaded, Installed}
      /\ service.enabled = section.unit.enabled
      /\ service.active = section.unit.active
  BY <1>1, <1>2, <1>3 DEF UndoInv
<1>5. home.policy = section.files.policy
  BY <1>1, <1>2, <1>4 DEF Homes
<1>6. home = [section.files EXCEPT !.target = home.target, !.backup = home.backup]
  BY <1>1, <1>2, <1>4, <1>5 DEF Homes
<1>7. service = section.unit
  BY <1>1, <1>2, <1>4 DEF Services
<1> QED
  BY <1>4, <1>6, <1>7

\* A setup that fails, at whatever operation, leaves the user's files, the unit
\* and what the audio servers have loaded as it found them, unless an undoing
\* failed too or others interfered.
THEOREM SetupFailureIsUndone == SetupSpec => []FailedSetupIsUndone
<1>1. SetupInit => SetupTypes /\ OverrideInv /\ UndoInv
  BY InitSetupTypes, InitOverride, InitUndo
<1>2. SetupTypes /\ OverrideInv /\ UndoInv /\ [SetupNext]_setupVars
        => (SetupTypes /\ OverrideInv /\ UndoInv)'
  BY NextSetupTypes, NextOverride, NextUndo
<1> QED
  BY <1>1, <1>2, AllIsUndone, PTL DEF SetupSpec

-----------------------------------------------------------------------------
(* What the audio servers have loaded. *)

LEMMA CommandStaysAtWork ==
  ASSUME SetupTypes, Working, section'.command = section.command
  PROVE  Working'
<1>1. section.command # NoCommand
  BY CommandTypes DEF SetupTypes, UserSetupTypeOK, Sections
<1> QED
  BY <1>1 DEF Working, NoSection

\* The files of the policy and the servers are left alone.
SameStack ==
  /\ home'.policy = home.policy /\ home'.stamp = home.stamp
  /\ audio' = audio /\ interrupted' = interrupted

\* An operation is done that is not the restart of the audio servers.
LEMMA AudioProceeds ==
  ASSUME SetupTypes, AudioInv, Going("setup") \/ Going("unsetup"),
         NEW o, o # "restartAudio", NEW steps, Proceed(o, steps),
         {"audio", "policy"} \cap steps = {}, Going("unsetup") => steps = {},
         home'.policy = home.policy, audio' = audio, interrupted' = interrupted,
         "restartAudio" \in section.todo =>
           /\ home'.stamp = home.stamp /\ "stamp" \notin steps
           /\ o \notin {"complete", "forget"},
         Going("unsetup") => home'.stamp \in {home.stamp, "absent"}
  PROVE  AudioInv'
<1>1. Working'
  BY CommandStaysAtWork, ProceedKeeps DEF Going
<1>2. /\ section'.todo = section.todo \ {o} /\ section'.undo = section.undo \cup steps
      /\ section'.command = section.command /\ section'.files = section.files
      /\ section'.loaded = section.loaded /\ section'.mutated = section.mutated
      /\ ~section'.failed
  BY ProceedKeeps DEF Going
<1>3. Installed' = Installed
  BY DEF Installed
<1>4. ASSUME Going("setup") PROVE SetupAudioInv' /\ ~Going("unsetup")'
  BY <1>2, <1>3, <1>4 DEF AudioInv, SetupAudioInv, BeforeRestart, Going
<1>5. ASSUME Going("unsetup") PROVE UnsetupAudioInv' /\ ~Going("setup")'
  <2>1. SettledAs(home, audio) => SettledAs(home', audio')
    BY <1>5 DEF SettledAs
  <2> QED
    BY <1>2, <1>5, <2>1 DEF AudioInv, UnsetupAudioInv, BeforeRestart, Going
<1> QED
  BY <1>1, <1>2, <1>4, <1>5
  DEF AudioInv, SetupAudioInv, UnsetupAudioInv, RollbackAudioInv

\* An operation fails: either the audio servers are restarted again, or nothing
\* that they should have loaded has changed.
LEMMA AudioFails ==
  ASSUME SetupTypes, AudioInv, Going("setup") \/ Going("unsetup"),
         NEW steps, Fail(steps), {"policy", "stamp"} \cap steps = {},
         home'.policy = home.policy, home'.stamp = home.stamp,
         interrupted' = interrupted,
         \/ "audio" \in steps
         \/ /\ audio' = audio
            /\ "restartAudio" \in section.todo =>
                 \/ section.mutated = {}
                 \/ Going("setup") /\ Outdated # {}
                 \/ Going("unsetup") /\ Present # {},
         SetupTypes'
  PROVE  AudioInv'
<1> USE DEF SetupTypes, UserSetupTypeOK
<1>1. Working /\ Working' /\ section \in Sections /\ section.files \in Homes
  BY CommandStaysAtWork, FailKeeps DEF Going, Sections
<1>2. /\ section'.todo = section.undo \cup steps
      /\ section'.command = section.command /\ section'.files = section.files
      /\ section'.loaded = section.loaded /\ section'.mutated = section.mutated
      /\ section'.failed
  BY <1>1, FailKeeps
<1>3. SUFFICES ASSUME ~interrupted, "audio" \notin section.undo \cup steps
               PROVE  IF "policy" \in section.undo
                      THEN /\ "stamp" \notin section.undo
                           /\ \A restored \in SUBSET section.mutated :
                                SettledAs(WithPolicy(restored)', audio')
                      ELSE /\ SettledAs(home', audio')
                           /\ "stamp" \in section.undo => audio' = Installed'
  BY <1>1, <1>2
  DEF AudioInv, SetupAudioInv, UnsetupAudioInv, RollbackAudioInv, Going
<1>4. audio' = audio /\ Installed' = Installed
  BY <1>3 DEF Installed
<1>5. CASE "restartAudio" \in section.todo
  <2>1. BeforeRestart
    BY <1>5 DEF AudioInv, SetupAudioInv, UnsetupAudioInv
  <2>2. /\ "stamp" \notin section.undo /\ audio = section.loaded
        /\ SettledAs(section.files, audio) /\ home.stamp = section.files.stamp
        /\ \A f \in PolicyFiles \ section.mutated : home.policy[f] = section.files.policy[f]
        /\ ("policy" \in section.undo) = (section.mutated # {})
    BY <1>3, <2>1 DEF BeforeRestart
  <2>3. CASE section.mutated = {}
    <3>1. home.policy = section.files.policy
      BY <1>1, <2>2, <2>3 DEF Homes
    <3>2. SettledAs(home', audio')
      BY <1>4, <2>2, <3>1 DEF SettledAs
    <3> QED
      BY <2>2, <2>3, <3>2
  <2>4. CASE section.mutated # {}
    <3>1. SUFFICES ASSUME NEW restored \in SUBSET section.mutated
                   PROVE  SettledAs(WithPolicy(restored)', audio)
      BY <1>4, <2>2, <2>4
    <3> DEFINE w == WithPolicy(restored)'
    <3>2. /\ w.stamp = section.files.stamp /\ w.policy \in [PolicyFiles -> Contents]
          /\ \A f \in PolicyFiles :
               w.policy[f] = IF f \in restored THEN section.files.policy[f]
                                               ELSE home.policy[f]
      <4>1. SetupTypes' /\ Working' =>
              \A r \in SUBSET section'.mutated :
                /\ WithPolicy(r)'.stamp = home'.stamp
                /\ WithPolicy(r)'.policy \in [PolicyFiles -> Contents]
                /\ \A f \in PolicyFiles :
                     WithPolicy(r)'.policy[f] =
                       IF f \in r THEN section'.files.policy[f] ELSE home'.policy[f]
        BY DEF Sections, Homes, WithPolicy
      <4> QED
        BY <1>1, <1>2, <2>2, <4>1
    <3> HIDE DEF w
    <3>3. section.mutated \subseteq restored => w.policy = section.files.policy
      BY <1>1, <2>2, <3>2 DEF Homes
    <3>4. section.mutated \subseteq restored => SettledAs(w, audio)
      BY <2>2, <3>2, <3>3 DEF SettledAs
    <3>5. CASE Going("setup") /\ Outdated # {}
      <4>1. \A f \in section.mutated : f \in PolicyFiles /\ home.policy[f] = "current"
        BY <1>1, <3>5 DEF AudioInv, SetupAudioInv, Sections
      <4>2. PICK g \in PolicyFiles : home.policy[g] # "current"
        BY <3>5 DEF Outdated
      <4>3. w.policy[g] # "current"
        BY <3>2, <4>1, <4>2
      <4>4. (\A f \in PolicyFiles : w.policy[f] = "absent")
              => section.mutated \subseteq restored
        BY <3>2, <4>1
      <4>5. (\A f \in PolicyFiles : w.policy[f] = "absent") => audio.policy = w.policy
        BY <3>4, <4>4 DEF SettledAs
      <4> QED
        BY <4>2, <4>3, <4>5 DEF SettledAs, w
    <3>6. CASE Going("unsetup") /\ Present # {}
      <4>1. \A f \in section.mutated : f \in PolicyFiles /\ home.policy[f] = "absent"
        BY <1>1, <1>5, <3>6 DEF AudioInv, UnsetupAudioInv, Sections
      <4>2. PICK g \in PolicyFiles : home.policy[g] # "absent"
        BY <3>6 DEF Present
      <4>3. w.policy[g] # "absent"
        BY <3>2, <4>1, <4>2
      <4>4. (\A f \in PolicyFiles : w.policy[f] = "current")
              => section.mutated \subseteq restored
        BY <3>2, <4>1
      <4>5. w.stamp = "current" /\ (\A f \in PolicyFiles : w.policy[f] = "current")
              => audio = [policy |-> w.policy, module |-> "current"]
        BY <3>4, <4>4 DEF SettledAs
      <4> QED
        BY <4>2, <4>3, <4>5 DEF SettledAs, w
    <3> QED
      BY <1>3, <1>5, <2>4, <3>5, <3>6
  <2> QED
    BY <2>3, <2>4
<1>6. CASE "restartAudio" \notin section.todo
  <2>1. CASE Going("setup")
    <3>1. "policy" \notin section.undo /\ audio = Installed
      BY <1>3, <1>6, <2>1 DEF AudioInv, SetupAudioInv
    <3>2. SettledAs(home', audio')
      BY <1>4, <3>1 DEF SettledAs, Installed
    <3> QED
      BY <1>4, <3>1, <3>2
  <2>2. CASE Going("unsetup")
    <3>1. section.undo = {} /\ SettledAs(home, audio)
      BY <1>3, <1>6, <2>2 DEF AudioInv, UnsetupAudioInv
    <3>2. SettledAs(home', audio')
      BY <1>4, <3>1 DEF SettledAs
    <3> QED
      BY <3>1, <3>2
  <2> QED
    BY <2>1, <2>2
<1> QED
  BY <1>5, <1>6

LEMMA SetupStepAudio ==
  ASSUME SetupTypes, SetupTypes', DoneInv, AudioInv, SetupStep PROVE AudioInv'
<1> USE DEF SetupTypes, UserSetupTypeOK
<1>0. Working /\ section \in Sections
  BY DEF SetupStep, SavePreset, ReloadUnits, InstallFile, RestartAudio, EnableService,
         RestartService, CheckService, Unmask, RestoreOverride, CompleteSetup, LaunchGtk,
         Does, Sections
<1>1. CASE SavePreset
  <2>1. Going("setup") /\ audio' = audio /\ interrupted' = interrupted
    BY <1>1, SetupTurn, OperationNames DEF SavePreset, OwnSetup
  <2>2. section.mutated = {}
    BY <1>1, <2>1 DEF SavePreset, Does, AudioInv, SetupAudioInv
  <2>3. home'.policy = home.policy /\ home'.stamp = home.stamp
    BY <1>1 DEF SavePreset, Homes
  <2>4. CASE Proceed("preset", {"configuration"})
    BY <2>1, <2>3, <2>4, AudioProceeds DEF Going
  <2>5. CASE Fail({})
    BY <2>1, <2>2, <2>3, <2>5, AudioFails
  <2> QED
    BY <1>1, <2>4, <2>5 DEF SavePreset, Fails
<1>2. CASE ReloadUnits
  <2>1. Going("setup") /\ home' = home /\ audio' = audio /\ interrupted' = interrupted
    BY <1>2, SetupTurn, OperationNames DEF ReloadUnits, OwnSetup
  <2>2. section.mutated = {}
    BY <1>2, <2>1 DEF ReloadUnits, Does, AudioInv, SetupAudioInv
  <2>3. CASE Proceed("reload", {})
    BY <2>1, <2>3, AudioProceeds
  <2>4. CASE Fail({})
    BY <2>1, <2>2, <2>4, AudioFails
  <2> QED
    BY <1>2, <2>3, <2>4 DEF ReloadUnits, Fails
<1>3. CASE InstallFile
  <2>1. Going("setup") /\ "install" \in section.todo /\ audio' = audio
    BY <1>3, SetupTurn, OperationNames DEF InstallFile, OwnSetup, Does
  <2>2. Outdated # {} /\ "restartAudio" \in section.todo
    BY <2>1 DEF DoneInv
  <2>3. CASE UNCHANGED home /\ Fails({})
    <3>1. home' = home /\ interrupted' = interrupted /\ Fail({})
      BY <1>3, <2>3 DEF InstallFile, Fails
    <3> QED
      BY <2>1, <2>2, <3>1, AudioFails
  <2>4. CASE ~(UNCHANGED home /\ Fails({}))
    <3>1. PICK f \in Outdated :
            /\ home'.policy = [home.policy EXCEPT ![f] = "current"]
            /\ section'.mutated = section.mutated \cup {f}
            /\ section'.todo = IF Outdated = {f} THEN section.todo \ {"install"}
                                                 ELSE section.todo
      BY <1>3, <2>4, InstallOutcome
    <3>2. /\ home'.stamp = home.stamp /\ section'.undo = section.undo \cup {"policy"}
          /\ section'.command = section.command /\ section'.files = section.files
          /\ section'.loaded = section.loaded /\ section'.failed = section.failed
          /\ interrupted' = interrupted
      BY <1>3, <2>4, InstallOutcome
    <3>3. f \in PolicyFiles
      BY DEF Outdated
    <3>4. \A g \in PolicyFiles :
            home'.policy[g] = IF g = f THEN "current" ELSE home.policy[g]
      BY <3>1, <3>3 DEF Homes
    <3>5. /\ BeforeRestart /\ "complete" \in section.todo
          /\ \A g \in section.mutated : g \in PolicyFiles /\ home.policy[g] = "current"
      BY <1>0, <2>1, <2>2 DEF AudioInv, SetupAudioInv, Sections
    <3>6. BeforeRestart'
      BY <2>1, <3>1, <3>2, <3>4, <3>5 DEF BeforeRestart
    <3>7. {"preset", "reload"} \cap section.todo = {}
      BY <1>3, SetupIsInOrder DEF InstallFile
    <3>8. \A g \in section'.mutated : home'.policy[g] = "current"
      BY <3>1, <3>3, <3>4, <3>5
    <3>9. SetupAudioInv'
      BY <2>2, <3>1, <3>5, <3>6, <3>7, <3>8 DEF SetupAudioInv
    <3>10. Working'
      BY <1>0, <3>2, CommandStaysAtWork
    <3> QED
      BY <2>1, <3>2, <3>9, <3>10
      DEF AudioInv, UnsetupAudioInv, RollbackAudioInv, Going
  <2> QED
    BY <2>3, <2>4
<1>4. CASE RestartAudio
  <2>1. home' = home /\ Installed' = Installed
    BY <1>4 DEF RestartAudio, Installed
  <2>2. CASE interrupted' = interrupted /\ Fail({"audio"})
    BY <1>4, <2>1, <2>2, AudioTurn, AudioFails DEF RestartAudio
  <2>3. CASE Going("setup") /\ audio' = Installed /\ Proceed("restartAudio", {"audio"})
    <3>1. /\ section'.todo = section.todo \ {"restartAudio"}
          /\ section'.undo = section.undo \cup {"audio"}
          /\ section'.command = section.command /\ section'.mutated = section.mutated
          /\ ~section'.failed
      BY <1>0, <2>3, ProceedKeeps DEF Going
    <3>2. {"preset", "reload"} \cap section.todo = {}
      BY <1>4, <2>3, SetupIsInOrder DEF RestartAudio
    <3>3. SetupAudioInv'
      BY <2>1, <2>3, <3>1, <3>2 DEF AudioInv, SetupAudioInv
    <3>4. Working'
      BY <1>0, <3>1, CommandStaysAtWork
    <3> QED
      BY <2>3, <3>1, <3>3, <3>4 DEF AudioInv, UnsetupAudioInv, RollbackAudioInv, Going
  <2>4. CASE /\ Going("unsetup") /\ audio' = Installed
             /\ section' = [section EXCEPT !.todo = @ \ {"restartAudio"}, !.undo = {}]
    <3>1. /\ section'.todo = section.todo \ {"restartAudio"} /\ section'.undo = {}
          /\ section'.command = section.command /\ ~section'.failed
      BY <1>0, <2>4 DEF Sections, Going
    <3>2. {"backUp", "mask", "disable"} \cap section.todo = {}
      BY <1>4, <2>4, UnsetupIsInOrder DEF RestartAudio
    <3>3. SettledAs(home', audio')
      BY <2>1, <2>4 DEF SettledAs, Installed
    <3>4. UnsetupAudioInv'
      BY <3>1, <3>2, <3>3 DEF UnsetupAudioInv
    <3>5. Working'
      BY <1>0, <3>1, CommandStaysAtWork
    <3> QED
      BY <2>4, <3>1, <3>4, <3>5 DEF AudioInv, SetupAudioInv, RollbackAudioInv, Going
  <2>5. Going("setup") => section.command.kind = "setup"
    BY DEF Going
  <2>6. Going("unsetup") => section.command.kind # "setup"
    BY DEF Going
  <2> QED
    BY <1>4, <2>2, <2>3, <2>4, <2>5, <2>6, AudioTurn DEF RestartAudio, Fails
<1>5. ASSUME NEW o \in {"enable", "restart", "check", "unmask", "unback", "complete",
                        "launch"},
             Does(o),
             \/ Fail({}) /\ home'.stamp = home.stamp
             \/ Fail({"enablement", "activity"}) /\ home'.stamp = home.stamp
             \/ Proceed(o, {})
             \/ Proceed(o, {"enablement", "activity"})
             \/ Proceed(o, {"stamp"}),
             home'.policy = home.policy, audio' = audio, interrupted' = interrupted
      PROVE  AudioInv'
  <2>1. Going("setup") /\ ~Going("unsetup")
    BY <1>5, SetupTurn, OperationNames DEF OwnSetup, Going
  <2>2. "restartAudio" \notin section.todo
    BY <1>5, SetupIsInOrder
  <2>3. ASSUME NEW steps \in {{}, {"enablement", "activity"}, {"stamp"}},
               Proceed(o, steps)
        PROVE  AudioInv'
    BY <1>5, <2>1, <2>2, <2>3, AudioProceeds
  <2>4. ASSUME NEW steps \in {{}, {"enablement", "activity"}},
               Fail(steps), home'.stamp = home.stamp
        PROVE  AudioInv'
    BY <1>5, <2>1, <2>2, <2>4, AudioFails
  <2> QED
    BY <1>5, <2>3, <2>4
<1>6. CASE EnableService
  BY <1>5, <1>6 DEF EnableService, Fails
<1>7. CASE RestartService
  BY <1>5, <1>7 DEF RestartService, Fails
<1>8. CASE CheckService
  BY <1>5, <1>8 DEF CheckService, Fails
<1>9. CASE Unmask
  <2>1. home'.policy = home.policy /\ home'.stamp = home.stamp
    BY <1>9 DEF Unmask, Homes
  <2> QED
    BY <1>5, <1>9, <2>1 DEF Unmask, Fails
<1>10. CASE RestoreOverride
  <2>1. home'.policy = home.policy /\ home'.stamp = home.stamp
    BY <1>10 DEF RestoreOverride, Homes
  <2> QED
    BY <1>5, <1>10, <2>1 DEF RestoreOverride, Fails
<1>11. CASE CompleteSetup
  <2>1. home'.policy = home.policy
    BY <1>11 DEF CompleteSetup, Homes
  <2> QED
    BY <1>5, <1>11, <2>1 DEF CompleteSetup, Fails
<1>12. CASE LaunchGtk
  BY <1>5, <1>12 DEF LaunchGtk, Fails
<1> QED
  BY <1>1, <1>2, <1>3, <1>4, <1>6, <1>7, <1>8, <1>9, <1>10, <1>11, <1>12 DEF SetupStep

LEMMA UnsetupStepAudio ==
  ASSUME SetupTypes, SetupTypes', RemovedInv, AudioInv, UnsetupStep PROVE AudioInv'
<1> USE DEF SetupTypes, UserSetupTypeOK
<1>0. Working /\ section \in Sections
  BY DEF UnsetupStep, BackUpOverride, Mask, QuitGtk, DisableService, RemoveFile, Purge,
         ForgetSetup, Does
<1>a. Going("unsetup") /\ audio' = audio /\ interrupted' = interrupted
  BY UnsetupTurn, OperationNames
  DEF UnsetupStep, BackUpOverride, Mask, QuitGtk, DisableService, RemoveFile, Purge,
      ForgetSetup, OwnUnsetup
<1>b. ASSUME NEW o \in {"backUp", "mask", "disable", "quit", "purge", "forget"},
             Proceed(o, {}), home'.policy = home.policy,
             \/ home'.stamp = home.stamp /\ o # "forget"
             \/ home'.stamp = "absent" /\ "restartAudio" \notin section.todo
      PROVE  AudioInv'
  BY <1>a, <1>b, AudioProceeds
<1>c. ASSUME Fail({}), home'.policy = home.policy, home'.stamp = home.stamp,
             section.mutated = {} \/ Present # {} \/ "restartAudio" \notin section.todo
      PROVE  AudioInv'
  BY <1>a, <1>c, AudioFails
<1>d. {"backUp", "mask", "disable"} \cap section.todo # {} => section.mutated = {}
  BY <1>a DEF AudioInv, UnsetupAudioInv
<1>1. CASE BackUpOverride
  <2>1. home'.policy = home.policy /\ home'.stamp = home.stamp
    BY <1>1 DEF BackUpOverride, Homes
  <2>2. section.mutated = {}
    BY <1>1, <1>d DEF BackUpOverride, Does
  <2> QED
    BY <1>1, <1>b, <1>c, <2>1, <2>2 DEF BackUpOverride, Fails
<1>2. CASE Mask
  <2>1. home'.policy = home.policy /\ home'.stamp = home.stamp
    BY <1>2 DEF Mask, Homes
  <2>2. section.mutated = {}
    BY <1>2, <1>d DEF Mask, Does
  <2> QED
    BY <1>2, <1>b, <1>c, <2>1, <2>2 DEF Mask, Fails
<1>3. CASE QuitGtk
  BY <1>3, <1>b DEF QuitGtk
<1>4. CASE DisableService
  <2>1. section.mutated = {}
    BY <1>4, <1>d DEF DisableService, Does
  <2> QED
    BY <1>4, <1>b, <1>c, <2>1 DEF DisableService, Fails
<1>5. CASE RemoveFile
  <2>1. "remove" \in section.todo
    BY <1>5 DEF RemoveFile, Does
  <2>2. Present # {} /\ "restartAudio" \in section.todo
    BY <1>a, <2>1 DEF RemovedInv
  <2>3. CASE UNCHANGED home /\ Fails({})
    BY <1>c, <2>2, <2>3 DEF Fails
  <2>4. CASE ~(UNCHANGED home /\ Fails({}))
    <3>1. PICK f \in Present :
            /\ home'.policy = [home.policy EXCEPT ![f] = "absent"]
            /\ section'.mutated = section.mutated \cup {f}
            /\ section'.todo = IF Present = {f} THEN section.todo \ {"remove"}
                                                ELSE section.todo
      BY <1>5, <2>4, RemoveOutcome
    <3>2. /\ home'.stamp = home.stamp /\ section'.undo = section.undo \cup {"policy"}
          /\ section'.command = section.command /\ section'.files = section.files
          /\ section'.loaded = section.loaded /\ section'.failed = section.failed
      BY <1>5, <2>4, RemoveOutcome
    <3>3. f \in PolicyFiles
      BY DEF Present
    <3>4. \A g \in PolicyFiles :
            home'.policy[g] = IF g = f THEN "absent" ELSE home.policy[g]
      BY <3>1, <3>3 DEF Homes
    <3>5. /\ BeforeRestart /\ "forget" \in section.todo
          /\ \A g \in section.mutated : g \in PolicyFiles /\ home.policy[g] = "absent"
      BY <1>0, <1>a, <2>2 DEF AudioInv, UnsetupAudioInv, Sections
    <3>6. BeforeRestart'
      BY <1>a, <3>1, <3>2, <3>4, <3>5 DEF BeforeRestart
    <3>7. {"backUp", "mask", "disable"} \cap section.todo = {}
      BY <1>5, UnsetupIsInOrder DEF RemoveFile
    <3>8. \A g \in section'.mutated : home'.policy[g] = "absent"
      BY <3>1, <3>3, <3>4, <3>5
    <3>9. UnsetupAudioInv'
      BY <2>2, <3>1, <3>5, <3>6, <3>7, <3>8 DEF UnsetupAudioInv
    <3>10. Working'
      BY <1>0, <3>2, CommandStaysAtWork
    <3> QED
      BY <1>a, <3>2, <3>9, <3>10 DEF AudioInv, SetupAudioInv, RollbackAudioInv, Going
  <2> QED
    BY <2>3, <2>4
<1>6. CASE Purge
  <2>1. "restartAudio" \notin section.todo
    BY <1>6, UnsetupIsInOrder DEF Purge
  <2>2. home'.policy = home.policy /\ home'.stamp = home.stamp
    BY <1>6 DEF Purge, Homes
  <2> QED
    BY <1>6, <1>b, <1>c, <2>1, <2>2 DEF Purge, Fails
<1>7. CASE ForgetSetup
  <2>1. "restartAudio" \notin section.todo
    BY <1>7, UnsetupIsInOrder DEF ForgetSetup
  <2>2. CASE home' = [home EXCEPT !.stamp = "absent"] /\ Proceed("forget", {})
    <3>1. home'.policy = home.policy /\ home'.stamp = "absent"
      BY <2>2 DEF Homes
    <3> QED
      BY <1>b, <2>1, <2>2, <3>1
  <2>3. CASE UNCHANGED home /\ Fails({})
    BY <1>c, <2>1, <2>3 DEF Fails
  <2> QED
    BY <1>7, <2>2, <2>3 DEF ForgetSetup
<1> QED
  BY <1>1, <1>2, <1>3, <1>4, <1>5, <1>6, <1>7 DEF UnsetupStep

LEMMA RollbackStepAudio ==
  ASSUME SetupTypes, SetupTypes', AudioInv, RollbackStep PROVE AudioInv'
<1> USE DEF SetupTypes, UserSetupTypeOK
<1>0. /\ Working /\ section \in Sections /\ section.failed /\ section.files \in Homes
  BY RollbackTurn, OperationNames
  DEF RollbackStep, RestoreConfiguration, RestoreStamp, RestorePolicy,
      RestartAudioAgain, RestoreEnablement, RestoreActivity, Does, Sections
<1>1. ASSUME NEW u, Proceed(u, {}) \/ Warns(u)
      PROVE  /\ Working' /\ section'.failed /\ section'.todo = section.todo \ {u}
             /\ section'.files = section.files /\ section'.mutated = section.mutated
  BY <1>0, <1>1, ProceedKeeps, WarnsKeeps, CommandStaysAtWork
<1>2. ASSUME NEW u, Proceed(u, {}) \/ Warns(u), RollbackAudioInv'
      PROVE  AudioInv'
  BY <1>1, <1>2 DEF AudioInv, SetupAudioInv, UnsetupAudioInv, Going
<1>3. RollbackAudioInv
  BY DEF AudioInv
<1>4. ASSUME NEW u, Proceed(u, {}) \/ Warns(u), u \notin {"policy", "audio"}, SameStack
      PROVE  AudioInv'
  <2>1. section' \in Sections /\ section'.files = section.files
    BY <1>1, <1>4
  <2>2. \A restored \in SUBSET section.mutated :
          /\ WithPolicy(restored)'.policy = WithPolicy(restored).policy
          /\ WithPolicy(restored)'.stamp = WithPolicy(restored).stamp
    BY <1>0, <1>4, <2>1 DEF WithPolicy, Homes, SameStack
  <2>3. \A restored \in SUBSET section.mutated :
          SettledAs(WithPolicy(restored), audio) => SettledAs(WithPolicy(restored)', audio')
    BY <1>4, <2>2 DEF SettledAs, SameStack
  <2>4. SettledAs(home, audio) => SettledAs(home', audio')
    BY <1>4 DEF SettledAs, SameStack
  <2>5. RollbackAudioInv'
    BY <1>0, <1>1, <1>3, <1>4, <2>3, <2>4 DEF RollbackAudioInv, SameStack, Installed
  <2> QED
    BY <1>2, <1>4, <2>5
<1>5. CASE RestoreConfiguration
  <2>1. SameStack
    BY <1>5 DEF RestoreConfiguration, SameStack, Homes
  <2> QED
    BY <1>4, <1>5, <2>1 DEF RestoreConfiguration
<1>6. CASE RestoreStamp
  <2>1. CASE home' = [home EXCEPT !.stamp = section.files.stamp] /\ Proceed("stamp", {})
    <3>1. home'.policy = home.policy /\ audio' = audio /\ interrupted' = interrupted
      BY <1>6, <2>1 DEF RestoreStamp, Homes
    <3>2. "stamp" \in section.todo
      BY <1>6 DEF RestoreStamp, Does
    <3>3. Installed' = Installed
      BY <3>1 DEF Installed
    <3>4. audio = Installed => SettledAs(home', audio')
      BY <3>1 DEF SettledAs, Installed
    <3>5. RollbackAudioInv'
      BY <1>0, <1>1, <1>3, <2>1, <3>1, <3>2, <3>3, <3>4 DEF RollbackAudioInv
    <3> QED
      BY <1>2, <2>1, <3>5
  <2>2. CASE UNCHANGED home /\ Warns("stamp")
    BY <1>4, <1>6, <2>2 DEF RestoreStamp, SameStack
  <2> QED
    BY <1>6, <2>1, <2>2 DEF RestoreStamp
<1>7. CASE RestorePolicy
  <2>1. PICK restored \in SUBSET section.mutated :
          /\ home' = WithPolicy(restored)
          /\ Proceed("policy", {}) \/ Warns("policy")
    BY <1>7 DEF RestorePolicy, WithPolicy
  <2>2. audio' = audio /\ interrupted' = interrupted /\ "policy" \in section.todo
    BY <1>7 DEF RestorePolicy, Does
  <2>3. RollbackAudioInv'
    BY <1>0, <1>1, <1>3, <2>1, <2>2 DEF RollbackAudioInv
  <2> QED
    BY <1>2, <2>1, <2>3
<1>8. CASE RestartAudioAgain
  <2>1. {"stamp", "policy"} \cap section.todo = {}
    BY <1>8, RollbackIsInOrder DEF RestartAudioAgain
  <2>2. CASE audio' = Installed /\ Proceed("audio", {})
    <3>1. SettledAs(home', audio')
      BY <1>8, <2>2 DEF RestartAudioAgain, SettledAs, Installed
    <3>2. RollbackAudioInv'
      BY <1>1, <2>1, <2>2, <3>1 DEF RollbackAudioInv
    <3> QED
      BY <1>2, <2>2, <3>2
  <2>3. CASE interrupted' = TRUE /\ Warns("audio")
    BY <1>2, <2>3 DEF RollbackAudioInv
  <2> QED
    BY <1>8, <2>2, <2>3 DEF RestartAudioAgain
<1>9. CASE RestoreEnablement
  BY <1>4, <1>9 DEF RestoreEnablement, SameStack
<1>10. CASE RestoreActivity
  <2>1. SameStack /\ (Proceed("activity", {}) \/ Warns("activity"))
    BY <1>10, Zenon DEF RestoreActivity, SameStack
  <2> QED
    BY <1>4, <2>1
<1> QED
  BY <1>5, <1>6, <1>7, <1>8, <1>9, <1>10 DEF RollbackStep

LEMMA EnterAudio ==
  ASSUME SetupTypes, SetupTypes', AudioInv, NEW p \in Processes, Enter(p) PROVE AudioInv'
<1> USE DEF SetupTypes, UserSetupTypeOK
<1>1. PICK readable \in BOOLEAN :
        section' = [command |-> waiting[p],
                    todo |-> IF readable THEN Program(waiting[p]) ELSE {},
                    files |-> home, unit |-> service, loaded |-> audio,
                    mutated |-> {}, undo |-> {}, failed |-> ~readable,
                    warned |-> FALSE, disturbed |-> FALSE]
  BY DEF Enter
<1>2. /\ home' = home /\ audio' = audio /\ interrupted' = interrupted
      /\ Installed' = Installed
  BY DEF Enter, Installed
<1>3. waiting[p] \in SomeCommands /\ waiting[p] # NoCommand
  BY DEF Enter
<1>4. Working'
  BY <1>1, <1>3 DEF Working, NoSection
<1>5. ~interrupted => SettledAs(home, audio)
  BY DEF Enter, AudioInv
<1>6. BeforeRestart'
  BY <1>1, <1>2, <1>5 DEF BeforeRestart
<1>7. CASE ~readable
  BY <1>1, <1>2, <1>4, <1>5, <1>7
  DEF AudioInv, SetupAudioInv, UnsetupAudioInv, RollbackAudioInv, Going
<1>8. CASE readable /\ waiting[p].kind = "setup"
  <2>1. section'.todo = SetupSteps(waiting[p])
    BY <1>1, <1>8 DEF Program
  <2>2. "restartAudio" \in section'.todo => "complete" \in section'.todo
    BY <2>1 DEF SetupSteps
  <2>3. "restartAudio" \notin section'.todo =>
          Outdated = {} /\ home.stamp = "current" /\ ~waiting[p].force
    BY <2>1 DEF SetupSteps, IsReady
  <2>4. ASSUME "restartAudio" \notin section'.todo, ~interrupted PROVE audio = Installed
    BY <1>5, <2>3, <2>4 DEF SettledAs, Outdated, Installed
  <2>5. SetupAudioInv'
    BY <1>1, <1>2, <1>6, <2>2, <2>3, <2>4 DEF SetupAudioInv
  <2> QED
    BY <1>1, <1>4, <1>8, <2>5 DEF AudioInv, UnsetupAudioInv, RollbackAudioInv, Going
<1>9. CASE readable /\ waiting[p].kind # "setup"
  <2>1. section'.todo = UnsetupSteps(waiting[p])
    BY <1>1, <1>9 DEF Program
  <2>2. "forget" \in section'.todo
    BY <2>1 DEF UnsetupSteps
  <2>3. UnsetupAudioInv'
    BY <1>1, <1>2, <1>5, <1>6, <2>2 DEF UnsetupAudioInv
  <2> QED
    BY <1>1, <1>4, <1>9, <2>3 DEF AudioInv, SetupAudioInv, RollbackAudioInv, Going
<1> QED
  BY <1>7, <1>8, <1>9

LEMMA OtherStepAudio ==
  ASSUME SetupTypes, SetupTypes', AudioInv,
         \/ Leave \/ \E command \in UserCommands : RunCommand(command)
         \/ StartGtk \/ EndGtk \/ Kill \/ Upgrade \/ EditAutostart \/ Disturb
  PROVE  AudioInv'
<1> USE DEF SetupTypes, UserSetupTypeOK
<1>1. ASSUME ~Working', interrupted' \/ SettledAs(home', audio') PROVE AudioInv'
  BY <1>1 DEF AudioInv, SetupAudioInv, UnsetupAudioInv, RollbackAudioInv, Going
<1>2. ASSUME home'.policy = home.policy, home'.stamp = home.stamp, audio' = audio,
             SettledAs(home, audio)
      PROVE  SettledAs(home', audio')
  BY <1>2 DEF SettledAs
<1>3. CASE Leave
  <2>1. /\ Working /\ section \in Sections /\ section.todo = {} /\ ~Working'
        /\ home' = home /\ audio' = audio /\ interrupted' = interrupted
    BY <1>3 DEF Leave, Finished, Working
  <2>2. audio = Installed => SettledAs(home, audio)
    BY DEF SettledAs, Installed
  <2>3. ~interrupted => SettledAs(home, audio)
    BY <2>1, <2>2, SectionKind
    DEF AudioInv, SetupAudioInv, UnsetupAudioInv, RollbackAudioInv, Going
  <2> QED
    BY <1>1, <2>1, <2>3
<1>4. CASE UNCHANGED <<home, audio, section, interrupted>>
  BY <1>4
  DEF AudioInv, SetupAudioInv, UnsetupAudioInv, RollbackAudioInv, Going, Working,
      BeforeRestart, WithPolicy, Installed
<1>5. CASE Kill
  BY <1>1, <1>5 DEF Kill, Working
<1>6. CASE Upgrade
  <2>1. PICK changed \in SUBSET PolicyFiles :
          LET Aged(policy) == [f \in PolicyFiles |->
                IF policy[f] = "current" /\ f \in changed THEN "old" ELSE policy[f]]
          IN  /\ home' = [home EXCEPT !.policy = Aged(@),
                                      !.stamp = IF @ = "current" THEN "old" ELSE @]
              /\ audio' = [policy |-> Aged(audio.policy), module |-> "old"]
    BY <1>6 DEF Upgrade
  <2>2. /\ home'.policy = [f \in PolicyFiles |->
             IF home.policy[f] = "current" /\ f \in changed THEN "old" ELSE home.policy[f]]
        /\ audio'.policy = [f \in PolicyFiles |->
             IF audio.policy[f] = "current" /\ f \in changed THEN "old" ELSE audio.policy[f]]
        /\ home'.stamp # "current"
    BY <2>1 DEF Homes
  <2>3. interrupted' = interrupted /\ ~Working /\ ~Working'
    BY <1>6 DEF Upgrade, Working
  <2>4. SettledAs(home, audio) => SettledAs(home', audio')
    BY <2>2 DEF SettledAs
  <2> QED
    BY <1>1, <2>3, <2>4 DEF AudioInv
<1>7. CASE EditAutostart
  <2>1. home'.policy = home.policy /\ home'.stamp = home.stamp
    BY <1>7 DEF EditAutostart, Homes
  <2>2. /\ audio' = audio /\ interrupted' = interrupted /\ ~Working /\ ~Working'
    BY <1>7 DEF EditAutostart, Working
  <2> QED
    BY <1>1, <1>2, <2>1, <2>2 DEF AudioInv
<1>8. CASE Disturb
  <2>1. SameStack
    BY <1>8 DEF Disturb, SameStack, Homes
  <2>2. CASE ~Working
    <3>1. ~Working'
      BY <1>8, <2>2 DEF Disturb, Working
    <3> QED
      BY <1>1, <1>2, <2>1, <2>2, <3>1 DEF AudioInv, SameStack
  <2>3. CASE Working
    <3>1. section \in Sections /\ section' = [section EXCEPT !.disturbed = TRUE]
      BY <1>8, <2>3 DEF Disturb
    <3>2. /\ section'.todo = section.todo /\ section'.undo = section.undo
          /\ section'.command = section.command /\ section'.files = section.files
          /\ section'.loaded = section.loaded /\ section'.mutated = section.mutated
          /\ section'.failed = section.failed
      BY <3>1 DEF Sections
    <3>3. Working' /\ Installed' = Installed
      BY <2>1, <2>3, <3>2, CommandStaysAtWork DEF SameStack, Installed
    <3>4. Going("setup")' = Going("setup") /\ Going("unsetup")' = Going("unsetup")
      BY <2>3, <3>2, <3>3 DEF Going
    <3>5. BeforeRestart => BeforeRestart'
      BY <2>1, <3>2 DEF BeforeRestart, SameStack
    <3>6. \A restored \in SUBSET section.mutated :
            SettledAs(WithPolicy(restored), audio) => SettledAs(WithPolicy(restored)', audio')
      <4>1. section' \in Sections /\ section.files \in Homes
        BY <3>1, <3>3 DEF Sections
      <4>2. \A restored \in SUBSET section.mutated :
              /\ WithPolicy(restored)'.policy = WithPolicy(restored).policy
              /\ WithPolicy(restored)'.stamp = WithPolicy(restored).stamp
        BY <2>1, <3>2, <4>1 DEF WithPolicy, Homes, SameStack
      <4> QED
        BY <2>1, <4>2 DEF SettledAs, SameStack
    <3>7. SettledAs(home, audio) => SettledAs(home', audio')
      BY <1>2, <2>1 DEF SameStack
    <3>8. SetupAudioInv' /\ UnsetupAudioInv'
      BY <2>1, <3>2, <3>3, <3>4, <3>5, <3>7
      DEF AudioInv, SetupAudioInv, UnsetupAudioInv, SameStack
    <3>9. RollbackAudioInv'
      BY <2>1, <2>3, <3>2, <3>3, <3>6, <3>7 DEF AudioInv, RollbackAudioInv, SameStack
    <3> QED
      BY <3>3, <3>8, <3>9 DEF AudioInv
  <2> QED
    BY <2>2, <2>3
<1> QED
  BY <1>3, <1>4, <1>5, <1>6, <1>7, <1>8 DEF RunCommand, StartGtk, EndGtk

LEMMA InitAudio == SetupInit => AudioInv
  BY DEF SetupInit, AudioInv, SetupAudioInv, UnsetupAudioInv, RollbackAudioInv, Going,
         Working, SettledAs

LEMMA NextAudio ==
  ASSUME SetupTypes, SetupTypes', DoneInv, RemovedInv, AudioInv, [SetupNext]_setupVars
  PROVE  AudioInv'
<1>1. CASE UNCHANGED setupVars
  BY <1>1
  DEF setupVars, AudioInv, SetupAudioInv, UnsetupAudioInv, RollbackAudioInv, Going,
      Working, BeforeRestart, WithPolicy, Installed
<1> QED
  BY <1>1, EnterAudio, SetupStepAudio, RollbackStepAudio, UnsetupStepAudio, OtherStepAudio
  DEF SetupNext

-----------------------------------------------------------------------------
(* What a command that succeeds has done. *)

LEMMA InitDone == SetupInit => DoneInv /\ RemovedInv
  BY DEF SetupInit, DoneInv, RemovedInv, Going, Working

LEMMA NextDone ==
  ASSUME SetupTypes, OverrideInv, DoneInv, RemovedInv, [SetupNext]_setupVars
  PROVE  DoneInv' /\ RemovedInv'
<1>1. CASE UNCHANGED setupVars
  BY <1>1 DEF setupVars, DoneInv, RemovedInv, Going, Working, Outdated, Present
<1>2. CASE SetupStep
  BY <1>2, SetupStepDone, SetupStepRemoved
<1>3. CASE RollbackStep
  BY <1>3, ForeignSteps DEF DoneInv, RemovedInv
<1>4. CASE UnsetupStep
  BY <1>4, ForeignSteps, UnsetupStepRemoved DEF DoneInv
<1> QED
  BY <1>1, <1>2, <1>3, <1>4, EnterDone, OtherStepDone DEF SetupNext

LEMMA InitUserSetupInv == SetupInit => UserSetupInv
  BY InitSetupTypes, InitOverride, InitDone, InitUndo, InitAudio DEF UserSetupInv

LEMMA NextUserSetupInv == UserSetupInv /\ [SetupNext]_setupVars => UserSetupInv'
  BY NextSetupTypes, NextOverride, NextDone, NextUndo, NextAudio DEF UserSetupInv

LEMMA AllIsDone == UserSetupInv => SuccessIsComplete
<1> SUFFICES ASSUME UserSetupInv PROVE SetupIsComplete /\ UnsetupIsComplete
  BY DEF SuccessIsComplete
<1> USE DEF UserSetupInv
<1>1. ASSUME Succeeded("setup")
      PROVE  /\ Outdated = {} /\ home.stamp = "current" /\ home.target # "mask"
             /\ section.files.target = "mask" => home.target = section.files.backup
             /\ service.enabled
             /\ section.disturbed \/
                  /\ service.active
                  /\ section.command.preset \in {"none", home.configuration}
             /\ ~interrupted \/ section.command.force => audio = Installed
  <2>1. Going("setup") /\ section.todo = {}
    BY <1>1 DEF Succeeded, Finished, Going
  <2> QED
    BY <2>1 DEF DoneInv, AudioInv, SetupAudioInv
<1>2. ASSUME Succeeded("unsetup")
      PROVE  /\ Present = {} /\ home.stamp = "absent" /\ home.target = "mask"
             /\ service = [enabled |-> FALSE, active |-> FALSE]
             /\ section.disturbed \/
                  home.configuration = IF section.command.purge THEN "none"
                                       ELSE section.files.configuration
             /\ ~interrupted => audio.policy = home.policy
  <2>1. Going("unsetup") /\ section.todo = {}
    BY <1>2 DEF Succeeded, Finished, Going
  <2>2. /\ Present = {} /\ home.stamp = "absent" /\ home.target = "mask"
        /\ service = [enabled |-> FALSE, active |-> FALSE]
        /\ section.disturbed \/
             home.configuration = IF section.command.purge THEN "none"
                                  ELSE section.files.configuration
    BY <2>1 DEF RemovedInv
  <2>3. ~interrupted => SettledAs(home, audio)
    BY <2>1 DEF AudioInv, UnsetupAudioInv
  <2>4. ~interrupted => audio.policy = home.policy
    BY <2>2, <2>3 DEF SettledAs, Present
  <2> QED
    BY <2>2, <2>4
<1> QED
  BY <1>1, <1>2 DEF SetupIsComplete, UnsetupIsComplete

\* Commands that wait, the section of the one that runs and all it has found are
\* well-typed, and it never has anything to do that is not its own.
THEOREM SetupTypeOK == SetupSpec => []UserSetupTypeOK
<1>1. UserSetupInv => UserSetupTypeOK
  BY DEF UserSetupInv, SetupTypes
<1> QED
  BY <1>1, InitUserSetupInv, NextUserSetupInv, PTL DEF SetupSpec

\* A setup that succeeds, whatever failed or died before it, leaves every file in
\* place, the service enabled, the user's autostart file back and the policy
\* loaded; an unsetup that succeeds leaves the mask and nothing else.
THEOREM SetupSuccessIsComplete == SetupSpec => []SuccessIsComplete
  BY InitUserSetupInv, NextUserSetupInv, AllIsDone, PTL DEF SetupSpec

=============================================================================
