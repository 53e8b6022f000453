----------------------------- MODULE UserSetup ------------------------------
(***************************************************************************)
(* `pipetune setup` and `pipetune unsetup` (user_setup.cpp and             *)
(* autostart_override.cpp), and the application that runs setup whenever   *)
(* it starts (pipetune-gtk).                                               *)
(*                                                                         *)
(* A command waits for the management lock, inspects what is there and     *)
(* then performs a list of operations, of which any may fail.  Setup then  *)
(* undoes what it has done, with operations that may fail too and are only *)
(* warned about.  A process may be killed between two operations.          *)
(*                                                                         *)
(* Outside: the preparation of the files' contents, file modes, the legacy *)
(* configuration, a user who edits the files while a command works, and    *)
(* the validation of a preset before the lock is taken.                    *)
(***************************************************************************)
EXTENDS Naturals, Sequences

CONSTANTS PolicyFiles,     \* the managed files of the audio policy
          Overrides,       \* autostart files of the user's own
          StartupPresets,
          NumProcesses,
          SetupBounds      \* how much may happen in one behaviour, see Happenings

Processes == 1 .. NumProcesses

Contents == {"absent", "old", "current"}

\* Commands and starts of the application, operations that fail, commands that
\* are killed, upgrades of the package, edits of the autostart file, and what
\* others do while a command works.
Happenings == [launches : Nat, failures : Nat, kills : Nat, upgrades : Nat,
               edits : Nat, disturbances : Nat]

ASSUME SetupAssumption ==
  /\ NumProcesses \in Nat /\ SetupBounds \subseteq Happenings
  /\ \A b \in SetupBounds : 2 * b.launches <= NumProcesses
  /\ (Overrides \cup StartupPresets) \cap {"absent", "mask", "none"} = {}

VARIABLES
  home,          \* the files in the user's directories
  audio,         \* what the audio servers have loaded
  service,       \* pipetune.service
  gtk,           \* the application runs
  waiting,       \* per process: the command that waits for the lock
  section,       \* the command that holds the lock
  \* History: the user's own autostart files that should exist; a command died
  \* or could not restart the audio servers since they last restarted; unsetup
  \* was the user's last word.
  owned, interrupted, removed,
  remaining      \* what is left of the bounds

setupVars == <<home, audio, service, gtk, waiting, section, owned, interrupted,
               removed, remaining>>

-----------------------------------------------------------------------------
(* Commands. *)

UserCommands ==
  [kind : {"setup"}, force : BOOLEAN, launchGtk : BOOLEAN,
   preset : StartupPresets \cup {"none"}, purge : {FALSE}, asked : {TRUE}]
  \cup [kind : {"unsetup"}, force : {FALSE}, launchGtk : {FALSE}, preset : {"none"},
        purge : BOOLEAN, asked : {TRUE}]

\* What the application runs, which the user has or has not asked to start.
ConditionalSetup(asked) ==
  [kind |-> "setup", force |-> FALSE, launchGtk |-> FALSE, preset |-> "none",
   purge |-> FALSE, asked |-> asked]

SomeCommands == UserCommands \cup {ConditionalSetup(FALSE)}

NoCommand == [kind |-> "none"]

SetupOrder == <<"preset", "reload", "install", "restartAudio", "enable", "restart",
                "check", "unmask", "unback", "complete", "launch">>

UnsetupOrder == <<"backUp", "mask", "quit", "disable", "remove", "restartAudio",
                  "purge", "forget">>

\* Undone in this order, whatever the order it was done in.
RollbackOrder == <<"configuration", "stamp", "policy", "audio", "enablement", "activity">>

Operations == {SetupOrder[i] : i \in DOMAIN SetupOrder}
              \cup {UnsetupOrder[i] : i \in DOMAIN UnsetupOrder}
Undoings == {RollbackOrder[i] : i \in DOMAIN RollbackOrder}

NoSection == [command |-> NoCommand]
Working == section # NoSection
Finished == Working /\ section.todo = {}

Homes == [policy : [PolicyFiles -> Contents], stamp : Contents,
          target : Overrides \cup {"absent", "mask"}, backup : Overrides \cup {"absent"},
          configuration : StartupPresets \cup {"none"}]
Audios == [policy : [PolicyFiles -> Contents], module : {"old", "current"}]
Services == [enabled : BOOLEAN, active : BOOLEAN]

\* files, unit, loaded: what the command found.  undo: what a failure undoes.
Sections == [command : SomeCommands, todo : SUBSET (Operations \cup Undoings),
             files : Homes, unit : Services, loaded : Audios,
             mutated : SUBSET PolicyFiles, undo : SUBSET Undoings,
             failed : BOOLEAN, warned : BOOLEAN, disturbed : BOOLEAN]

UserSetupTypeOK ==
  /\ home \in Homes /\ audio \in Audios /\ service \in Services /\ gtk \in BOOLEAN
  /\ waiting \in [Processes -> SomeCommands \cup {NoCommand}]
  /\ Working => section \in Sections
  /\ owned \subseteq Overrides /\ interrupted \in BOOLEAN /\ removed \in BOOLEAN
  /\ remaining \in Happenings

SetupInit ==
  /\ \E override \in Overrides \cup {"absent"} :
       /\ home = [policy |-> [f \in PolicyFiles |-> "absent"], stamp |-> "absent",
                  target |-> override, backup |-> "absent", configuration |-> "none"]
       /\ owned = {override} \ {"absent"}
  /\ audio = [policy |-> home.policy, module |-> "current"]
  /\ service = [enabled |-> FALSE, active |-> FALSE]
  /\ gtk = FALSE
  /\ waiting = [p \in Processes |-> NoCommand]
  /\ section = NoSection
  /\ interrupted = FALSE /\ removed = FALSE
  /\ remaining \in SetupBounds

Spend(kind) ==
  remaining[kind] > 0 /\ remaining' = [remaining EXCEPT ![kind] = @ - 1]

Started(command) ==
  LET free == CHOOSE p \in Processes :
                waiting[p] = NoCommand /\ \A q \in 1 .. p - 1 : waiting[q] # NoCommand
  IN  [waiting EXCEPT ![free] = command]

\* The order of what the command has still to do.
Order ==
  IF section.failed THEN RollbackOrder
  ELSE IF section.command.kind = "setup" THEN SetupOrder ELSE UnsetupOrder

\* The command is at this operation: whatever comes before it is done.
Does(operation) ==
  /\ Working /\ operation \in section.todo
  /\ \A i, j \in DOMAIN Order :
       Order[j] = operation /\ i < j => Order[i] \notin section.todo

\* It is done, and a later failure undoes these steps too.
Proceed(operation, steps) ==
  /\ section' = [section EXCEPT !.todo = @ \ {operation}, !.undo = @ \cup steps]
  /\ UNCHANGED remaining

Fail(steps) ==
  section' = [section EXCEPT !.failed = TRUE, !.todo = section.undo \cup steps]

Fails(steps) == Fail(steps) /\ Spend("failures")

\* An undoing that fails is only warned about.
Warns(operation) ==
  /\ section' = [section EXCEPT !.todo = @ \ {operation}, !.warned = TRUE]
  /\ Spend("failures")

\* A systemctl command that fails may have had its effect.
ServiceFails(enabled, active) ==
  service' \in [enabled : {service.enabled, enabled}, active : {service.active, active}]

Installed == [policy |-> home.policy, module |-> "current"]

-----------------------------------------------------------------------------
(* The lock and the inspection. *)

Outdated == {f \in PolicyFiles : home.policy[f] # "current"}
Present == {f \in PolicyFiles : home.policy[f] # "absent"}

IsReady ==
  /\ home.stamp = "current" /\ Outdated = {} /\ service.enabled /\ service.active
  /\ home.target # "mask"

SetupStepsWithoutStamp(command) ==
  IF ~command.force /\ command.preset = "none" /\ IsReady THEN {} ELSE
    {"reload", "enable", "restart", "check", "complete"}
    \cup {o \in {"preset"} : command.preset # "none"}
    \cup {o \in {"install"} : Outdated # {}}
    \cup {o \in {"restartAudio"} : Outdated # {} \/ command.force}
    \cup {o \in {"unmask"} : home.target = "mask"}
    \cup {o \in {"unback"} : home.target = "mask" /\ home.backup # "absent"}
    \cup {o \in {"launch"} : command.launchGtk}

SetupSteps(command) ==
  IF ~command.force /\ command.preset = "none" /\ IsReady THEN {} ELSE
    {"reload", "enable", "restart", "check", "complete"}
    \cup {o \in {"preset"} : command.preset # "none"}
    \cup {o \in {"install"} : Outdated # {}}
    \cup {o \in {"restartAudio"} :
            Outdated # {} \/ home.stamp # "current" \/ command.force}
    \cup {o \in {"unmask"} : home.target = "mask"}
    \cup {o \in {"unback"} : home.target = "mask" /\ home.backup # "absent"}
    \cup {o \in {"launch"} : command.launchGtk}

UnsetupSteps(command) ==
  {"quit", "disable", "forget"}
  \cup {o \in {"backUp"} : home.target \in Overrides}
  \cup {o \in {"mask"} : home.target # "mask"}
  \cup {o \in {"remove", "restartAudio"} : Present # {}}
  \cup {o \in {"purge"} : command.purge}

Program(command) ==
  IF command.kind = "setup" THEN SetupSteps(command) ELSE UnsetupSteps(command)

Enter(p) ==
  /\ ~Working /\ waiting[p] # NoCommand
  /\ waiting' = [waiting EXCEPT ![p] = NoCommand]
  /\ \E readable \in BOOLEAN :
       /\ IF readable THEN UNCHANGED remaining ELSE Spend("failures")
       /\ section' = [command |-> waiting[p],
                      todo |-> IF readable THEN Program(waiting[p]) ELSE {},
                      files |-> home, unit |-> service, loaded |-> audio,
                      mutated |-> {}, undo |-> {}, failed |-> ~readable,
                      warned |-> FALSE, disturbed |-> FALSE]
  /\ UNCHANGED <<home, audio, service, gtk, owned, interrupted, removed>>

\* The result is printed and the lock released.
Leave ==
  /\ Finished
  /\ section' = NoSection
  /\ removed' = \/ removed
                \/ /\ section.command.kind = "unsetup" /\ ~section.failed
                   /\ \A p \in Processes : waiting[p] # NoCommand => ~waiting[p].asked
  /\ UNCHANGED <<home, audio, service, gtk, waiting, owned, interrupted, remaining>>

-----------------------------------------------------------------------------
(* Setup. *)

SavePreset ==
  /\ Does("preset")
  /\ \/ home' = [home EXCEPT !.configuration = section.command.preset]
        /\ Proceed("preset", {"configuration"})
     \/ UNCHANGED home /\ Fails({})
  /\ UNCHANGED <<audio, service, gtk, waiting, owned, interrupted, removed>>

ReloadUnits ==
  /\ Does("reload")
  /\ Proceed("reload", {}) \/ Fails({})
  /\ UNCHANGED <<home, audio, service, gtk, waiting, owned, interrupted, removed>>

InstallFile ==
  /\ Does("install")
  /\ \/ \E f \in Outdated :
          /\ home' = [home EXCEPT !.policy = [@ EXCEPT ![f] = "current"]]
          /\ section' = [section EXCEPT !.mutated = @ \cup {f}, !.undo = @ \cup {"policy"},
               !.todo = IF Outdated = {f} THEN @ \ {"install"} ELSE @]
          /\ UNCHANGED remaining
     \/ UNCHANGED home /\ Fails({})
  /\ UNCHANGED <<audio, service, gtk, waiting, owned, interrupted, removed>>

\* Unsetup takes nothing back once the audio servers have restarted.
RestartAudio ==
  /\ Does("restartAudio")
  /\ \/ /\ audio' = Installed /\ interrupted' = FALSE
        /\ IF section.command.kind = "setup"
           THEN Proceed("restartAudio", {"audio"})
           ELSE /\ section' = [section EXCEPT !.todo = @ \ {"restartAudio"},
                                              !.undo = {}]
                /\ UNCHANGED remaining
     \/ audio' \in {audio, Installed} /\ UNCHANGED interrupted /\ Fails({"audio"})
  /\ UNCHANGED <<home, service, gtk, waiting, owned, removed>>

EnableService ==
  /\ Does("enable")
  /\ \/ /\ service' = [service EXCEPT !.enabled = TRUE]
        /\ Proceed("enable", {"enablement", "activity"})
     \/ ServiceFails(TRUE, service.active) /\ Fails({"enablement", "activity"})
  /\ UNCHANGED <<home, audio, gtk, waiting, owned, interrupted, removed>>

RestartService ==
  /\ Does("restart")
  /\ \/ service' = [service EXCEPT !.active = TRUE] /\ Proceed("restart", {})
     \/ ServiceFails(service.enabled, FALSE) /\ Fails({})
  /\ UNCHANGED <<home, audio, gtk, waiting, owned, interrupted, removed>>

CheckService ==
  /\ Does("check")
  /\ \/ service.active /\ Proceed("check", {})
     \/ ~service.active /\ Fail({}) /\ UNCHANGED remaining
     \/ Fails({})
  /\ UNCHANGED <<home, audio, service, gtk, waiting, owned, interrupted, removed>>

Unmask ==
  /\ Does("unmask")
  /\ \/ home' = [home EXCEPT !.target = "absent"] /\ Proceed("unmask", {})
     \/ UNCHANGED home /\ Fails({})
  /\ UNCHANGED <<audio, service, gtk, waiting, owned, interrupted, removed>>

RestoreOverride ==
  /\ Does("unback")
  /\ \/ /\ home' = [home EXCEPT !.target = home.backup, !.backup = "absent"]
        /\ Proceed("unback", {})
     \/ UNCHANGED home /\ Fails({})
  /\ UNCHANGED <<audio, service, gtk, waiting, owned, interrupted, removed>>

CompleteSetupForGood ==
  /\ Does("complete")
  /\ \/ home' = [home EXCEPT !.stamp = "current"] /\ Proceed("complete", {})
     \/ UNCHANGED home /\ Fails({})
  /\ UNCHANGED <<audio, service, gtk, waiting, owned, interrupted, removed>>

CompleteSetup ==
  /\ Does("complete")
  /\ \/ home' = [home EXCEPT !.stamp = "current"] /\ Proceed("complete", {"stamp"})
     \/ UNCHANGED home /\ Fails({})
  /\ UNCHANGED <<audio, service, gtk, waiting, owned, interrupted, removed>>

\* The first instance of the application runs setup in its turn.
LaunchGtk ==
  /\ Does("launch")
  /\ \/ /\ Proceed("launch", {}) /\ gtk' = TRUE
        /\ waiting' = IF gtk THEN waiting ELSE Started(ConditionalSetup(TRUE))
     \/ UNCHANGED <<gtk, waiting>> /\ Fails({})
  /\ UNCHANGED <<home, audio, service, owned, interrupted, removed>>

-----------------------------------------------------------------------------
(* What a failure undoes. *)

RestoreConfiguration ==
  /\ Does("configuration")
  /\ \/ /\ home' = [home EXCEPT !.configuration = section.files.configuration]
        /\ Proceed("configuration", {})
     \/ UNCHANGED home /\ Warns("configuration")
  /\ UNCHANGED <<audio, service, gtk, waiting, owned, interrupted, removed>>

RestoreStamp ==
  /\ Does("stamp")
  /\ \/ home' = [home EXCEPT !.stamp = section.files.stamp] /\ Proceed("stamp", {})
     \/ UNCHANGED home /\ Warns("stamp")
  /\ UNCHANGED <<audio, service, gtk, waiting, owned, interrupted, removed>>

\* Some of the files may keep what the command wrote.
RestorePolicy ==
  /\ Does("policy")
  /\ \E restored \in SUBSET section.mutated :
       /\ home' = [home EXCEPT !.policy = [f \in PolicyFiles |->
                     IF f \in restored THEN section.files.policy[f] ELSE @[f]]]
       /\ IF restored = section.mutated THEN Proceed("policy", {}) ELSE Warns("policy")
  /\ UNCHANGED <<audio, service, gtk, waiting, owned, interrupted, removed>>

RestartAudioAgain ==
  /\ Does("audio")
  /\ \/ audio' = Installed /\ interrupted' = FALSE /\ Proceed("audio", {})
     \/ audio' \in {audio, Installed} /\ interrupted' = TRUE /\ Warns("audio")
  /\ UNCHANGED <<home, service, gtk, waiting, owned, removed>>

RestoreEnablement ==
  /\ Does("enablement")
  /\ \/ /\ service' = [service EXCEPT !.enabled = section.unit.enabled]
        /\ Proceed("enablement", {})
     \/ ServiceFails(section.unit.enabled, service.active) /\ Warns("enablement")
  /\ UNCHANGED <<home, audio, gtk, waiting, owned, interrupted, removed>>

RestoreActivity ==
  /\ Does("activity")
  /\ \/ /\ service' = [service EXCEPT !.active = section.unit.active]
        /\ Proceed("activity", {})
     \/ ServiceFails(service.enabled, FALSE) /\ Warns("activity")
  /\ UNCHANGED <<home, audio, gtk, waiting, owned, interrupted, removed>>

-----------------------------------------------------------------------------
(* Unsetup. *)

BackUpOverrideAnyway ==
  /\ Does("backUp")
  /\ \/ /\ Proceed("backUp", {})
        /\ home' = [home EXCEPT !.backup = home.target, !.target = "absent"]
     \/ UNCHANGED home /\ Fails({})
  /\ UNCHANGED <<audio, service, gtk, waiting, owned, interrupted, removed>>

\* A backup that exists is never overwritten.
BackUpOverride ==
  /\ Does("backUp")
  /\ \/ /\ home.backup = "absent" /\ Proceed("backUp", {})
        /\ home' = [home EXCEPT !.backup = home.target, !.target = "absent"]
     \/ home.backup # "absent" /\ UNCHANGED <<home, remaining>> /\ Fail({})
     \/ UNCHANGED home /\ Fails({})
  /\ UNCHANGED <<audio, service, gtk, waiting, owned, interrupted, removed>>

\* A mask that cannot be written brings the user's file back, or leaves it in
\* the backup.
Mask ==
  /\ Does("mask")
  /\ \/ home' = [home EXCEPT !.target = "mask"] /\ Proceed("mask", {})
     \/ /\ Fails({})
        /\ \/ home' = [home EXCEPT !.target = section.files.target,
                                   !.backup = section.files.backup]
           \/ UNCHANGED home
  /\ UNCHANGED <<audio, service, gtk, waiting, owned, interrupted, removed>>

\* --quit reaches the running application, which may have changes to roll back
\* first.  Without one, the process becomes the first instance: its startup
\* runs setup, then its command line ends it.  Without a display it only fails.
QuitGtk ==
  /\ Does("quit")
  /\ Proceed("quit", {})
  /\ \/ gtk /\ gtk' \in BOOLEAN /\ UNCHANGED waiting
     \/ ~gtk /\ waiting' = Started(ConditionalSetup(FALSE)) /\ UNCHANGED gtk
     \/ ~gtk /\ UNCHANGED <<gtk, waiting>>
  /\ UNCHANGED <<home, audio, service, owned, interrupted, removed>>

DisableService ==
  /\ Does("disable")
  /\ \/ service' = [enabled |-> FALSE, active |-> FALSE] /\ Proceed("disable", {})
     \/ ServiceFails(FALSE, FALSE) /\ Fails({})
  /\ UNCHANGED <<home, audio, gtk, waiting, owned, interrupted, removed>>

RemoveFile ==
  /\ Does("remove")
  /\ \/ \E f \in Present :
          /\ home' = [home EXCEPT !.policy = [@ EXCEPT ![f] = "absent"]]
          /\ section' = [section EXCEPT !.mutated = @ \cup {f}, !.undo = @ \cup {"policy"},
               !.todo = IF Present = {f} THEN @ \ {"remove"} ELSE @]
          /\ UNCHANGED remaining
     \/ UNCHANGED home /\ Fails({})
  /\ UNCHANGED <<audio, service, gtk, waiting, owned, interrupted, removed>>

Purge ==
  /\ Does("purge")
  /\ \/ home' = [home EXCEPT !.configuration = "none"] /\ Proceed("purge", {})
     \/ UNCHANGED home /\ Fails({})
  /\ UNCHANGED <<audio, service, gtk, waiting, owned, interrupted, removed>>

ForgetSetup ==
  /\ Does("forget")
  /\ \/ home' = [home EXCEPT !.stamp = "absent"] /\ Proceed("forget", {})
     \/ UNCHANGED home /\ Fails({})
  /\ UNCHANGED <<audio, service, gtk, waiting, owned, interrupted, removed>>

-----------------------------------------------------------------------------
(* The user, the package, and what happens by itself. *)

RunCommand(command) ==
  /\ Spend("launches")
  /\ waiting' = Started(command)
  /\ removed' = FALSE
  /\ UNCHANGED <<home, audio, service, gtk, section, owned, interrupted>>

StartGtk ==
  /\ ~gtk /\ Spend("launches")
  /\ gtk' = TRUE
  /\ waiting' = Started(ConditionalSetup(TRUE))
  /\ removed' = FALSE
  /\ UNCHANGED <<home, audio, service, section, owned, interrupted>>

\* The setup it has started is not killed.
EndGtk ==
  /\ gtk /\ gtk' = FALSE
  /\ UNCHANGED <<home, audio, service, waiting, section, owned, interrupted, removed,
                 remaining>>

Kill ==
  /\ Working /\ ~Finished /\ Spend("kills")
  /\ section' = NoSection /\ interrupted' = TRUE
  /\ UNCHANGED <<home, audio, service, gtk, waiting, owned, removed>>

\* A new package: the contents of some files change, and what the audio
\* servers have loaded is old.
Upgrade ==
  /\ ~Working /\ (\A p \in Processes : waiting[p] = NoCommand) /\ Spend("upgrades")
  /\ \E changed \in SUBSET PolicyFiles :
       LET Aged(policy) == [f \in PolicyFiles |->
             IF policy[f] = "current" /\ f \in changed THEN "old" ELSE policy[f]]
       IN  /\ home' = [home EXCEPT !.policy = Aged(@),
                                   !.stamp = IF @ = "current" THEN "old" ELSE @]
           /\ audio' = [policy |-> Aged(audio.policy), module |-> "old"]
  /\ UNCHANGED <<service, gtk, waiting, section, owned, interrupted, removed>>

EditAutostart ==
  /\ ~Working /\ Spend("edits")
  /\ \E override \in (Overrides \ {home.target, home.backup}) \cup {"absent"} :
       /\ home' = [home EXCEPT !.target = override]
       /\ owned' = (owned \ {home.target}) \cup ({override} \ {"absent"})
  /\ UNCHANGED <<audio, service, gtk, waiting, section, interrupted, removed>>

\* The service ends by itself, or another program saves a selection.
Disturb ==
  /\ Spend("disturbances")
  /\ \/ service' = [service EXCEPT !.active = FALSE] /\ UNCHANGED home
     \/ /\ \E preset \in StartupPresets \cup {"none"} :
             home' = [home EXCEPT !.configuration = preset]
        /\ UNCHANGED service
  /\ section' = IF Working THEN [section EXCEPT !.disturbed = TRUE] ELSE section
  /\ UNCHANGED <<audio, gtk, waiting, owned, interrupted, removed>>

SetupStep ==
  \/ SavePreset \/ ReloadUnits \/ InstallFile \/ RestartAudio \/ EnableService
  \/ RestartService \/ CheckService \/ Unmask \/ RestoreOverride \/ CompleteSetup
  \/ LaunchGtk

RollbackStep ==
  \/ RestoreConfiguration \/ RestoreStamp \/ RestorePolicy \/ RestartAudioAgain
  \/ RestoreEnablement \/ RestoreActivity

UnsetupStep ==
  \/ BackUpOverride \/ Mask \/ QuitGtk \/ DisableService \/ RemoveFile \/ Purge
  \/ ForgetSetup

SetupNext ==
  \/ \E p \in Processes : Enter(p)
  \/ SetupStep \/ RollbackStep \/ UnsetupStep \/ Leave
  \/ \E command \in UserCommands : RunCommand(command)
  \/ StartGtk \/ EndGtk \/ Kill \/ Upgrade \/ EditAutostart \/ Disturb

SetupSpec == SetupInit /\ [][SetupNext]_setupVars

-----------------------------------------------------------------------------
(* Properties. *)

Succeeded(kind) == Finished /\ section.command.kind = kind /\ ~section.failed

\* A user's own autostart file is where it was or in the backup, whichever
\* command fails or dies half-way.
OverrideIsKept == \A o \in owned : o \in {home.target, home.backup}

\* A setup that fails leaves what it found, unless it warns or others interfere.
\* Only the autostart mask, which it removes late, stays removed.
FailedSetupIsUndone ==
  /\ Finished /\ section.command.kind = "setup"
  /\ section.failed /\ ~section.warned /\ ~section.disturbed
  =>
  /\ home = [section.files EXCEPT !.target = home.target, !.backup = home.backup]
  /\ service = section.unit
  /\ audio \in {section.loaded, Installed}

SetupIsComplete ==
  Succeeded("setup") =>
    /\ Outdated = {} /\ home.stamp = "current" /\ home.target # "mask"
    /\ section.files.target = "mask" => home.target = section.files.backup
    /\ service.enabled
    /\ section.disturbed \/
         /\ service.active
         /\ section.command.preset \in {"none", home.configuration}
    /\ ~interrupted \/ section.command.force => audio = Installed

UnsetupIsComplete ==
  Succeeded("unsetup") =>
    /\ Present = {} /\ home.stamp = "absent" /\ home.target = "mask"
    /\ service = [enabled |-> FALSE, active |-> FALSE]
    /\ section.disturbed \/
         home.configuration = IF section.command.purge THEN "none"
                              ELSE section.files.configuration
    /\ ~interrupted => audio.policy = home.policy

\* Whatever was there before: a setup that succeeds leaves nothing to set up,
\* the user's autostart file back in its place and everything loaded; if a
\* command was interrupted before, --force makes sure of that.  An unsetup that
\* succeeds leaves a mask and the user's selection, and nothing else; but after an
\* interrupted command the audio servers may still run the old policy, and unsetup
\* has no --force.
SuccessIsComplete == SetupIsComplete /\ UnsetupIsComplete

\* README.md: unsetup stops the service and removes PipeTune's configuration.
\* They stay so until the user runs setup or the application again.
UnsetupLasts == removed => Present = {} /\ ~service.enabled
=============================================================================
