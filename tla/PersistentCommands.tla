------------------------- MODULE PersistentCommands -------------------------
(***************************************************************************)
(* The commands that change a running daemon and the saved configuration:  *)
(* `rate set`, `dsp set`, `bypass`, `output set` and its relatives, and    *)
(* `config reset`.                                                         *)
(*                                                                         *)
(* A command asks the daemon over the control socket and reads and writes  *)
(* the configuration file; nothing else orders it against other commands.  *)
(* The daemon may be away, stop or start in between, refuse, or answer     *)
(* after the command has given up.  Saving may fail; a command that has    *)
(* changed the outputs then asks for the previous ones again.              *)
(*                                                                         *)
(* Outside: the syntax of the file and the validation of values, and the   *)
(* GTK window, which is a client of its own (SettingsTransaction).         *)
(***************************************************************************)
EXTENDS Naturals

CONSTANTS Commands,       \* one run of the CLI each
          FieldValues,        \* the values of a field
          DefaultChoice,
          Plans,          \* what every field has saved, what the commands want
          MaxLives        \* how often the daemon starts

Fields == {"outputs", "rate", "backend", "preset"}
Configurations == [Fields -> FieldValues]

\* Bypass clears the preset; a reset writes the default of every field.
Wishes ==
  [field : {"outputs", "rate", "backend"}, value : FieldValues]
  \cup [field : {"preset", "all"}, value : {DefaultChoice}]

ASSUME CommandsAssumption ==
  /\ DefaultChoice \in FieldValues
  /\ Plans \subseteq [saved : FieldValues, wish : [Commands -> Wishes]]
  /\ MaxLives \in Nat

VARIABLES
  saved,        \* the configuration file
  daemon,       \* up, its configuration and revision, and which life this is
  wish, stage,  \* per command: what it wants, where it is
  loaded,       \* per command: the file it has loaded
  before,       \* per command: the status it has queried
  mail,         \* per command: its request or the answer, on their way
  told,         \* per command: the status in that answer
  reply,        \* per command: the status that confirmed its change
  live,         \* per command: the change was confirmed
  report,       \* per command: what it has told the user
  \* History: the command met nobody else, and what it found.
  alone, found

commandVars == <<saved, daemon, wish, stage, loaded, before, mail, told, reply,
                 live, report, alone, found>>

Stages == {"begin", "load", "query", "connect", "wait", "write", "undo", "wait undo",
           "restart", "done"}
Statuses == [configuration : Configurations, revision : Nat, life : Nat]
\* "next start": the daemon is unavailable, the file is saved; "not saved": the
\* change is live, the file is not saved.
Reports == {"none", "success", "next start", "not saved", "failure", "restored",
            "not restarted"}

CommandsTypeOK ==
  /\ saved \in Configurations
  /\ daemon \in [up : BOOLEAN, configuration : Configurations, revision : Nat, life : Nat]
  /\ wish \in [Commands -> Wishes] /\ stage \in [Commands -> Stages]
  /\ loaded \in [Commands -> Configurations]
  /\ before \in [Commands -> Statuses] /\ told \in [Commands -> Statuses]
  /\ reply \in [Commands -> Statuses]
  /\ mail \in [Commands -> {"none", "request", "undo", "accepted", "refused",
                            "answer", "refusal", "closed"}]
  /\ live \in [Commands -> BOOLEAN] /\ report \in [Commands -> Reports]
  /\ alone \in [Commands -> BOOLEAN]
  /\ found \in [Commands -> [saved : Configurations, running : Configurations]]

\* What a status of the daemon shows now.
CurrentStatus == [configuration |-> daemon.configuration, revision |-> daemon.revision,
         life |-> daemon.life]

\* The daemon has started with this file, and may stop before a command begins.
CommandsInit ==
  /\ \E plan \in Plans :
       saved = [f \in Fields |-> plan.saved] /\ wish = plan.wish
  /\ daemon = [up |-> TRUE, configuration |-> saved, revision |-> 0, life |-> 0]
  /\ stage = [c \in Commands |-> "begin"]
  /\ loaded = [c \in Commands |-> saved]
  /\ before = [c \in Commands |-> CurrentStatus] /\ told = before /\ reply = before
  /\ mail = [c \in Commands |-> "none"]
  /\ live = [c \in Commands |-> FALSE]
  /\ report = [c \in Commands |-> "none"]
  /\ alone = [c \in Commands |-> FALSE]
  /\ found = [c \in Commands |-> [saved |-> saved, running |-> saved]]

ChangesOutputs(c) == wish[c].field = "outputs"

At(c, s) == stage[c] = s
GoTo(c, s) == stage' = [stage EXCEPT ![c] = s]
Report(c, r) == stage' = [stage EXCEPT ![c] = "done"] /\ report' = [report EXCEPT ![c] = r]

\* Others, who have begun, have met c.
Meets(c) == alone' = [d \in Commands |-> alone[d] /\ d = c]

\* Nothing is saved, although the change may be live.
ReportUnsaved(c) == Report(c, IF live[c] THEN "not saved" ELSE "failure")

-----------------------------------------------------------------------------
(* The command, up to the answer of the daemon. *)

BeginCommand(c) ==
  /\ At(c, "begin")
  /\ GoTo(c, IF ChangesOutputs(c) THEN "load"
             ELSE IF wish[c].field = "all" THEN "write" ELSE "connect")
  /\ alone' = [d \in Commands |-> d = c /\ \A e \in Commands \ {c} :
                 stage[e] \in {"begin", "done"} /\ mail[e] \notin {"request", "undo"}]
  /\ found' = [found EXCEPT ![c] = [saved |-> saved, running |-> daemon.configuration]]
  /\ UNCHANGED <<saved, daemon, wish, loaded, before, mail, told, reply, live, report>>

\* Setters load the file before they write it, the change of outputs first of
\* all.
LoadSaved(c) ==
  /\ At(c, "load") /\ Meets(c)
  /\ \/ /\ loaded' = [loaded EXCEPT ![c] = saved]
        /\ GoTo(c, IF ChangesOutputs(c) THEN "query" ELSE "write") /\ UNCHANGED report
     \/ ReportUnsaved(c) /\ UNCHANGED loaded
  /\ UNCHANGED <<saved, daemon, wish, before, mail, told, reply, live, found>>

\* A daemon that is away is not asked for the outputs; the status may fail, or
\* the outputs that are wanted do not fit to it.
QueryOutputs(c) ==
  /\ At(c, "query") /\ Meets(c)
  /\ \/ daemon.up /\ before' = [before EXCEPT ![c] = CurrentStatus]
        /\ GoTo(c, "connect") /\ UNCHANGED report
     \/ ~daemon.up /\ GoTo(c, "write") /\ UNCHANGED <<before, report>>
     \/ Report(c, "failure") /\ UNCHANGED before
  /\ UNCHANGED <<saved, daemon, wish, loaded, mail, told, reply, live, found>>

\* An exchange that fails, for whatever reason, leaves the outputs unsaved, but
\* counts as an absent daemon for all other fields.  A backend must be available.
ExchangeFails(c) ==
  \/ ~ChangesOutputs(c) /\ GoTo(c, "load") /\ UNCHANGED report
  \/ wish[c].field \in {"outputs", "backend"} /\ Report(c, "failure")

SendRequest(c) ==
  /\ At(c, "connect") /\ Meets(c)
  /\ \/ /\ daemon.up /\ mail' = [mail EXCEPT ![c] = "request"]
        /\ GoTo(c, "wait") /\ UNCHANGED report
     \/ ExchangeFails(c) /\ UNCHANGED mail
  /\ UNCHANGED <<saved, daemon, wish, loaded, before, told, reply, live, found>>

TakeAnyReply(c) ==
  /\ At(c, "wait") /\ mail[c] \in {"answer", "refusal"} /\ Meets(c)
  /\ mail' = [mail EXCEPT ![c] = "none"]
  /\ live' = [live EXCEPT ![c] = TRUE]
  /\ reply' = [reply EXCEPT ![c] = told[c]]
  /\ GoTo(c, IF ChangesOutputs(c) THEN "write" ELSE "load")
  /\ UNCHANGED <<saved, daemon, wish, loaded, before, told, report, found>>

TakeReply(c) ==
  /\ At(c, "wait") /\ mail[c] \in {"answer", "refusal"} /\ Meets(c)
  /\ mail' = [mail EXCEPT ![c] = "none"]
  /\ IF mail[c] = "answer" /\ told[c].configuration[wish[c].field] = wish[c].value
     THEN /\ live' = [live EXCEPT ![c] = TRUE]
          /\ reply' = [reply EXCEPT ![c] = told[c]]
          /\ GoTo(c, IF ChangesOutputs(c) THEN "write" ELSE "load") /\ UNCHANGED report
     ELSE Report(c, "failure") /\ UNCHANGED <<live, reply>>
  /\ UNCHANGED <<saved, daemon, wish, loaded, before, told, found>>

\* The socket is closed, or fifteen seconds have passed; the daemon may still
\* find the request.
LoseReply(c) ==
  /\ At(c, "wait") /\ Meets(c)
  /\ ExchangeFails(c)
  /\ UNCHANGED <<saved, daemon, wish, loaded, before, mail, told, reply, live, found>>

-----------------------------------------------------------------------------
(* The file, and what follows. *)

NewConfiguration(c, old) ==
  [f \in Fields |-> IF wish[c].field \in {f, "all"} THEN wish[c].value ELSE old[f]]

WriteSaved(c) ==
  /\ At(c, "write") /\ Meets(c)
  /\ \/ /\ saved' = NewConfiguration(c, loaded[c])
        /\ IF wish[c].field = "all" THEN GoTo(c, "restart") /\ UNCHANGED report
           ELSE Report(c, IF live[c] THEN "success" ELSE "next start")
     \/ /\ UNCHANGED saved
        /\ IF ChangesOutputs(c) /\ live[c] THEN GoTo(c, "undo") /\ UNCHANGED report
           ELSE ReportUnsaved(c)
  /\ UNCHANGED <<daemon, wish, loaded, before, mail, told, reply, live, found>>

SendUndo(c) ==
  /\ At(c, "undo") /\ Meets(c)
  /\ live' = [live EXCEPT ![c] = FALSE]
  /\ \/ /\ daemon.up /\ mail' = [mail EXCEPT ![c] = "undo"]
        /\ GoTo(c, "wait undo") /\ UNCHANGED report
     \/ Report(c, "failure") /\ UNCHANGED mail
  /\ UNCHANGED <<saved, daemon, wish, loaded, before, told, reply, found>>

EndUndo(c) ==
  /\ At(c, "wait undo") /\ Meets(c)
  /\ \/ /\ mail[c] \in {"answer", "refusal"}
        /\ mail' = [mail EXCEPT ![c] = "none"]
        /\ Report(c, IF /\ mail[c] = "answer"
                        /\ told[c].configuration["outputs"] = before[c].configuration["outputs"]
                     THEN "restored" ELSE "failure")
     \/ Report(c, "failure") /\ UNCHANGED mail
  /\ UNCHANGED <<saved, daemon, wish, loaded, before, told, reply, live, found>>

\* Connections of the old life are closed, except for answers already sent.
Closed ==
  [c \in Commands |->
     IF mail[c] \in {"request", "undo", "accepted", "refused"} THEN "closed" ELSE mail[c]]

NewLife ==
  [up |-> TRUE, configuration |-> saved, revision |-> 0, life |-> daemon.life + 1]

\* A daemon that is away stays away.
RestartDaemon(c) ==
  /\ At(c, "restart") /\ Meets(c)
  /\ \/ daemon.up /\ daemon' = NewLife /\ mail' = Closed /\ Report(c, "success")
     \/ ~daemon.up /\ Report(c, "success") /\ UNCHANGED <<daemon, mail>>
     \/ Report(c, "not restarted") /\ UNCHANGED <<daemon, mail>>
  /\ UNCHANGED <<saved, wish, loaded, before, told, reply, live, found>>

-----------------------------------------------------------------------------
(* The daemon. *)

\* The field and the value a request asks for.
Asked(c) ==
  IF mail[c] = "undo" THEN [field |-> "outputs", value |-> before[c].configuration["outputs"]]
  ELSE wish[c]

RevisionFitsRequests(c) ==
  mail[c] = "request" /\ ChangesOutputs(c) => before[c].revision = daemon.revision

\* Requests for outputs name the revision they build on.
RevisionFits(c) ==
  /\ mail[c] = "undo" => reply[c].revision = daemon.revision
  /\ mail[c] = "request" /\ ChangesOutputs(c) => before[c].revision = daemon.revision

\* Every change has a revision of its own; a request that changes nothing, and
\* a rate that is tried and taken back, may have one too.
Execute(c) ==
  /\ daemon.up /\ mail[c] \in {"request", "undo"}
  /\ IF At(c, "done") THEN alone' = [d \in Commands |-> FALSE] ELSE Meets(c)
  /\ \E newer \in 0 .. 1 :
     \/ /\ RevisionFits(c)
        /\ mail' = [mail EXCEPT ![c] = "accepted"]
        /\ LET next == [daemon.configuration EXCEPT ![Asked(c).field] = Asked(c).value] IN
             /\ next # daemon.configuration => newer = 1
             /\ daemon' = [daemon EXCEPT !.configuration = next, !.revision = @ + newer]
     \/ /\ mail' = [mail EXCEPT ![c] = "refused"]
        /\ daemon' = [daemon EXCEPT !.revision = @ + newer]
  /\ UNCHANGED <<saved, wish, stage, loaded, before, told, reply, live, report, found>>

Answer(c) ==
  /\ daemon.up /\ mail[c] \in {"accepted", "refused"}
  /\ mail' = [mail EXCEPT ![c] = IF @ = "accepted" THEN "answer" ELSE "refusal"]
  /\ told' = [told EXCEPT ![c] = CurrentStatus]
  /\ UNCHANGED <<saved, daemon, wish, stage, loaded, before, reply, live, report, alone, found>>

StopDaemon ==
  /\ daemon.up
  /\ daemon' = [daemon EXCEPT !.up = FALSE]
  /\ mail' = Closed
  /\ alone' = [c \in Commands |-> FALSE]
  /\ UNCHANGED <<saved, wish, stage, loaded, before, told, reply, live, report, found>>

StartDaemon ==
  /\ ~daemon.up /\ daemon.life < MaxLives
  /\ daemon' = NewLife
  /\ alone' = [c \in Commands |-> FALSE]
  /\ UNCHANGED <<saved, wish, stage, loaded, before, mail, told, reply, live, report, found>>

CommandStep(c) ==
  \/ BeginCommand(c) \/ LoadSaved(c) \/ QueryOutputs(c) \/ SendRequest(c)
  \/ TakeReply(c) \/ LoseReply(c) \/ WriteSaved(c) \/ SendUndo(c) \/ EndUndo(c)
  \/ RestartDaemon(c) \/ Execute(c) \/ Answer(c)

CommandsNext == (\E c \in Commands : CommandStep(c)) \/ StopDaemon \/ StartDaemon

CommandsSpec == CommandsInit /\ [][CommandsNext]_commandVars

-----------------------------------------------------------------------------
(* Properties. *)

\* A command that met no other and no restart has told the truth: it has saved
\* its field and nothing else, or nothing at all if it says so; a daemon runs the
\* change that is said to be live, and the previous outputs if they are "restored".
ReportIsTrue ==
  \A c \in Commands : alone[c] /\ At(c, "done") =>
    /\ saved = IF report[c] \in {"success", "next start", "not restarted"}
               THEN NewConfiguration(c, found[c].saved) ELSE found[c].saved
    /\ report[c] \in {"success", "not saved"} /\ daemon.up =>
         daemon.configuration = NewConfiguration(c, found[c].running)
    /\ report[c] = "restored" => daemon.configuration = found[c].running

\* src/README.md, "rate set" and "dsp set": a setting is saved after the daemon has
\* confirmed it, or for the next start of a daemon that is unavailable.  So a daemon
\* that is said to take it at the next start does not run it now.
SavedForNextStart ==
  \A c \in Commands : wish[c].field \in {"rate", "backend"} /\ alone[c]
                      /\ report[c] = "next start" =>
    daemon.configuration = found[c].running

\* output_command.cpp: the undo of a change whose save has failed never overwrites
\* what another client has changed since.  The revision it names does not tell
\* the lives of the daemon apart.
UndoOverwritesNobody ==
  [][\A c \in Commands :
       mail[c] = "undo" /\ mail'[c] = "accepted" /\ reply[c].life = daemon.life
       => daemon.configuration = reply[c].configuration]_commandVars
=============================================================================
