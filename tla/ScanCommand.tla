----------------------------- MODULE ScanCommand -----------------------------
(***************************************************************************)
(* The scan command (src/cli/commands/scan.ts) with the activation of the  *)
(* interactive console (src/cli/console-mode.ts) and the console session   *)
(* (startConsole in src/cli/console/session.tsx).                          *)
(*                                                                         *)
(* The scan itself is a verdict; its stages matter because the command     *)
(* yields to the event loop after each of them, which is where signals,    *)
(* keys and stream errors reach a console that is open meanwhile.          *)
(***************************************************************************)
EXTENDS Integers

CONSTANTS
  Requests,      \* the command lines, with the facts about the terminal
  StdoutMayBreak \* may stdout be gone for good when its error reaches the console?

Request == [interactive : {"auto", "yes", "no"}, \* --[no-]interactive
            pretty : BOOLEAN, dump : BOOLEAN,    \* --format, --dump-config
            tty : BOOLEAN,                       \* usable terminal, not CI
            scope : {"all", "files", "changed"}, files : BOOLEAN,
            trace : BOOLEAN]

ASSUME ScanAssumption == Requests \subseteq Request /\ StdoutMayBreak \in BOOLEAN

NoExit  == 10
Killed  == 11
Outputs == {"usage", "dump", "progress", "results", "unavailable", "report",
            "crash"}
Places  == {"flags", "config", "target", "scope", "trace", "console",
            "scanning", "present", "waiting", "report", "ended"}

VARIABLES
  in,      \* the request
  pc,      \* where scanCommand is
  stage,   \* scan stages announced so far
  watched, \* was runScan given a progress callback?
  verdict, \* exitCodeFor(doc), NoExit before the report exists
  session, \* scan.ts: does the variable session hold a console?
  ui,      \* the console session: [mounted, listening, raw, failure, done]
  out,     \* what the user has been given
  stdout,  \* "ok" or "broken"
  exit     \* the exit code, Killed when it died of a signal

vars == <<in, pc, stage, watched, verdict, session, ui, out, stdout, exit>>

NoConsole == [mounted |-> FALSE, listening |-> FALSE, raw |-> FALSE,
              failure |-> FALSE, done |-> "pending"]

Init ==
  /\ in \in Requests
  /\ pc = "flags"
  /\ stage = 0 /\ watched = FALSE
  /\ verdict = NoExit
  /\ session = FALSE /\ ui = NoConsole
  /\ out = {} /\ stdout = "ok"
  /\ exit = NoExit

-----------------------------------------------------------------------------
(* Activation: why the console cannot be used, if it cannot. *)
Unusable        == ~in.pretty \/ in.dump \/ ~in.tty
ConsoleEnabled  == in.interactive # "no" /\ ~Unusable
ConsoleConflict == in.interactive = "yes" /\ Unusable
FilesConflict   == (in.scope = "files") # in.files

Goto(place) ==
  /\ pc' = place
  /\ UNCHANGED <<in, stage, watched, verdict, session, ui, out, stdout, exit>>

EndWith(code, given) ==
  /\ pc' = "ended" /\ exit' = code /\ out' = out \cup given
  /\ UNCHANGED <<in, stage, watched, verdict, session, ui, stdout>>

UsageError == EndWith(2, {"usage"})

(* An exception nothing catches: a stack trace and exit code 1.            *)
Crash == EndWith(1, {"crash"})

CheckFlags ==
  /\ pc = "flags"
  /\ IF ConsoleConflict \/ FilesConflict THEN UsageError ELSE Goto("config")

(* A ConfigError is answered 2, any other exception leaves the process.    *)
LoadConfig ==
  /\ pc = "config"
  /\ \/ UsageError
     \/ Crash
     \/ IF in.dump THEN EndWith(0, {"dump"}) ELSE Goto("target")

CheckTarget  == pc = "target" /\ (UsageError \/ Goto("scope"))
ResolveScope == pc = "scope" /\ ((in.scope # "all" /\ UsageError) \/ Goto("trace"))
LoadTrace    == pc = "trace" /\ ((in.trace /\ UsageError) \/ Goto("console"))

-----------------------------------------------------------------------------
(* The console session. *)

Dispose_ListenersOnly(u) == [u EXCEPT !.listening = FALSE, !.mounted = FALSE]
Dispose(u) == [u EXCEPT !.listening = FALSE, !.mounted = FALSE, !.raw = FALSE]

Opened == [NoConsole EXCEPT !.mounted = TRUE, !.listening = TRUE, !.raw = TRUE]

Settle(done, value) == IF done = "pending" THEN value ELSE done

Failed_Hanging(u) == [Dispose(u) EXCEPT !.failure = TRUE]
Failed(u)   == [Dispose(u) EXCEPT !.failure = TRUE, !.done = Settle(u.done, "rejected")]
Finished(u) == [Dispose(u) EXCEPT !.done = Settle(u.done, "resolved")]

(* presentationFailure: give up on the console, say so, go on without it.  *)
PresentationFailure_Silent ==
  /\ session' = FALSE /\ ui' = Dispose(ui) /\ UNCHANGED out
PresentationFailure ==
  /\ session' = FALSE /\ ui' = Dispose(ui) /\ out' = out \cup {"unavailable"}

(* Loading the console's bundle may fail, and so may its first rendering.  *)
StartConsole ==
  /\ pc = "console"
  /\ pc' = "scanning"
  /\ IF ~ConsoleEnabled
     THEN UNCHANGED <<watched, session, ui, out>>
     ELSE \/ /\ watched' = TRUE /\ session' = TRUE
             /\ ui' = Opened /\ out' = out \cup {"progress"}
          \/ /\ ui' \in {NoConsole, Failed(Opened)}
             /\ out' = out \cup {"unavailable"}
             /\ UNCHANGED <<watched, session>>
  /\ UNCHANGED <<in, stage, verdict, stdout, exit>>

(* The event loop runs: after a stage that was announced, and while        *)
(* present waits for the user.                                             *)
Yielding == (pc = "scanning" /\ watched /\ stage > 0) \/ pc = "waiting"

(* An error of a stream, a component that throws, or Ink ending in error.  *)
UiFails ==
  /\ Yielding /\ ui.listening
  /\ ui' = Failed(ui)
  /\ stdout' \in {"ok"} \cup IF StdoutMayBreak THEN {"broken"} ELSE {}
  /\ UNCHANGED <<in, pc, stage, watched, verdict, session, out, exit>>

UserQuits ==
  /\ pc = "waiting" /\ ui.mounted
  /\ ui' = Finished(ui)
  /\ UNCHANGED <<in, pc, stage, watched, verdict, session, out, stdout, exit>>

(* Ctrl+C in the console, SIGINT or SIGTERM: clean up, then die of it.     *)
InterruptConsole ==
  /\ Yielding /\ ui.listening
  /\ ui' = Finished(ui)
  /\ pc' = "ended" /\ exit' = Killed
  /\ UNCHANGED <<in, stage, watched, verdict, session, out, stdout>>

(* Without the console a signal has its default effect.                    *)
DieOfSignal == pc # "ended" /\ ~ui.listening /\ EndWith(Killed, {})

-----------------------------------------------------------------------------
(* The scan and its presentation. *)

(* Project rules, the last stage, need the full scope.                     *)
Stages == IF in.scope = "all" THEN 5 ELSE 4

ShowThrows == ui.failure

AnnounceStage ==
  /\ pc = "scanning" /\ watched /\ stage < Stages
  /\ stage' = stage + 1
  /\ \/ session /\ PresentationFailure
     \/ /\ ~(session /\ ShowThrows)
        /\ UNCHANGED <<session, ui, out>>
  /\ UNCHANGED <<in, pc, watched, verdict, stdout, exit>>

ScanEnds ==
  /\ pc = "scanning" /\ (watched => stage = Stages)
  /\ verdict' \in {0, 1}
  /\ pc' = "present"
  /\ UNCHANGED <<in, stage, watched, session, ui, out, stdout, exit>>

(* An exception out of the scan: finally disposes of the console.          *)
ScanThrows ==
  /\ pc = "scanning"
  /\ ui' = IF session THEN Dispose(ui) ELSE ui
  /\ pc' = "ended" /\ exit' = 1 /\ out' = out \cup {"crash"}
  /\ UNCHANGED <<in, stage, watched, verdict, session, stdout>>

Present ==
  /\ pc = "present"
  /\ \/ ~session /\ Goto("report")
     \/ /\ session
        /\ PresentationFailure
        /\ pc' = "report"
        /\ UNCHANGED <<in, stage, watched, verdict, stdout, exit>>
     \/ /\ session /\ ~ShowThrows
        /\ pc' = "waiting" /\ out' = out \cup {"results"}
        /\ UNCHANGED <<in, stage, watched, verdict, session, ui, stdout, exit>>

PresentReturns ==
  /\ pc = "waiting" /\ ui.done # "pending"
  /\ IF ui.done = "resolved" THEN EndWith(verdict, {})
     ELSE /\ PresentationFailure
          /\ pc' = "report"
          /\ UNCHANGED <<in, stage, watched, verdict, stdout, exit>>

(* The error of a write to a broken stdout has no listener any more.       *)
Report_Unprinted == EndWith(verdict, {})
Report_Failing   == EndWith(1, {"report"})
Report == IF stdout = "ok" THEN EndWith(verdict, {"report"}) ELSE Crash

WriteReport == pc = "report" /\ Report

Steps == CheckFlags \/ LoadConfig \/ CheckTarget \/ ResolveScope \/ LoadTrace
         \/ StartConsole \/ AnnounceStage \/ ScanEnds \/ ScanThrows
         \/ Present \/ PresentReturns \/ WriteReport

Done == pc = "ended" /\ UNCHANGED vars

Next == Steps \/ UiFails \/ UserQuits \/ InterruptConsole \/ DieOfSignal \/ Done

Spec == Init /\ [][Next]_vars

(* The command runs on, and the user reads the results and quits.          *)
FairSpec == Spec /\ WF_vars(Steps) /\ WF_vars(UserQuits)

-----------------------------------------------------------------------------
(* Properties *)

Ui == [mounted : BOOLEAN, listening : BOOLEAN, raw : BOOLEAN,
       failure : BOOLEAN, done : {"pending", "resolved", "rejected"}]

TypeOK ==
  /\ in \in Request /\ pc \in Places
  /\ stage \in 0 .. 5 /\ watched \in BOOLEAN
  /\ verdict \in {0, 1, NoExit} /\ exit \in {0, 1, 2, NoExit, Killed}
  /\ session \in BOOLEAN
  /\ ui \in Ui
  /\ out \subseteq Outputs /\ stdout \in {"ok", "broken"}

(* spec 015 AC-8, spec 021, spec 028 AC-4: a usage error is answered 2     *)
(* with a message, before the console is touched or anything is scanned,   *)
(* and 2 means nothing else.                                               *)
UsageErrorsComeFirst ==
  /\ exit = 2 <=> "usage" \in out
  /\ "usage" \in out => verdict = NoExit /\ ui = NoConsole

(* spec 028, Lifecycle: however the command ends, the terminal is cooked   *)
(* again and no listener of the console is left.                           *)
TerminalRestored == pc = "ended" => ~ui.raw /\ ~ui.listening

(* A command that scanned and returned has given the report: on screen to  *)
(* a user who then quit, or printed - printed and with a word on stderr    *)
(* whenever the console failed, at whatever point it did.                  *)
ReportReachesUser ==
  exit \in {0, 1} /\ verdict # NoExit /\ stdout = "ok" =>
    IF ui.failure THEN {"unavailable", "report"} \subseteq out
    ELSE \/ "results" \in out /\ ui.done = "resolved"
         \/ "report" \in out

(* design 028 decision 9: no user input after the session has failed, and  *)
(* the report is not printed to a user who read it and quit.               *)
OneOutcome ==
  /\ ui.failure => ui.done = "rejected" /\ ~ui.mounted
  /\ ui.done = "resolved" => "report" \notin out

(* spec 028 AC-17: a completed scan whose UI exits or fails keeps its      *)
(* verdict.                                                                *)
VerdictKept == exit \in 0 .. 2 /\ verdict # NoExit => exit = verdict

(* The inductive invariant of the proofs.  The console session: what of it *)
(* is on goes on and off together, it is settled once it is off, and       *)
(* whoever let go of a failed one has said so.                             *)
UiInv ==
  /\ ui.raw = ui.listening /\ ui.mounted = ui.listening
  /\ ui.listening => session /\ ui.done = "pending" /\ ~ui.failure
  /\ ui.failure => ui.done = "rejected"
  /\ ui.done = "resolved" => session /\ ~ui.failure /\ pc \in {"waiting", "ended"}
  /\ ui.failure /\ ~session => "unavailable" \in out

(* How far the command is, and what it has given by then.                  *)
Early == {"flags", "config", "target", "scope", "trace", "console"}
Late  == {"present", "waiting", "report"}
PlaceInv ==
  /\ pc \in Early => ui = NoConsole /\ session = FALSE /\ out = {}
  /\ pc \in Early \cup {"scanning"} => verdict = NoExit
  /\ pc \in Late => verdict # NoExit
  /\ pc # "ended" => exit = NoExit /\ out \cap {"usage", "dump", "report", "crash"} = {}
  /\ pc \in {"scanning", "present"} => "results" \notin out
  /\ pc = "waiting" => session /\ "results" \in out
  /\ pc = "report" => session = FALSE
  /\ pc = "ended" => exit # NoExit /\ ui.listening = FALSE
  /\ pc = "ended" /\ ui.done = "resolved" => exit = Killed \/ "results" \in out

Consistent == UiInv /\ PlaceInv

(* The command ends once the user leaves the results, even when the        *)
(* console failed before or while it waits for them.                       *)
CommandEnds == <>(pc = "ended")

Contract == INSTANCE ScanContract WITH
  Aborted <- Killed,
  phase <- IF pc = "ended" THEN "answered" ELSE IF verdict # NoExit THEN "scanned" ELSE "asked",
  seen  <- out \cap {"results", "report"} # {},
  exit  <- IF "crash" \in out THEN Killed ELSE exit
ImplementsContract == Contract!Spec
=============================================================================
