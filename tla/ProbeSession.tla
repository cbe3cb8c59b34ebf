----------------------------- MODULE ProbeSession -----------------------------
(***************************************************************************)
(* One `backend-doctor probe` session: the parent (src/probe/runner.ts and *)
(* src/probe/session.ts), the direct child it spawns, and the descendants  *)
(* that inherit the preload through NODE_OPTIONS.  The parent is a single  *)
(* event loop: each action of it is one turn of that loop.  Processes,     *)
(* signals and timers interleave freely with it.                           *)
(*                                                                         *)
(* Of a process the model keeps its life cycle and the lines the hook      *)
(* (src/probe/hook.ts) appends to events.ndjson for it: attach, any        *)
(* collector event, detach.  Time is counted in ticks; only the parent's   *)
(* escalation timers look at it.                                           *)
(***************************************************************************)
EXTENDS Integers, Sequences, FiniteSets

CONSTANTS
  Child,              \* the process runProbe spawns
  Descendants,        \* the processes the child may start
  AppCodes,           \* the exit codes the application uses
  Durations,          \* --duration in ticks; 0 stands for no --duration
  ESCALATION_STEP_MS, \* the grace between two escalation signals, in ticks
  TIMEOUT_MAX,        \* the longest delay setTimeout accepts, in ticks
  Permissions,        \* may the probe signal its child? {TRUE}, or FALSE too
  Faults,             \* the I/O steps that may fail, a subset of FaultPoints
  MaxSignals,         \* bound: signals sent to the session from outside
  MaxEvents           \* bound: collector events are appended below this length

FaultPoints ==
  {"mkdtemp", "events.ndjson", "spawn error", "spawn throw",
   "session.json", "findings.json", "append"}

ASSUME SessionAssumption ==
  /\ Child \notin Descendants
  /\ AppCodes \subseteq 0 .. 127
  /\ 0 \in AppCodes
  /\ Durations \subseteq Nat
  /\ ESCALATION_STEP_MS \in Nat \ {0}
  /\ TIMEOUT_MAX \in Nat \ {0}
  /\ Permissions \subseteq BOOLEAN
  /\ Faults \subseteq FaultPoints
  /\ MaxSignals \in Nat
  /\ MaxEvents \in Nat

Procs == {Child} \cup Descendants

ProbeSignals == {"SIGINT", "SIGTERM"}
Signals      == ProbeSignals \cup {"SIGKILL"}

(* os.constants.signals, for the signals the probe handles. *)
SignalNumber == [SIGINT |-> 2, SIGTERM |-> 15, SIGKILL |-> 9]

signalExitCode(signal) == 128 + SignalNumber[signal]

(* How a process ended: node hands (code, signal) to the exit listener.    *)
Exits    == [signal : {"null"}, code : AppCodes] \cup
            [signal : Signals, code : {0}]
NoExit   == [signal |-> "null", code |-> -1]
NoResult == -1
NoCount  == -1

VARIABLES
  pc,          \* the parent: where runProbe is, or how its process ended
  result,      \* the value the promise of runProbe resolved to
  probeSignal, \* the last signal forwarded to the child, or "null"
  parentInbox, \* signals delivered to the parent, not yet dispatched
  listening,   \* are the SIGINT and SIGTERM listeners installed?
  timers,      \* the escalation timers still armed, as indices of Escalation
  elapsed,     \* ticks since the timers were armed
  handle,      \* does node still hold the child's process handle?
  dir,         \* the session directory
  events,      \* the lines of events.ndjson
  sessionDoc,  \* the exit field of session.json, NoExit before it is written
  findings,    \* the events findings.json was computed from, NoCount before
  status, exit, inbox, attached, recordable, \* per process
  duration, mayKill,                         \* fixed for the session
  signalsLeft                                \* what is left of MaxSignals

parentVars  == <<pc, result, probeSignal, parentInbox, listening, timers,
                 elapsed, handle>>
storeVars   == <<dir, events, sessionDoc, findings>>
procVars    == <<status, exit, inbox, attached, recordable>>
fixedVars   == <<duration, mayKill>>
vars        == <<parentVars, storeVars, procVars, fixedVars, signalsLeft>>

ParentStates == {"start", "created", "spawned", "running",
                 "ended", "crashed", "killed"}
Ended        == {"ended", "crashed", "killed"}
DirStates    == {"none", "bare", "session", "removed"}
ProcStates   == {"none", "booting", "running", "exiting", "dead"}
Alive        == {"booting", "running", "exiting"}
EventTypes   == {"probe.attach", "collector", "probe.detach"}
EventLine    == [type : EventTypes, pid : Procs]

Init ==
  /\ pc = "start" /\ result = NoResult /\ probeSignal = "null"
  /\ parentInbox = {} /\ listening = FALSE /\ timers = {} /\ elapsed = 0
  /\ handle = FALSE
  /\ dir = "none" /\ events = <<>> /\ sessionDoc = NoExit /\ findings = NoCount
  /\ status = [p \in Procs |-> "none"]
  /\ exit = [p \in Procs |-> NoExit]
  /\ inbox = [p \in Procs |-> {}]
  /\ attached = [p \in Procs |-> FALSE]
  /\ recordable = [p \in Procs |-> TRUE]
  /\ duration \in Durations
  /\ mayKill \in Permissions
  /\ signalsLeft = MaxSignals

(* Operators with a suffix, here and below, are plausible mistakes in the  *)
(* operator they precede; PROJECT.json names the property each one breaks. *)
-----------------------------------------------------------------------------
(* What the error and exit listeners of the child share. *)

ClearTimers_Never == UNCHANGED timers

ClearTimers   == timers' = {}
StopListening == listening' = FALSE /\ parentInbox' = {}
RemoveSession == dir' = "removed" /\ events' = <<>>

-----------------------------------------------------------------------------
(* The parent before its event loop runs. *)

(* No start command, no hook file, or a root that is not a directory: the  *)
(* three early returns, before anything is written.                        *)
RejectUsage ==
  /\ pc = "start"
  /\ pc' = "ended" /\ result' = 2
  /\ UNCHANGED <<probeSignal, parentInbox, listening, timers, elapsed, handle,
                 storeVars, procVars, fixedVars, signalsLeft>>

(* mkdir -p, mkdtemp and the empty events.ndjson: a throw at either of them *)
(* leaves runProbe uncaught.                                               *)
CreateSession ==
  /\ pc = "start"
  /\ \/ /\ dir' = "session"
        /\ pc' = "created"
        /\ UNCHANGED result
     \/ /\ "mkdtemp" \in Faults
        /\ pc' = "crashed" /\ result' = 1
        /\ UNCHANGED dir
     \/ /\ "events.ndjson" \in Faults
        /\ dir' = "bare"
        /\ pc' = "crashed" /\ result' = 1
  /\ UNCHANGED <<probeSignal, parentInbox, listening, timers, elapsed, handle,
                 events, sessionDoc, findings, procVars, fixedVars, signalsLeft>>

Spawn ==
  /\ pc = "created"
  /\ status' = [status EXCEPT ![Child] = "booting"]
  /\ handle' = TRUE
  /\ pc' = "spawned"
  /\ UNCHANGED <<result, probeSignal, parentInbox, listening, timers, elapsed,
                 storeVars, exit, inbox, attached, recordable, fixedVars,
                 signalsLeft>>

(* node reports ENOENT, EACCES, EAGAIN and EMFILE with an error event on   *)
(* the next tick, after the synchronous rest of runProbe.  The listener    *)
(* removes the session directory.                                          *)
SpawnError ==
  /\ pc = "created" /\ "spawn error" \in Faults
  /\ RemoveSession
  /\ result' = 2 /\ pc' = "ended"
  /\ UNCHANGED <<probeSignal, parentInbox, listening, timers, elapsed, handle,
                 sessionDoc, findings, procVars, fixedVars, signalsLeft>>

(* Any other errno (ENOTDIR, E2BIG, ...) is thrown out of spawn itself.    *)
SpawnThrow ==
  /\ pc = "created" /\ "spawn throw" \in Faults
  /\ result' = 1 /\ pc' = "crashed"
  /\ UNCHANGED <<probeSignal, parentInbox, listening, timers, elapsed, handle,
                 storeVars, procVars, fixedVars, signalsLeft>>

Escalation_NoKill == <<"SIGINT", "SIGTERM">>
Escalation == <<"SIGINT", "SIGTERM", "SIGKILL">>

(* setTimeout replaces a delay that does not fit by 1.                     *)
NodeDelay(after) == IF after \in 1 .. TIMEOUT_MAX THEN after ELSE 1

Nominal(i) == duration + (i - 1) * ESCALATION_STEP_MS
Due_AtExpiry(i) == NodeDelay(duration)
Due(i)     == NodeDelay(Nominal(i))

InstallHandlers ==
  /\ pc = "spawned"
  /\ pc' = "running"
  /\ listening' = TRUE
  /\ timers' = IF duration = 0 THEN {} ELSE DOMAIN Escalation
  /\ UNCHANGED <<result, probeSignal, parentInbox, elapsed, handle,
                 storeVars, procVars, fixedVars, signalsLeft>>

-----------------------------------------------------------------------------
(* The parent's event loop. *)

(* child.kill when the signal can be sent: a zombie swallows it.           *)
SendToChild(signal) ==
  inbox' = IF status[Child] \in Alive
             THEN [inbox EXCEPT ![Child] = @ \cup {signal}]
             ELSE inbox

(* The error listener.  It is written for a failed spawn, but node emits   *)
(* error for a failed kill (EPERM) as well, on a child that runs.          *)
OnError ==
  /\ ClearTimers
  /\ StopListening
  /\ RemoveSession
  /\ result' = 2

Forward(signal) ==
  /\ pc = "running" /\ listening
  /\ signal \in parentInbox
  /\ probeSignal' = signal
  /\ \/ /\ mayKill
        /\ SendToChild(signal)
        /\ parentInbox' = parentInbox \ {signal}
        /\ UNCHANGED <<timers, listening, dir, events, result>>
     \/ /\ ~mayKill
        /\ OnError
        /\ UNCHANGED inbox
  /\ UNCHANGED <<pc, elapsed, handle, sessionDoc, findings,
                 status, exit, attached, recordable, fixedVars, signalsLeft>>

(* Timers fire late, never early, in the order of their due times.         *)
TimerFires(i) ==
  /\ pc = "running"
  /\ i \in timers
  /\ Due(i) <= elapsed
  /\ \A j \in timers \ {i} : Due(i) < Due(j) \/ (Due(i) = Due(j) /\ i < j)
  /\ \/ /\ mayKill \/ ~handle
        /\ IF handle THEN SendToChild(Escalation[i]) ELSE UNCHANGED inbox
        /\ timers' = timers \ {i}
        /\ UNCHANGED <<parentInbox, listening, dir, events, result>>
     \/ /\ ~mayKill /\ handle
        /\ OnError
        /\ UNCHANGED inbox
  /\ UNCHANGED <<pc, probeSignal, elapsed, handle, sessionDoc, findings,
                 status, exit, attached, recordable, fixedVars, signalsLeft>>

Settle(code) == result' = IF result = NoResult THEN code ELSE result

(* finalizeFindings: every failure inside is caught.                       *)
FinalizeFindings ==
  \/ findings' = Len(events)
  \/ "findings.json" \in Faults /\ UNCHANGED findings

ExitResult_CodeOnly == exit[Child].code
ExitResult ==
  IF probeSignal # "null" THEN signalExitCode(probeSignal)
  ELSE IF exit[Child].signal # "null" THEN signalExitCode(exit[Child].signal)
  ELSE exit[Child].code

WriteSessionDoc_Unsignalled ==
  sessionDoc' = IF probeSignal = "null" THEN exit[Child] ELSE sessionDoc
WriteSessionDoc == sessionDoc' = exit[Child]

(* node emits exit once the process is reaped.                             *)
ChildGone == status[Child] = "dead"

(* The exit listener.  writeSessionDoc is not guarded: when the directory  *)
(* is gone, or the write fails, the exception is uncaught.                 *)
OnExit ==
  /\ pc = "running" /\ handle
  /\ ChildGone
  /\ handle' = FALSE
  /\ ClearTimers
  /\ StopListening
  /\ \/ /\ dir = "session"
        /\ WriteSessionDoc
        /\ FinalizeFindings
        /\ Settle(ExitResult)
        /\ UNCHANGED pc
     \/ /\ dir # "session" \/ "session.json" \in Faults
        /\ pc' = "crashed" /\ result' = 1
        /\ UNCHANGED <<sessionDoc, findings>>
  /\ UNCHANGED <<probeSignal, elapsed, dir, events, procVars, fixedVars,
                 signalsLeft>>

(* The bin entry only sets process.exitCode: the process ends when nothing *)
(* keeps its loop alive.                                                   *)
ProcessExit ==
  /\ pc = "running" /\ ~handle /\ timers = {}
  /\ pc' = "ended"
  /\ UNCHANGED <<result, probeSignal, parentInbox, listening, timers, elapsed,
                 handle, storeVars, procVars, fixedVars, signalsLeft>>

(* bound: ticks stop at the nominal time of the last escalation step.      *)
Tick ==
  /\ pc = "running" /\ timers # {}
  /\ elapsed < Nominal(Len(Escalation))
  /\ elapsed' = elapsed + 1
  /\ UNCHANGED <<pc, result, probeSignal, parentInbox, listening, timers,
                 handle, storeVars, procVars, fixedVars, signalsLeft>>

-----------------------------------------------------------------------------
(* The instrumented processes. *)

AppendLine_Reopened(line) ==
  events' = IF line.type = "probe.attach" THEN <<line>> ELSE Append(events, line)
AppendLine(line) == events' = Append(events, line)

(* writeEvent: a failed append turns this process' hook off for good.      *)
Record(p, type) ==
  \/ /\ recordable[p] /\ dir = "session"
     /\ AppendLine([type |-> type, pid |-> p])
     /\ UNCHANGED recordable
  \/ /\ recordable[p]
     /\ dir # "session" \/ "append" \in Faults
     /\ recordable' = [recordable EXCEPT ![p] = FALSE]
     /\ UNCHANGED events
  \/ /\ ~recordable[p]
     /\ UNCHANGED <<events, recordable>>

(* A node process runs the preload first; anything else never attaches.    *)
Boot(p) ==
  /\ status[p] = "booting"
  /\ status' = [status EXCEPT ![p] = "running"]
  /\ \/ /\ attached' = [attached EXCEPT ![p] = TRUE]
        /\ Record(p, "probe.attach")
     \/ UNCHANGED <<attached, events, recordable>>
  /\ UNCHANGED <<parentVars, dir, sessionDoc, findings, exit, inbox, fixedVars,
                 signalsLeft>>

Fork(p, q) ==
  /\ status[p] \in {"running", "exiting"} /\ status[q] = "none"
  /\ q \in Descendants
  /\ status' = [status EXCEPT ![q] = "booting"]
  /\ UNCHANGED <<parentVars, storeVars, exit, inbox, attached, recordable,
                 fixedVars, signalsLeft>>

(* The collectors stay installed while exit listeners run.                 *)
CollectorEvent(p) ==
  /\ status[p] \in {"running", "exiting"} /\ attached[p]
  /\ Len(events) < MaxEvents
  /\ Record(p, "collector")
  /\ UNCHANGED <<parentVars, dir, sessionDoc, findings, status, exit, inbox,
                 attached, fixedVars, signalsLeft>>

(* The exit listener of the hook is the first of the process; those of the *)
(* application follow before the process is gone.                          *)
MayExit(p) == status[p] = "running"

ExitListener(p) ==
  /\ MayExit(p)
  /\ status' = [status EXCEPT ![p] = "exiting"]
  /\ IF attached[p] THEN Record(p, "probe.detach")
                    ELSE UNCHANGED <<events, recordable>>
  /\ UNCHANGED <<parentVars, dir, sessionDoc, findings, exit, inbox, attached,
                 fixedVars, signalsLeft>>

Dies(p, how) ==
  /\ status' = [status EXCEPT ![p] = "dead"]
  /\ exit' = [exit EXCEPT ![p] = how]
  /\ inbox' = [inbox EXCEPT ![p] = {}]
  /\ UNCHANGED <<parentVars, storeVars, attached, recordable, fixedVars,
                 signalsLeft>>

(* A process that fails while it boots has run no exit listener.           *)
ExitWithCode(p) ==
  /\ status[p] \in {"booting", "exiting"}
  /\ \E code \in AppCodes : Dies(p, [signal |-> "null", code |-> code])

(* The hook installs no signal handlers: the disposition is the app's own. *)
DieOfSignal(p) ==
  /\ status[p] \in Alive
  /\ \E signal \in inbox[p] : Dies(p, [signal |-> signal, code |-> 0])

IgnoreSignal(p) ==
  /\ status[p] \in Alive
  /\ \E signal \in inbox[p] \ {"SIGKILL"} :
       inbox' = [inbox EXCEPT ![p] = @ \ {signal}]
  /\ UNCHANGED <<parentVars, storeVars, status, exit, attached, recordable,
                 fixedVars, signalsLeft>>

-----------------------------------------------------------------------------
(* Signals from outside. *)

(* Without a listener SIGINT and SIGTERM end the parent.                   *)
ParentReceives(signal) ==
  \/ /\ listening
     /\ parentInbox' = parentInbox \cup {signal}
     /\ UNCHANGED pc
  \/ /\ ~listening
     /\ pc' = "killed"
     /\ UNCHANGED parentInbox

SignalParent(signal) ==
  /\ pc \notin Ended /\ signalsLeft > 0
  /\ signalsLeft' = signalsLeft - 1
  /\ ParentReceives(signal)
  /\ UNCHANGED <<result, probeSignal, listening, timers, elapsed, handle,
                 storeVars, procVars, fixedVars>>

(* Ctrl-C goes to the whole foreground process group.                      *)
TerminalInterrupt ==
  /\ pc \notin Ended /\ signalsLeft > 0
  /\ signalsLeft' = signalsLeft - 1
  /\ ParentReceives("SIGINT")
  /\ inbox' = [p \in Procs |-> IF status[p] \in Alive
                                 THEN inbox[p] \cup {"SIGINT"} ELSE inbox[p]]
  /\ UNCHANGED <<result, probeSignal, listening, timers, elapsed, handle,
                 storeVars, status, exit, attached, recordable, fixedVars>>

KillParent ==
  /\ pc \notin Ended /\ signalsLeft > 0
  /\ signalsLeft' = signalsLeft - 1
  /\ pc' = "killed"
  /\ UNCHANGED <<result, probeSignal, parentInbox, listening, timers, elapsed,
                 handle, storeVars, procVars, fixedVars>>

(* Nothing runs any more. *)
Terminated ==
  /\ pc \in Ended
  /\ \A p \in Procs : status[p] \notin Alive
  /\ UNCHANGED vars

Setup    == RejectUsage \/ CreateSession \/ Spawn \/ SpawnError \/ SpawnThrow
            \/ InstallHandlers
Loop     == \/ \E signal \in ProbeSignals : Forward(signal)
            \/ \E i \in DOMAIN Escalation : TimerFires(i)
            \/ OnExit \/ ProcessExit
Process  == \E p \in Procs :
              \/ Boot(p) \/ CollectorEvent(p) \/ ExitListener(p)
              \/ ExitWithCode(p) \/ DieOfSignal(p) \/ IgnoreSignal(p)
              \/ \E q \in Procs : Fork(p, q)
Outside  == \/ \E signal \in ProbeSignals : SignalParent(signal)
            \/ TerminalInterrupt \/ KillParent

Next == Setup \/ Loop \/ Tick \/ Process \/ Outside \/ Terminated

Spec == Init /\ [][Next]_vars

(* The parent's event loop and the clock do not stop, and the kernel       *)
(* delivers a SIGKILL.  Nothing is assumed of the application.             *)
KillDelivered == "SIGKILL" \in inbox[Child] /\ DieOfSignal(Child)
FairSpec == /\ Spec
            /\ WF_vars(Setup)
            /\ WF_vars(Loop)
            /\ WF_vars(Tick)
            /\ WF_vars(KillDelivered)
-----------------------------------------------------------------------------
(* Properties *)

(* Every variable keeps the shape the code gives it. *)
TypeOK ==
  /\ pc \in ParentStates
  /\ result \in Nat \cup {NoResult}
  /\ probeSignal \in ProbeSignals \cup {"null"}
  /\ parentInbox \subseteq ProbeSignals
  /\ listening \in BOOLEAN
  /\ timers \subseteq DOMAIN Escalation
  /\ elapsed \in Nat
  /\ handle \in BOOLEAN
  /\ dir \in DirStates
  /\ events \in Seq(EventLine)
  /\ sessionDoc \in Exits \cup {NoExit}
  /\ findings \in Nat \cup {NoCount}
  /\ status \in [Procs -> ProcStates]
  /\ exit \in [Procs -> Exits \cup {NoExit}]
  /\ inbox \in [Procs -> SUBSET Signals]
  /\ attached \in [Procs -> BOOLEAN]
  /\ recordable \in [Procs -> BOOLEAN]
  /\ duration \in Durations
  /\ mayKill \in Permissions
  /\ signalsLeft \in 0 .. MaxSignals

(* How a process ended is known exactly for the dead, and runProbe has no  *)
(* child before it spawns one.                                             *)
EndKnown ==
  /\ \A p \in Procs : status[p] = "dead" <=> exit[p] # NoExit
  /\ pc \in {"start", "created"} => status[Child] = "none"

(* The type invariant in the form that is inductive. *)
TypeInv == TypeOK /\ EndKnown

(* runner.ts:103 "finalizes the session directory on every path": once the *)
(* promise of a session that had a child is resolved, the child is dead    *)
(* and session.json, in the directory, says how it ended.                  *)
FinalizedOnEveryPath ==
  result # NoResult /\ status[Child] # "none" =>
    /\ status[Child] = "dead"
    /\ dir = "session"
    /\ sessionDoc = exit[Child]

(* runner.ts:103 "Usage and environment failures are loud, exit 2, and     *)
(* leave no session directory behind": a probe that started no child ends  *)
(* with 2 and without a directory. A probe that answered holds nothing     *)
(* that keeps its process alive or that could still signal a process.      *)
NothingLeftOver ==
  /\ pc \in {"ended", "crashed"} /\ status[Child] = "none" =>
       result = 2 /\ dir \in {"none", "removed"}
  /\ result # NoResult => timers = {} /\ ~listening /\ parentInbox = {}

(* A probe that exits 0 saw its child exit 0 on its own, forwarded nothing *)
(* and left a session.json that says the same: neither a failed analysis   *)
(* nor a late timer nor a signal turns a failure into a success.           *)
GreenMeansGreen ==
  result = 0 =>
    /\ exit[Child] = [signal |-> "null", code |-> 0]
    /\ sessionDoc = exit[Child]
    /\ probeSignal = "null"

(* Escalation (spec 018 AC-7): no signal before --duration has passed, and *)
(* SIGTERM and SIGKILL only after the gentler signals, a grace apart.      *)
EscalationInOrder ==
  pc = "running" /\ handle /\ result = NoResult /\ duration # 0 =>
    \A i \in DOMAIN Escalation \ timers :
      /\ elapsed >= Nominal(i)
      /\ \A j \in 1 .. i : j \notin timers

(* findings.json is computed from a prefix of events.ndjson that holds     *)
(* every line of the direct child; lines of descendants that outlive it    *)
(* may follow (spec 019: they are not waited for).                         *)
FindingsCoverChild ==
  findings # NoCount =>
    /\ findings <= Len(events)
    /\ \A i \in findings + 1 .. Len(events) : events[i].pid # Child

(* events.ndjson only grows: what a killed process recorded is never lost  *)
(* while the directory exists, what the child recorded is analysed, and    *)
(* session.json is never rewritten.                                        *)
RecordsAreKept ==
  [][ /\ FindingsCoverChild'
      /\ dir' = "session" /\ dir = "session" =>
           /\ Len(events') >= Len(events)
           /\ SubSeq(events', 1, Len(events)) = events
           /\ sessionDoc # NoExit => UNCHANGED <<sessionDoc, findings>> ]_vars

(* A session with --duration ends whatever the application does with       *)
(* SIGINT and SIGTERM, and once the child is dead a probe that is not      *)
(* killed answers.                                                         *)
SessionsEnd ==
  /\ (pc = "running" /\ duration # 0 /\ mayKill) ~> pc \in Ended
  /\ (pc = "running" /\ status[Child] = "dead") ~>
       (result # NoResult \/ pc = "killed")

-----------------------------------------------------------------------------
(* The session as its caller sees it. *)

ExitCode == [how \in Exits |->
  IF how.signal # "null" THEN signalExitCode(how.signal) ELSE how.code]

Phase ==
  IF result # NoResult THEN "closed"
  ELSE IF pc = "killed" THEN "aborted"
  ELSE IF status[Child] # "none" THEN "open" ELSE "idle"

Contract == INSTANCE ProbeContract WITH
  EndCode       <- ExitCode,
  NoEnd         <- NoExit,
  SignalAnswers <- {signalExitCode(signal) : signal \in ProbeSignals},
  NoAnswer      <- NoResult,
  phase         <- Phase,
  childEnd      <- exit[Child],
  record        <- sessionDoc,
  answer        <- result

(* The session implements the contract, stutters included. *)
ImplementsContract == Contract!Spec
-----------------------------------------------------------------------------
(* The inductive invariant the proofs rest on (ProbeSessionProofs). *)

(* Where the parent is determines what exists of the session, as long as   *)
(* it may signal its child and session.json can be written.                *)
SessionInv ==
  /\ pc \in {"start", "created"} => result = NoResult
  /\ pc \in {"created", "spawned"} => dir = "session"
  /\ pc = "start" => dir = "none"
  /\ pc = "spawned" => handle
  /\ handle => result = NoResult /\ status[Child] # "none" /\ dir = "session"
  /\ result = NoResult => sessionDoc = NoExit
  /\ pc = "running" /\ ~handle => result # NoResult /\ status[Child] # "none"
  /\ status[Child] # "none" /\ pc \notin {"running", "spawned"} =>
       pc \in {"ended", "killed"}
  /\ FinalizedOnEveryPath

(* Before the listeners there is no answer and nothing armed, and what is  *)
(* written once - the answer 0, session.json, findings.json - is written   *)
(* when node lets go of a dead child, after which the parent only waits.   *)
BeforeLoop == {"start", "created", "spawned"}
Quiet      == timers = {} /\ ~listening /\ parentInbox = {}
Unwritten  == sessionDoc = NoExit /\ findings = NoCount

AnswerInv ==
  /\ pc \in BeforeLoop => result = NoResult /\ Quiet /\ Unwritten
  /\ result # NoResult => Quiet
  /\ result = 0 \/ ~Unwritten =>
       result # NoResult /\ ~handle /\ status[Child] = "dead"
  /\ GreenMeansGreen
  /\ FindingsCoverChild

(* A child is missing only before it was spawned, or when it could not be. *)
UnopenedInv ==
  /\ pc = "start" => dir = "none"
  /\ pc \in {"spawned", "running"} => status[Child] # "none"
  /\ pc \in {"ended", "crashed"} /\ status[Child] = "none" =>
       result = 2 /\ dir \in {"none", "removed"}
=============================================================================
