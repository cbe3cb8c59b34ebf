------------------------- MODULE ProbeSessionProofs -------------------------
(***************************************************************************)
(* Proofs about ProbeSession, for any set of descendants, any durations    *)
(* and bounds.                                                             *)
(***************************************************************************)
EXTENDS ProbeSession, TLAPS

(* The answers of the probe are natural numbers. *)
LEMMA SignalExitCodeType == \A s \in Signals : signalExitCode(s) \in Nat
  BY DEF signalExitCode, SignalNumber, Signals, ProbeSignals

LEMMA ExitsType ==
  \A e \in Exits : e.signal \in Signals \cup {"null"} /\ e.code \in Nat
  <1>1. AppCodes \subseteq Nat
    BY SessionAssumption
  <1>2. \A e \in [signal : {"null"}, code : AppCodes] :
          e.signal = "null" /\ e.code \in Nat
    BY <1>1
  <1>3. \A e \in [signal : Signals, code : {0}] :
          e.signal \in Signals /\ e.code \in Nat
    OBVIOUS
  <1>. QED  BY <1>2, <1>3 DEF Exits

LEMMA ExitResultType ==
  ASSUME probeSignal \in ProbeSignals \cup {"null"}, exit[Child] \in Exits
  PROVE  ExitResult \in Nat
  <1>0. exit[Child].signal \in Signals \cup {"null"} /\ exit[Child].code \in Nat
    BY ExitsType
  <1>1. CASE probeSignal # "null"
    BY <1>1, SignalExitCodeType DEF ExitResult, Signals
  <1>2. CASE probeSignal = "null" /\ exit[Child].signal # "null"
    BY <1>0, <1>2, SignalExitCodeType DEF ExitResult
  <1>3. CASE probeSignal = "null" /\ exit[Child].signal = "null"
    BY <1>0, <1>3 DEF ExitResult
  <1>. QED  BY <1>1, <1>2, <1>3

LEMMA EmptyEvents == <<>> \in Seq(EventLine)
  OBVIOUS

LEMMA ChildProc == Child \in Procs /\ \A q \in Descendants : q # Child
  BY SessionAssumption DEF Procs

(***************************************************************************)
(* Type correctness, together with EndKnown.                               *)
(***************************************************************************)
LEMMA TypeInvInit == Init => TypeInv
  <1>1. ASSUME Init PROVE TypeOK
    <2>. USE <1>1 DEF Init
    <2>1. /\ pc \in ParentStates /\ probeSignal \in ProbeSignals \cup {"null"}
          /\ dir \in DirStates /\ status \in [Procs -> ProcStates]
      BY DEF ParentStates, ProbeSignals, DirStates, ProcStates
    <2>2. inbox \in [Procs -> SUBSET Signals] /\ timers \subseteq DOMAIN Escalation
      OBVIOUS
    <2>3. signalsLeft \in 0 .. MaxSignals
      BY SessionAssumption
    <2>4. events \in Seq(EventLine)
      OBVIOUS
    <2>. QED  BY <2>1, <2>2, <2>3, <2>4 DEF TypeOK
  <1>2. ASSUME Init PROVE EndKnown
    BY <1>2, ChildProc DEF Init, EndKnown
  <1>. QED  BY <1>1, <1>2 DEF TypeInv

LEMMA EscalationType == /\ Escalation \in [1 .. 3 -> Signals]
                        /\ DOMAIN Escalation = 1 .. 3
  BY DEF Escalation, Signals, ProbeSignals

(* The helpers the actions share. *)
LEMMA SendType ==
  ASSUME TypeOK, NEW signal \in Signals, SendToChild(signal)
  PROVE  inbox' \in [Procs -> SUBSET Signals]
  BY DEF SendToChild, TypeOK, Procs

LEMMA OnErrorType ==
  OnError => /\ result' \in Nat \cup {NoResult} /\ dir' \in DirStates
             /\ events' \in Seq(EventLine)
             /\ timers' \subseteq DOMAIN Escalation
             /\ parentInbox' \subseteq ProbeSignals /\ listening' \in BOOLEAN
  <1>. SUFFICES ASSUME OnError PROVE
                /\ result' \in Nat \cup {NoResult} /\ dir' \in DirStates
                /\ events' \in Seq(EventLine)
                /\ timers' \subseteq DOMAIN Escalation
                /\ parentInbox' \subseteq ProbeSignals /\ listening' \in BOOLEAN
    OBVIOUS
  <1>1. events' = <<>> /\ dir' = "removed" /\ result' = 2 /\ timers' = {}
        /\ listening' = FALSE /\ parentInbox' = {}
    BY DEF OnError, ClearTimers, StopListening, RemoveSession
  <1>2. dir' \in DirStates
    BY <1>1 DEF DirStates
  <1>3. events' \in Seq(EventLine)
    BY <1>1, EmptyEvents
  <1>. QED  BY <1>1, <1>2, <1>3

LEMMA RecordType ==
  ASSUME TypeOK, NEW p \in Procs, NEW type \in EventTypes, Record(p, type)
  PROVE  /\ events' \in Seq(EventLine)
         /\ recordable' \in [Procs -> BOOLEAN]
  <1>1. [type |-> type, pid |-> p] \in EventLine
    BY DEF EventLine
  <1>2. events \in Seq(EventLine) /\ recordable \in [Procs -> BOOLEAN]
    BY DEF TypeOK
  <1>3. CASE events' = Append(events, [type |-> type, pid |-> p])
             /\ UNCHANGED recordable
    BY <1>1, <1>2, <1>3
  <1>4. CASE recordable' = [recordable EXCEPT ![p] = FALSE]
             /\ UNCHANGED events
    BY <1>2, <1>4
  <1>5. CASE UNCHANGED <<events, recordable>>
    BY <1>2, <1>5
  <1>. QED  BY <1>3, <1>4, <1>5 DEF Record, AppendLine

LEMMA DiesType ==
  ASSUME TypeInv, NEW p \in Procs, NEW how \in Exits, Dies(p, how),
         status[p] # "none"
  PROVE  TypeInv'
  <1>1. how # NoExit
    BY ExitsType DEF NoExit
  <1>. QED
    BY <1>1, ChildProc DEF TypeInv, TypeOK, EndKnown, Dies, ProcStates,
       parentVars, storeVars, procVars, fixedVars

(* One lemma per group of actions: each action keeps TypeInv. *)
LEMMA TypeInvSetup == TypeInv /\ Setup => TypeInv'
  <1>. SUFFICES ASSUME TypeInv, Setup PROVE TypeInv'
    OBVIOUS
  <1>. USE DEF TypeInv, TypeOK, EndKnown, ParentStates, parentVars, storeVars,
               procVars, fixedVars
  <1>1. CASE RejectUsage
    BY <1>1 DEF RejectUsage
  <1>2. CASE CreateSession
    BY <1>2 DEF CreateSession, DirStates
  <1>3. CASE Spawn
    <2>1. status[Child] = "none"
      BY <1>3 DEF Spawn
    <2>. QED  BY <1>3, <2>1, ChildProc DEF Spawn, ProcStates
  <1>4. CASE SpawnError
    BY <1>4, EmptyEvents DEF SpawnError, RemoveSession, DirStates
  <1>5. CASE SpawnThrow
    BY <1>5 DEF SpawnThrow
  <1>6. CASE InstallHandlers
    BY <1>6 DEF InstallHandlers
  <1>. QED  BY <1>1, <1>2, <1>3, <1>4, <1>5, <1>6 DEF Setup

LEMMA TypeInvLoop == TypeInv /\ Loop => TypeInv'
  <1>. SUFFICES ASSUME TypeInv, Loop PROVE TypeInv'
    OBVIOUS
  <1>. USE DEF TypeInv, TypeOK, EndKnown, ParentStates, parentVars, storeVars,
               procVars, fixedVars
  <1>1. ASSUME NEW signal \in ProbeSignals, Forward(signal) PROVE TypeInv'
    <2>1. signal \in Signals
      BY DEF Signals
    <2>2. inbox' \in [Procs -> SUBSET Signals]
      BY <1>1, <2>1, SendType DEF Forward
    <2>3. /\ result' \in Nat \cup {NoResult} /\ dir' \in DirStates
          /\ events' \in Seq(EventLine)
          /\ timers' \subseteq DOMAIN Escalation
          /\ parentInbox' \subseteq ProbeSignals /\ listening' \in BOOLEAN
      BY <1>1, OnErrorType DEF Forward
    <2>. QED  BY <1>1, <2>2, <2>3 DEF Forward
  <1>2. ASSUME NEW i \in DOMAIN Escalation, TimerFires(i) PROVE TypeInv'
    <2>1. Escalation[i] \in Signals
      BY EscalationType
    <2>2. inbox' \in [Procs -> SUBSET Signals]
      BY <1>2, <2>1, SendType DEF TimerFires
    <2>3. /\ result' \in Nat \cup {NoResult} /\ dir' \in DirStates
          /\ events' \in Seq(EventLine)
          /\ timers' \subseteq DOMAIN Escalation
          /\ parentInbox' \subseteq ProbeSignals /\ listening' \in BOOLEAN
      BY <1>2, OnErrorType DEF TimerFires
    <2>. QED  BY <1>2, <2>2, <2>3 DEF TimerFires
  <1>3. CASE OnExit
    <2>1. exit[Child] \in Exits
      BY <1>3 DEF OnExit, ChildGone, Procs
    <2>2. ExitResult \in Nat
      BY <2>1, ExitResultType
    <2>3. /\ pc' \in ParentStates /\ result' \in Nat \cup {NoResult}
          /\ sessionDoc' \in Exits \cup {NoExit}
          /\ findings' \in Nat \cup {NoCount}
      BY <1>3, <2>1, <2>2 DEF OnExit, ChildGone, Settle, WriteSessionDoc, FinalizeFindings
    <2>. QED  BY <1>3, <2>3 DEF OnExit, ClearTimers, StopListening
  <1>4. CASE ProcessExit
    BY <1>4 DEF ProcessExit
  <1>. QED  BY <1>1, <1>2, <1>3, <1>4 DEF Loop

LEMMA TypeInvProcess ==
  ASSUME TypeInv, NEW p \in Procs
  PROVE  /\ Boot(p) => TypeInv'
         /\ CollectorEvent(p) => TypeInv'
         /\ ExitListener(p) => TypeInv'
         /\ ExitWithCode(p) => TypeInv'
         /\ DieOfSignal(p) => TypeInv'
         /\ IgnoreSignal(p) => TypeInv'
         /\ \A q \in Procs : Fork(p, q) => TypeInv'
  <1>. USE DEF TypeInv, TypeOK, EndKnown, parentVars, storeVars, procVars,
               fixedVars
  <1>1. ASSUME Boot(p) PROVE TypeInv'
    <2>1. /\ events' \in Seq(EventLine) /\ recordable' \in [Procs -> BOOLEAN]
          /\ attached' \in [Procs -> BOOLEAN]
      BY <1>1, RecordType DEF Boot, EventTypes
    <2>. QED  BY <1>1, <2>1, ChildProc DEF Boot, ProcStates
  <1>2. ASSUME CollectorEvent(p) PROVE TypeInv'
    <2>1. /\ events' \in Seq(EventLine) /\ recordable' \in [Procs -> BOOLEAN]
      BY <1>2, RecordType DEF CollectorEvent, EventTypes
    <2>. QED  BY <1>2, <2>1 DEF CollectorEvent
  <1>3. ASSUME ExitListener(p) PROVE TypeInv'
    <2>1. /\ events' \in Seq(EventLine) /\ recordable' \in [Procs -> BOOLEAN]
      BY <1>3, RecordType DEF ExitListener, EventTypes
    <2>. QED  BY <1>3, <2>1, ChildProc DEF ExitListener, MayExit, ProcStates
  <1>4. ASSUME ExitWithCode(p) PROVE TypeInv'
    <2>1. PICK code \in AppCodes : Dies(p, [signal |-> "null", code |-> code])
      BY <1>4 DEF ExitWithCode
    <2>2. [signal |-> "null", code |-> code] \in Exits
      BY DEF Exits
    <2>. QED  BY <1>4, <2>1, <2>2, DiesType DEF ExitWithCode
  <1>5. ASSUME DieOfSignal(p) PROVE TypeInv'
    <2>1. PICK signal \in inbox[p] : Dies(p, [signal |-> signal, code |-> 0])
      BY <1>5 DEF DieOfSignal
    <2>2. signal \in Signals
      OBVIOUS
    <2>3. [signal |-> signal, code |-> 0] \in Exits
      BY <2>2 DEF Exits
    <2>. QED  BY <1>5, <2>1, <2>3, DiesType DEF DieOfSignal, Alive
  <1>6. ASSUME IgnoreSignal(p) PROVE TypeInv'
    BY <1>6 DEF IgnoreSignal
  <1>7. ASSUME NEW q \in Procs, Fork(p, q) PROVE TypeInv'
    BY <1>7, ChildProc DEF Fork, ProcStates
  <1>. QED  BY <1>1, <1>2, <1>3, <1>4, <1>5, <1>6, <1>7

LEMMA TypeInvOutside == TypeInv /\ Outside => TypeInv'
  <1>. SUFFICES ASSUME TypeInv, Outside PROVE TypeInv'
    OBVIOUS
  <1>. USE SessionAssumption
       DEF TypeInv, TypeOK, EndKnown, ParentStates, ParentReceives, parentVars,
           storeVars, procVars, fixedVars
  <1>1. ASSUME NEW signal \in ProbeSignals, SignalParent(signal) PROVE TypeInv'
    BY <1>1 DEF SignalParent
  <1>2. CASE TerminalInterrupt
    <2>1. "SIGINT" \in ProbeSignals /\ "SIGINT" \in Signals
      BY DEF ProbeSignals, Signals
    <2>2. inbox' \in [Procs -> SUBSET Signals]
      BY <1>2, <2>1 DEF TerminalInterrupt
    <2>. QED  BY <1>2, <2>1, <2>2 DEF TerminalInterrupt
  <1>3. CASE KillParent
    BY <1>3 DEF KillParent
  <1>. QED  BY <1>1, <1>2, <1>3 DEF Outside

LEMMA TypeInvNext == TypeInv /\ [Next]_vars => TypeInv'
  <1>. SUFFICES ASSUME TypeInv, [Next]_vars PROVE TypeInv'
    OBVIOUS
  <1>1. CASE Tick
    BY <1>1 DEF Tick, TypeInv, TypeOK, EndKnown, storeVars, procVars, fixedVars
  <1>2. CASE Process
    BY <1>2, TypeInvProcess DEF Process
  <1>3. CASE UNCHANGED vars
    BY <1>3 DEF vars, parentVars, storeVars, procVars, fixedVars, TypeInv,
                TypeOK, EndKnown
  <1>4. CASE Terminated
    BY <1>3, <1>4 DEF Terminated
  <1>. QED  BY <1>1, <1>2, <1>3, <1>4, TypeInvSetup, TypeInvLoop,
               TypeInvOutside DEF Next

(* Every variable of a session keeps its type, whatever fails and whoever  *)
(* is signalled (runner.ts, session.ts, hook.ts).                          *)
THEOREM TypeCorrect == Spec => []TypeInv
  BY TypeInvInit, TypeInvNext, PTL DEF Spec

(***************************************************************************)
(* Finalization.  SessionInv ties where the parent is to what exists of    *)
(* the session.  FinalizedOnEveryPath alone is not inductive: that a       *)
(* session is not answered while node holds the child's handle, and that   *)
(* its directory is there until then, come from the other conjuncts.       *)
(***************************************************************************)
SignalsGetThrough == Permissions \subseteq {TRUE}
SessionWritable   == "session.json" \notin Faults

LEMMA SessionInvInit == Init => SessionInv
  BY ChildProc DEF Init, SessionInv, FinalizedOnEveryPath

LEMMA SessionInvSetup == TypeInv /\ SessionInv /\ Setup => SessionInv'
  <1>. SUFFICES ASSUME TypeInv, SessionInv, Setup PROVE SessionInv'
    OBVIOUS
  <1>. USE ChildProc
       DEF SessionInv, FinalizedOnEveryPath, NoResult, parentVars, storeVars,
           procVars, fixedVars
  <1>0. /\ pc \in {"start", "created"} => status[Child] = "none"
        /\ status \in [Procs -> ProcStates]
    BY DEF TypeInv, TypeOK, EndKnown
  <1>1. CASE RejectUsage
    BY <1>0, <1>1 DEF RejectUsage
  <1>2. CASE CreateSession
    BY <1>0, <1>2 DEF CreateSession
  <1>3. CASE Spawn
    BY <1>0, <1>3 DEF Spawn
  <1>4. CASE SpawnError
    BY <1>0, <1>4 DEF SpawnError
  <1>5. CASE SpawnThrow
    BY <1>0, <1>5 DEF SpawnThrow
  <1>6. CASE InstallHandlers
    BY <1>0, <1>6 DEF InstallHandlers
  <1>. QED  BY <1>1, <1>2, <1>3, <1>4, <1>5, <1>6 DEF Setup

LEMMA SessionInvLoop ==
  ASSUME SignalsGetThrough, SessionWritable, TypeInv, SessionInv, Loop
  PROVE  SessionInv'
  <1>. USE ChildProc
       DEF SessionInv, FinalizedOnEveryPath, parentVars, storeVars, procVars,
           fixedVars
  <1>0. mayKill = TRUE
    BY DEF TypeInv, TypeOK, SignalsGetThrough
  <1>1. ASSUME NEW signal \in ProbeSignals, Forward(signal) PROVE SessionInv'
    BY <1>0, <1>1 DEF Forward
  <1>2. ASSUME NEW i \in DOMAIN Escalation, TimerFires(i) PROVE SessionInv'
    BY <1>0, <1>2 DEF TimerFires
  <1>3. CASE OnExit
    <2>1. exit[Child] \in Exits
      BY <1>3 DEF OnExit, ChildGone, TypeInv, TypeOK, EndKnown
    <2>2. ExitResult # NoResult
      BY <2>1, ExitResultType DEF NoResult, TypeInv, TypeOK
    <2>3. result = NoResult /\ dir = "session"
      BY <1>3 DEF OnExit
    <2>. QED  BY <1>3, <2>2, <2>3 DEF OnExit, ChildGone, Settle, WriteSessionDoc,
                 SessionWritable
  <1>4. CASE ProcessExit
    BY <1>4 DEF ProcessExit
  <1>. QED  BY <1>1, <1>2, <1>3, <1>4 DEF Loop

LEMMA SessionInvProcess ==
  ASSUME TypeInv, SessionInv, Process
  PROVE  SessionInv'
  <1>. USE ChildProc
       DEF SessionInv, FinalizedOnEveryPath, TypeInv, TypeOK, parentVars, fixedVars
  <1>0. PICK p \in Procs :
          \/ Boot(p) \/ CollectorEvent(p) \/ ExitListener(p)
          \/ ExitWithCode(p) \/ DieOfSignal(p) \/ IgnoreSignal(p)
          \/ \E q \in Procs : Fork(p, q)
    BY DEF Process
  (* The parent and its files are untouched, and so are the dead.          *)
  <1>. DEFINE Untouched ==
         /\ UNCHANGED <<pc, result, handle, dir, sessionDoc>>
         /\ (status[Child] = "none") <=> (status'[Child] = "none")
         /\ status[Child] = "dead" =>
              status'[Child] = "dead" /\ exit'[Child] = exit[Child]
  <1>1. Untouched
    <2>1. CASE Boot(p)
      BY <2>1 DEF Boot
    <2>2. CASE CollectorEvent(p)
      BY <2>2 DEF CollectorEvent
    <2>3. CASE ExitListener(p)
      BY <2>3 DEF ExitListener, MayExit
    <2>4. CASE ExitWithCode(p)
      BY <2>4 DEF ExitWithCode, Dies, storeVars
    <2>5. CASE DieOfSignal(p)
      BY <2>5 DEF DieOfSignal, Dies, Alive, storeVars
    <2>6. CASE IgnoreSignal(p)
      BY <2>6 DEF IgnoreSignal, storeVars
    <2>7. ASSUME NEW q \in Procs, Fork(p, q) PROVE Untouched
      BY <2>7 DEF Fork, storeVars
    <2>. QED  BY <1>0, <2>1, <2>2, <2>3, <2>4, <2>5, <2>6, <2>7
  <1>. QED  BY <1>1

LEMMA SessionInvOutside ==
  ASSUME TypeInv, SessionInv, Outside
  PROVE  SessionInv'
  <1>. USE DEF SessionInv, FinalizedOnEveryPath, Ended, storeVars, procVars,
               ParentReceives
  <1>1. ASSUME NEW signal \in ProbeSignals, SignalParent(signal) PROVE SessionInv'
    BY <1>1 DEF SignalParent
  <1>2. CASE TerminalInterrupt
    BY <1>2 DEF TerminalInterrupt
  <1>3. CASE KillParent
    BY <1>3 DEF KillParent
  <1>. QED  BY <1>1, <1>2, <1>3 DEF Outside

LEMMA SessionInvNext ==
  ASSUME SignalsGetThrough, SessionWritable, TypeInv, SessionInv, [Next]_vars
  PROVE  SessionInv'
  <1>1. CASE Tick
    BY <1>1 DEF Tick, SessionInv, FinalizedOnEveryPath, storeVars, procVars
  <1>2. CASE UNCHANGED vars
    BY <1>2 DEF vars, parentVars, storeVars, procVars, SessionInv,
                FinalizedOnEveryPath
  <1>3. CASE Terminated
    BY <1>2, <1>3 DEF Terminated
  <1>. QED  BY <1>1, <1>2, <1>3, SessionInvSetup, SessionInvLoop,
               SessionInvProcess, SessionInvOutside DEF Next

(* runner.ts:103: when the probe may signal its child and session.json can *)
(* be written, an answered session is finalized.                           *)
THEOREM Finalized ==
  ASSUME SignalsGetThrough, SessionWritable
  PROVE  Spec => []FinalizedOnEveryPath
  <1>1. TypeInv /\ SessionInv /\ [Next]_vars => SessionInv'
    BY SessionInvNext
  <1>2. SessionInv => FinalizedOnEveryPath
    BY DEF SessionInv
  <1>. QED  BY <1>1, <1>2, SessionInvInit, TypeCorrect, PTL DEF Spec

(***************************************************************************)
(* What is answered and what is written.  GreenMeansGreen and the records  *)
(* rest on one invariant: the answer 0, session.json and findings.json are *)
(* written once, by the exit listener, when the child is dead; from then   *)
(* on no timer, no listener and no handle is left that could change them.  *)
(***************************************************************************)
StartFaultsHandled ==
  Faults \cap {"mkdtemp", "events.ndjson", "spawn throw"} = {}

(* A probe answers 0 only for a child that exited 0 and was sent nothing.  *)
LEMMA ZeroMeansExitedZero ==
  ASSUME probeSignal \in ProbeSignals \cup {"null"}, exit[Child] \in Exits,
         ExitResult = 0
  PROVE  probeSignal = "null" /\ exit[Child] = [signal |-> "null", code |-> 0]
  <1>1. \A s \in Signals : signalExitCode(s) # 0
    BY DEF signalExitCode, SignalNumber, Signals, ProbeSignals
  <1>2. probeSignal = "null"
    BY <1>1 DEF ExitResult, Signals
  <1>3. exit[Child].signal \in Signals \cup {"null"}
    BY ExitsType
  <1>4. exit[Child].signal = "null" /\ exit[Child].code = 0
    BY <1>1, <1>2, <1>3 DEF ExitResult
  <1>5. exit[Child] \in [signal : {"null"}, code : AppCodes]
    BY <1>4 DEF Exits, Signals, ProbeSignals
  <1>. QED  BY <1>2, <1>4, <1>5

LEMMA AnswerInvInit == Init => AnswerInv
  BY DEF Init, AnswerInv, BeforeLoop, Quiet, Unwritten, GreenMeansGreen,
     FindingsCoverChild, NoResult, NoCount

LEMMA AnswerInvSetup == TypeInv /\ AnswerInv /\ Setup => AnswerInv'
  <1>. SUFFICES ASSUME TypeInv, AnswerInv, Setup PROVE AnswerInv'
    OBVIOUS
  <1>. USE DEF AnswerInv, BeforeLoop, Quiet, Unwritten, GreenMeansGreen,
               FindingsCoverChild, NoResult, NoCount, storeVars, procVars
  <1>1. CASE RejectUsage
    BY <1>1 DEF RejectUsage
  <1>2. CASE CreateSession
    BY <1>2 DEF CreateSession
  <1>3. CASE Spawn
    BY <1>3 DEF Spawn
  <1>4. CASE SpawnError
    <2>1. /\ pc = "created" /\ result' = 2 /\ pc' = "ended"
          /\ UNCHANGED <<parentInbox, listening, timers, handle, sessionDoc, findings>>
      BY <1>4 DEF SpawnError
    <2>. QED  BY <2>1
  <1>5. CASE SpawnThrow
    <2>1. /\ pc = "created" /\ result' = 1 /\ pc' = "crashed"
          /\ UNCHANGED <<parentInbox, listening, timers, handle, sessionDoc, findings>>
      BY <1>5 DEF SpawnThrow
    <2>. QED  BY <2>1
  <1>6. CASE InstallHandlers
    BY <1>6 DEF InstallHandlers
  <1>. QED  BY <1>1, <1>2, <1>3, <1>4, <1>5, <1>6 DEF Setup

LEMMA AnswerInvLoop == TypeInv /\ AnswerInv /\ Loop => AnswerInv'
  <1>. SUFFICES ASSUME TypeInv, AnswerInv, Loop PROVE AnswerInv'
    OBVIOUS
  <1>. USE DEF BeforeLoop, Quiet, Unwritten, GreenMeansGreen,
               FindingsCoverChild, NoResult, NoCount, storeVars, procVars
  (* A failed kill is answered before anything is written.                 *)
  <1>0. ASSUME OnError, Unwritten, result = NoResult,
               pc = "running", UNCHANGED <<pc, sessionDoc, findings>>
        PROVE  AnswerInv'
    BY <1>0 DEF OnError, ClearTimers, StopListening, RemoveSession, AnswerInv
  <1>1. ASSUME NEW signal \in ProbeSignals, Forward(signal) PROVE AnswerInv'
    <2>1. listening /\ result = NoResult /\ Unwritten /\ pc = "running"
      BY <1>1 DEF Forward, AnswerInv
    <2>2. CASE mayKill
      BY <1>1, <2>1, <2>2, <1>0 DEF Forward, AnswerInv
    <2>3. CASE ~mayKill
      BY <1>0, <1>1, <2>1, <2>3 DEF Forward
    <2>. QED  BY <2>2, <2>3
  <1>2. ASSUME NEW i \in DOMAIN Escalation, TimerFires(i) PROVE AnswerInv'
    <2>1. timers # {} /\ result = NoResult /\ Unwritten /\ pc = "running"
      BY <1>2 DEF TimerFires, AnswerInv
    <2>2. CASE ~OnError
      BY <1>2, <2>1, <2>2 DEF TimerFires, AnswerInv
    <2>3. CASE OnError
      BY <1>0, <1>2, <2>1, <2>3 DEF TimerFires
    <2>. QED  BY <2>2, <2>3
  <1>3. CASE OnExit
    <2>1. /\ exit[Child] \in Exits /\ status[Child] = "dead" /\ handle
          /\ probeSignal \in ProbeSignals \cup {"null"}
          /\ result \in Nat \cup {-1} /\ events \in Seq(EventLine)
      BY <1>3 DEF OnExit, ChildGone, TypeInv, TypeOK, EndKnown, Procs
    <2>2. ExitResult \in Nat
      BY <2>1, ExitResultType
    <2>3. Unwritten /\ result # 0
      BY <2>1 DEF AnswerInv
    <2>4. /\ handle' = FALSE /\ timers' = {} /\ listening' = FALSE
          /\ parentInbox' = {} /\ pc = "running"
          /\ UNCHANGED <<probeSignal, status, exit, events>>
      BY <1>3 DEF OnExit, ClearTimers, StopListening
    <2>5. CASE /\ sessionDoc' = exit[Child]
               /\ \/ findings' = Len(events)
                  \/ UNCHANGED findings
               /\ result' = IF result = NoResult THEN ExitResult ELSE result
               /\ pc' = pc
      <3>1. result' \in Nat
        BY <2>1, <2>2, <2>5
      <3>2. GreenMeansGreen'
        BY <2>1, <2>3, <2>4, <2>5, ZeroMeansExitedZero
      <3>3. FindingsCoverChild'
        <4>1. Len(events) \in Nat /\ UNCHANGED events
          BY <2>1, <2>4
        <4>. QED  BY <4>1, <2>3, <2>5
      <3>. QED  BY <2>1, <2>4, <2>5, <3>1, <3>2, <3>3 DEF AnswerInv
    <2>6. CASE pc' = "crashed" /\ result' = 1 /\ UNCHANGED <<sessionDoc, findings>>
      BY <2>1, <2>3, <2>4, <2>6 DEF AnswerInv
    <2>. QED  BY <1>3, <2>5, <2>6 DEF OnExit, WriteSessionDoc, FinalizeFindings, Settle
  <1>4. CASE ProcessExit
    BY <1>4 DEF ProcessExit, AnswerInv
  <1>. QED  BY <1>1, <1>2, <1>3, <1>4 DEF Loop

(* What one instrumented process does to the file: it appends at most one  *)
(* line, of its own.                                                       *)
LEMMA ProcessAppends ==
  ASSUME TypeInv, NEW p \in Procs,
         \/ Boot(p) \/ CollectorEvent(p) \/ ExitListener(p)
         \/ ExitWithCode(p) \/ DieOfSignal(p) \/ IgnoreSignal(p)
         \/ \E q \in Procs : Fork(p, q)
  PROVE  /\ UNCHANGED <<parentVars, dir, sessionDoc, findings>>
         /\ \/ UNCHANGED events
            \/ /\ status[p] # "dead"
               /\ \E type \in EventTypes :
                    events' = Append(events, [type |-> type, pid |-> p])
         /\ status[Child] = "dead" => status'[Child] = "dead" /\ exit'[Child] = exit[Child]
         /\ (status[Child] = "none") <=> (status'[Child] = "none")
  <1>. USE ChildProc DEF TypeInv, TypeOK, fixedVars
  <1>0. ASSUME NEW type \in EventTypes, Record(p, type)
        PROVE  \/ UNCHANGED events
               \/ \E t \in EventTypes : events' = Append(events, [type |-> t, pid |-> p])
    BY <1>0 DEF Record, AppendLine
  <1>1. CASE Boot(p)
    BY <1>0, <1>1 DEF Boot, EventTypes
  <1>2. CASE CollectorEvent(p)
    BY <1>0, <1>2 DEF CollectorEvent, EventTypes
  <1>3. CASE ExitListener(p)
    BY <1>0, <1>3 DEF ExitListener, MayExit, EventTypes
  <1>4. CASE ExitWithCode(p)
    BY <1>4 DEF ExitWithCode, Dies, storeVars
  <1>5. CASE DieOfSignal(p)
    BY <1>5 DEF DieOfSignal, Dies, Alive, storeVars
  <1>6. CASE IgnoreSignal(p)
    BY <1>6 DEF IgnoreSignal, storeVars
  <1>7. ASSUME NEW q \in Procs, Fork(p, q)
        PROVE  /\ UNCHANGED <<parentVars, dir, sessionDoc, findings, events, exit>>
               /\ status[Child] = "dead" => status'[Child] = "dead"
               /\ (status[Child] = "none") <=> (status'[Child] = "none")
    BY <1>7 DEF Fork, storeVars
  <1>. QED  BY <1>1, <1>2, <1>3, <1>4, <1>5, <1>6, <1>7

LEMMA AnswerInvProcess == TypeInv /\ AnswerInv /\ Process => AnswerInv'
  <1>. SUFFICES ASSUME TypeInv, AnswerInv, Process PROVE AnswerInv'
    OBVIOUS
  <1>1. PICK p \in Procs :
          \/ Boot(p) \/ CollectorEvent(p) \/ ExitListener(p)
          \/ ExitWithCode(p) \/ DieOfSignal(p) \/ IgnoreSignal(p)
          \/ \E q \in Procs : Fork(p, q)
    BY DEF Process
  <1>2. /\ UNCHANGED <<parentVars, dir, sessionDoc, findings>>
        /\ \/ UNCHANGED events
           \/ /\ status[p] # "dead"
              /\ \E type \in EventTypes :
                   events' = Append(events, [type |-> type, pid |-> p])
        /\ status[Child] = "dead" => status'[Child] = "dead" /\ exit'[Child] = exit[Child]
    BY <1>1, ProcessAppends
  <1>3. FindingsCoverChild'
    <2>. SUFFICES ASSUME findings # NoCount PROVE FindingsCoverChild'
      BY <1>2 DEF FindingsCoverChild
    <2>1. status[Child] = "dead" /\ FindingsCoverChild
      BY DEF AnswerInv, Unwritten
    <2>2. findings \in Nat /\ events \in Seq(EventLine) /\ findings' = findings
      BY <1>2 DEF TypeInv, TypeOK
    <2>3. CASE UNCHANGED events
      BY <2>1, <2>2, <2>3 DEF FindingsCoverChild
    <2>4. ASSUME status[p] # "dead", NEW type \in EventTypes,
                 events' = Append(events, [type |-> type, pid |-> p])
          PROVE  FindingsCoverChild'
      <3>1. p # Child
        BY <2>1, <2>4
      <3>2. [type |-> type, pid |-> p] \in EventLine
        BY DEF EventLine
      <3>3. /\ Len(events') = Len(events) + 1 /\ Len(events) \in Nat
            /\ \A i \in 1 .. Len(events) : events'[i] = events[i]
            /\ events'[Len(events) + 1] = [type |-> type, pid |-> p]
        BY <2>2, <2>4, <3>2
      <3>. QED  BY <2>1, <2>2, <3>1, <3>3 DEF FindingsCoverChild
    <2>. QED  BY <1>2, <2>3, <2>4
  <1>. QED  BY <1>2, <1>3 DEF AnswerInv, BeforeLoop, Quiet, Unwritten,
               GreenMeansGreen, parentVars

LEMMA AnswerInvOutside == AnswerInv /\ Outside => AnswerInv'
  <1>. SUFFICES ASSUME AnswerInv, Outside PROVE AnswerInv'
    OBVIOUS
  <1>. USE DEF AnswerInv, BeforeLoop, Quiet, Unwritten, GreenMeansGreen,
               FindingsCoverChild, ParentReceives, storeVars, procVars
  <1>1. ASSUME NEW signal \in ProbeSignals, SignalParent(signal) PROVE AnswerInv'
    BY <1>1 DEF SignalParent
  <1>2. CASE TerminalInterrupt
    BY <1>2 DEF TerminalInterrupt
  <1>3. CASE KillParent
    BY <1>3 DEF KillParent
  <1>. QED  BY <1>1, <1>2, <1>3 DEF Outside

LEMMA AnswerInvNext == TypeInv /\ AnswerInv /\ [Next]_vars => AnswerInv'
  <1>. SUFFICES ASSUME TypeInv, AnswerInv, [Next]_vars PROVE AnswerInv'
    OBVIOUS
  <1>. USE DEF AnswerInv, BeforeLoop, Quiet, Unwritten, GreenMeansGreen,
               FindingsCoverChild, storeVars, procVars
  <1>1. CASE Tick
    BY <1>1 DEF Tick
  <1>2. CASE UNCHANGED vars
    BY <1>2 DEF vars, parentVars
  <1>3. CASE Terminated
    BY <1>2, <1>3 DEF Terminated
  <1>. QED  BY <1>1, <1>2, <1>3, AnswerInvSetup, AnswerInvLoop, AnswerInvProcess,
               AnswerInvOutside DEF Next

LEMMA AnswersInvariant == Spec => [](TypeInv /\ AnswerInv)
  BY AnswerInvInit, AnswerInvNext, TypeCorrect, PTL DEF Spec

(* Whatever fails, whoever is signalled: no failure becomes the answer 0   *)
(* (the exit and error listeners of runner.ts).                            *)
THEOREM Green == Spec => []GreenMeansGreen
  <1>1. AnswerInv => GreenMeansGreen
    BY DEF AnswerInv
  <1>. QED  BY <1>1, AnswersInvariant, PTL

(* The lines of a session while its directory is there.                    *)
LEMMA EventsGrow ==
  ASSUME TypeInv, AnswerInv, [Next]_vars, dir = "session", dir' = "session"
  PROVE  /\ Len(events') >= Len(events)
         /\ SubSeq(events', 1, Len(events)) = events
  <1>0. events \in Seq(EventLine)
    BY DEF TypeInv, TypeOK
  <1>1. CASE UNCHANGED events
    BY <1>0, <1>1
  <1>2. ASSUME NEW line \in EventLine, events' = Append(events, line)
        PROVE  /\ Len(events') >= Len(events)
               /\ SubSeq(events', 1, Len(events)) = events
    BY <1>0, <1>2
  <1>3. CASE Process
    <2>1. PICK p \in Procs :
            \/ Boot(p) \/ CollectorEvent(p) \/ ExitListener(p)
            \/ ExitWithCode(p) \/ DieOfSignal(p) \/ IgnoreSignal(p)
            \/ \E q \in Procs : Fork(p, q)
      BY <1>3 DEF Process
    <2>2. \A type \in EventTypes : [type |-> type, pid |-> p] \in EventLine
      BY DEF EventLine
    <2>. QED  BY <1>1, <1>2, <2>1, <2>2, ProcessAppends
  <1>4. CASE Setup
    BY <1>1, <1>4 DEF Setup, RejectUsage, CreateSession, Spawn, SpawnError,
       SpawnThrow, InstallHandlers, RemoveSession, storeVars
  <1>5. CASE Loop
    BY <1>1, <1>5 DEF Loop, Forward, TimerFires, OnError, OnExit, ProcessExit,
       RemoveSession, storeVars
  <1>6. CASE Tick \/ Outside \/ Terminated \/ UNCHANGED vars
    BY <1>1, <1>6 DEF Tick, Outside, SignalParent, TerminalInterrupt, KillParent,
       Terminated, vars, storeVars
  <1>. QED  BY <1>3, <1>4, <1>5, <1>6 DEF Next

LEMMA WrittenOnce ==
  ASSUME TypeInv, AnswerInv, [Next]_vars, sessionDoc # NoExit
  PROVE  UNCHANGED <<sessionDoc, findings>>
  <1>1. ~handle
    BY DEF AnswerInv, Unwritten
  <1>2. CASE Process
    BY <1>2, ProcessAppends DEF Process
  <1>3. CASE Setup
    BY <1>3 DEF Setup, RejectUsage, CreateSession, Spawn, SpawnError, SpawnThrow,
       InstallHandlers, storeVars
  <1>4. CASE Loop
    BY <1>1, <1>4 DEF Loop, Forward, TimerFires, OnExit, ProcessExit, storeVars
  <1>5. CASE Tick \/ Outside \/ Terminated \/ UNCHANGED vars
    BY <1>5 DEF Tick, Outside, SignalParent, TerminalInterrupt, KillParent,
       Terminated, vars, storeVars
  <1>. QED  BY <1>2, <1>3, <1>4, <1>5 DEF Next

(* No line is lost while the directory exists, every line of the child is  *)
(* analysed, and session.json stays (spec 018, spec 019).                  *)
THEOREM RecordsKept == Spec => RecordsAreKept
  <1>. DEFINE Kept ==
         /\ FindingsCoverChild'
         /\ dir' = "session" /\ dir = "session" =>
              /\ Len(events') >= Len(events)
              /\ SubSeq(events', 1, Len(events)) = events
              /\ sessionDoc # NoExit => UNCHANGED <<sessionDoc, findings>>
  <1>1. TypeInv /\ AnswerInv /\ [Next]_vars => Kept
    BY AnswerInvNext, EventsGrow, WrittenOnce DEF AnswerInv
  <1>2. TypeInv /\ AnswerInv /\ [Next]_vars => [Kept]_vars
    BY <1>1
  <1>. QED  BY <1>2, AnswersInvariant, PTL DEF Spec, RecordsAreKept

(***************************************************************************)
(* Nothing is left over when every fault before the listeners is one the   *)
(* code handles.                                                           *)
(***************************************************************************)
LEMMA UnopenedInvNext ==
  ASSUME StartFaultsHandled, TypeInv, UnopenedInv, [Next]_vars
  PROVE  UnopenedInv'
  <1>. USE DEF UnopenedInv
  <1>0. /\ pc \in {"start", "created"} => status[Child] = "none"
        /\ status \in [Procs -> ProcStates] /\ Child \in Procs
    BY ChildProc DEF TypeInv, TypeOK, EndKnown
  <1>1. CASE Setup
    <2>. USE DEF storeVars, procVars
    <2>1. CASE RejectUsage
      BY <2>1 DEF RejectUsage
    <2>2. CASE CreateSession
      BY <2>2 DEF CreateSession, StartFaultsHandled
    <2>3. CASE Spawn
      BY <1>0, <2>3 DEF Spawn
    <2>4. CASE SpawnError
      BY <2>4 DEF SpawnError, RemoveSession
    <2>5. CASE SpawnThrow
      BY <2>5 DEF SpawnThrow, StartFaultsHandled
    <2>6. CASE InstallHandlers
      BY <2>6 DEF InstallHandlers
    <2>. QED  BY <1>1, <2>1, <2>2, <2>3, <2>4, <2>5, <2>6 DEF Setup
  <1>2. CASE Loop
    BY <1>2 DEF Loop, Forward, TimerFires, OnExit, ProcessExit, procVars
  <1>3. CASE Process
    BY <1>3, ProcessAppends DEF Process, parentVars
  <1>4. CASE Outside
    BY <1>4 DEF Outside, SignalParent, TerminalInterrupt, KillParent,
       ParentReceives, Ended, storeVars, procVars
  <1>5. CASE Tick \/ Terminated \/ UNCHANGED vars
    BY <1>5 DEF Tick, Terminated, vars, parentVars, storeVars, procVars
  <1>. QED  BY <1>1, <1>2, <1>3, <1>4, <1>5 DEF Next

(* runner.ts:103: a probe without a child ends with 2 and no directory; an *)
(* answered one holds no timer and no listener, also when its child may    *)
(* not be signalled.                                                       *)
THEOREM NothingLeft ==
  ASSUME StartFaultsHandled
  PROVE  Spec => []NothingLeftOver
  <1>1. Init => UnopenedInv
    BY DEF Init, UnopenedInv
  <1>2. TypeInv /\ UnopenedInv /\ [Next]_vars => UnopenedInv'
    BY UnopenedInvNext
  <1>3. AnswerInv /\ UnopenedInv => NothingLeftOver
    BY DEF AnswerInv, UnopenedInv, NothingLeftOver, Quiet
  <1>. QED  BY <1>1, <1>2, <1>3, AnswersInvariant, PTL DEF Spec

(***************************************************************************)
(* Escalation.  EscalationInOrder is inductive given the types, as long as *)
(* no delay is beyond what setTimeout accepts.                             *)
(***************************************************************************)
DelaysFit ==
  \A d \in Durations : d + 2 * ESCALATION_STEP_MS <= TIMEOUT_MAX

LEMMA DueIsNominal ==
  ASSUME DelaysFit, TypeOK, duration # 0, NEW i \in DOMAIN Escalation
  PROVE  Nominal(i) \in Nat /\ Due(i) = Nominal(i)
  <1>1. /\ duration \in Nat \ {0} /\ ESCALATION_STEP_MS \in Nat \ {0}
        /\ TIMEOUT_MAX \in Nat
        /\ duration + 2 * ESCALATION_STEP_MS <= TIMEOUT_MAX
    BY SessionAssumption DEF TypeOK, DelaysFit
  <1>2. i \in {1, 2, 3}
    BY EscalationType
  <1>3. CASE i = 1
    BY <1>1, <1>3 DEF Nominal, Due, NodeDelay
  <1>4. CASE i = 2
    BY <1>1, <1>4 DEF Nominal, Due, NodeDelay
  <1>5. CASE i = 3
    BY <1>1, <1>5 DEF Nominal, Due, NodeDelay
  <1>. QED  BY <1>2, <1>3, <1>4, <1>5

(* A gentler signal is due strictly earlier. *)
LEMMA DueOrder ==
  ASSUME DelaysFit, TypeOK, duration # 0,
         NEW i \in DOMAIN Escalation, NEW j \in DOMAIN Escalation, j < i
  PROVE  Due(j) < Due(i)
  <1>1. /\ duration \in Nat /\ ESCALATION_STEP_MS \in Nat \ {0}
    BY SessionAssumption DEF TypeOK
  <1>2. \/ i = 2 /\ j = 1
        \/ i = 3 /\ j \in {1, 2}
    BY EscalationType
  <1>3. Nominal(j) < Nominal(i)
    BY <1>1, <1>2 DEF Nominal
  <1>. QED  BY <1>3, DueIsNominal

LEMMA EscalationStep ==
  ASSUME DelaysFit, TypeInv, EscalationInOrder, [Next]_vars
  PROVE  EscalationInOrder'
  <1>. SUFFICES ASSUME pc' = "running", handle', result' = NoResult,
                       duration' # 0, NEW i \in DOMAIN Escalation \ timers'
                PROVE  /\ elapsed' >= Nominal(i)'
                       /\ \A j \in 1 .. i : j \notin timers'
    BY DEF EscalationInOrder
  <1>1. TypeOK /\ Nominal(i)' = Nominal(i) /\ duration # 0
    BY DEF TypeInv, Nominal, Next, Setup, Loop, Process, Outside, Tick,
       RejectUsage, CreateSession, Spawn, SpawnError, SpawnThrow,
       InstallHandlers, Forward, TimerFires, OnExit, ProcessExit, Boot, Fork,
       CollectorEvent, ExitListener, ExitWithCode, DieOfSignal, Dies,
       IgnoreSignal, SignalParent, TerminalInterrupt, KillParent, Terminated,
       vars, fixedVars
  <1>2. Nominal(i) \in Nat /\ elapsed \in Nat
    BY <1>1, DueIsNominal DEF TypeOK
  (* Steps that keep the timers and the clock of a session that runs.      *)
  <1>. DEFINE Same == /\ pc = "running" /\ handle /\ result = NoResult
                      /\ timers' = timers /\ elapsed' = elapsed
  <1>3. CASE Same
    BY <1>1, <1>3 DEF EscalationInOrder
  <1>4. CASE Setup
    <2>1. CASE InstallHandlers
      BY <1>1, <2>1 DEF InstallHandlers, fixedVars
    <2>. QED  BY <1>4, <2>1 DEF Setup, RejectUsage, CreateSession, Spawn,
                 SpawnError, SpawnThrow
  <1>5. ASSUME NEW signal \in ProbeSignals, Forward(signal) PROVE Same
    BY <1>5 DEF Forward, OnError, NoResult
  <1>6. ASSUME NEW k \in DOMAIN Escalation, TimerFires(k)
        PROVE  elapsed' >= Nominal(i)' /\ \A j \in 1 .. i : j \notin timers'
    <2>1. /\ pc = "running" /\ handle /\ result = NoResult
          /\ timers' = timers \ {k} /\ elapsed' = elapsed /\ k \in timers
          /\ Due(k) <= elapsed
          /\ \A j \in timers \ {k} : Due(k) < Due(j) \/ (Due(k) = Due(j) /\ k < j)
      BY <1>6 DEF TimerFires, OnError, NoResult
    <2>2. CASE i \notin timers
      BY <1>1, <2>1, <2>2 DEF EscalationInOrder
    <2>3. CASE i = k
      <3>1. elapsed' >= Nominal(i)'
        BY <1>1, <1>2, <2>1, <2>3, DueIsNominal
      <3>2. ASSUME NEW j \in 1 .. i, j \in timers' PROVE FALSE
        <4>1. j \in DOMAIN Escalation /\ j # k /\ j \in timers
          BY <2>1, <2>3, <3>2, EscalationType
        <4>2. j < k /\ Due(j) < Due(k)
          BY <1>1, <2>3, <4>1, DueOrder, EscalationType
        <4>3. Due(j) \in Nat /\ Due(k) \in Nat
          BY <1>1, <4>1, DueIsNominal
        <4>. QED  BY <2>1, <4>1, <4>2, <4>3, EscalationType
      <3>. QED  BY <3>1, <3>2
    <2>. QED  BY <2>1, <2>2, <2>3
  <1>7. CASE OnExit
    BY <1>7 DEF OnExit
  <1>8. CASE ProcessExit
    BY <1>8 DEF ProcessExit
  <1>9. CASE Tick
    <2>1. /\ pc = "running" /\ handle /\ result = NoResult
          /\ timers' = timers /\ elapsed' = elapsed + 1
      BY <1>9 DEF Tick
    <2>. QED  BY <1>1, <1>2, <2>1 DEF EscalationInOrder
  <1>10. ASSUME Process PROVE Same
    <2>1. UNCHANGED parentVars
      BY <1>10 DEF Process, Boot, Fork, CollectorEvent, ExitListener,
         ExitWithCode, DieOfSignal, Dies, IgnoreSignal
    <2>. QED  BY <2>1 DEF parentVars
  <1>11. ASSUME Outside PROVE Same
    <2>1. CASE \E signal \in ProbeSignals : SignalParent(signal)
      BY <2>1 DEF SignalParent, ParentReceives
    <2>2. CASE TerminalInterrupt
      BY <2>2 DEF TerminalInterrupt, ParentReceives
    <2>3. CASE KillParent
      BY <2>3 DEF KillParent
    <2>. QED  BY <1>11, <2>1, <2>2, <2>3 DEF Outside
  <1>12. ASSUME Terminated \/ UNCHANGED vars PROVE Same
    <2>1. UNCHANGED <<parentVars>>
      BY <1>12 DEF Terminated, vars
    <2>. QED  BY <2>1 DEF parentVars
  <1>. QED  BY <1>3, <1>4, <1>5, <1>6, <1>7, <1>8, <1>9, <1>10, <1>11, <1>12
            DEF Next, Loop

(* spec 018 AC-7: for every duration whose delays fit in a timer no signal *)
(* of the escalation comes early or out of order.                          *)
THEOREM Escalates ==
  ASSUME DelaysFit
  PROVE  Spec => []EscalationInOrder
  <1>1. Init => EscalationInOrder
    BY DEF Init, EscalationInOrder
  <1>2. TypeInv /\ EscalationInOrder /\ [Next]_vars => EscalationInOrder'
    BY EscalationStep
  <1>. QED  BY <1>1, <1>2, TypeCorrect, PTL DEF Spec

(***************************************************************************)
(* The session implements ProbeContract.                                   *)
(***************************************************************************)
LEMMA ContractInit == Init => Contract!Init
  BY ChildProc DEF Init, Contract!Init, Phase

LEMMA ContractSetup ==
  ASSUME StartFaultsHandled, TypeInv, SessionInv, Setup
  PROVE  Contract!Next \/ UNCHANGED Contract!vars
  <1>. USE ChildProc
       DEF SessionInv, Phase, Contract!vars, NoResult, storeVars, procVars
  <1>0. /\ pc \in {"start", "created"} => status[Child] = "none"
        /\ status \in [Procs -> ProcStates]
    BY DEF TypeInv, TypeOK, EndKnown
  <1>1. CASE RejectUsage
    <2>1. Contract!Refuse
      BY <1>0, <1>1 DEF RejectUsage, Contract!Refuse
    <2>. QED  BY <2>1 DEF Contract!Next
  <1>2. CASE CreateSession
    BY <1>2 DEF CreateSession, StartFaultsHandled
  <1>3. CASE Spawn
    <2>1. Contract!Open
      BY <1>0, <1>3 DEF Spawn, Contract!Open
    <2>. QED  BY <2>1 DEF Contract!Next
  <1>4. CASE SpawnError
    <2>0. /\ pc = "created" /\ result' = 2 /\ result = NoResult
          /\ UNCHANGED <<exit, sessionDoc>> /\ status[Child] = "none"
      BY <1>0, <1>4 DEF SpawnError
    <2>1. Contract!Refuse
      BY <2>0 DEF Contract!Refuse
    <2>. QED  BY <2>1 DEF Contract!Next
  <1>5. CASE SpawnThrow
    BY <1>5 DEF SpawnThrow, StartFaultsHandled
  <1>6. CASE InstallHandlers
    BY <1>6 DEF InstallHandlers
  <1>. QED  BY <1>1, <1>2, <1>3, <1>4, <1>5, <1>6 DEF Setup

LEMMA ContractLoop ==
  ASSUME SignalsGetThrough, SessionWritable, TypeInv, SessionInv, Loop
  PROVE  Contract!Next \/ UNCHANGED Contract!vars
  <1>. USE DEF Phase, Contract!vars
  <1>0. mayKill = TRUE
    BY DEF TypeInv, TypeOK, SignalsGetThrough
  <1>1. ASSUME NEW signal \in ProbeSignals, Forward(signal)
        PROVE  UNCHANGED Contract!vars
    BY <1>0, <1>1 DEF Forward
  <1>2. ASSUME NEW i \in DOMAIN Escalation, TimerFires(i)
        PROVE  UNCHANGED Contract!vars
    BY <1>0, <1>2 DEF TimerFires
  <1>3. CASE OnExit
    <2>1. /\ exit[Child] \in Exits /\ exit[Child] # NoExit
          /\ result = NoResult /\ dir = "session" /\ pc = "running"
          /\ status[Child] = "dead"
      BY <1>3, ChildProc DEF OnExit, ChildGone, TypeInv, TypeOK, EndKnown, SessionInv
    <2>2. /\ result' = ExitResult /\ sessionDoc' = exit[Child]
          /\ UNCHANGED <<status, exit>>
      BY <1>3, <2>1 DEF OnExit, ChildGone, Settle, WriteSessionDoc, SessionWritable, procVars
    <2>3. ExitResult # NoResult
      BY <2>1, ExitResultType DEF NoResult, TypeInv, TypeOK
    <2>4. ExitResult \in {ExitCode[exit[Child]]} \cup
                         {signalExitCode(signal) : signal \in ProbeSignals}
      <3>1. CASE probeSignal # "null"
        BY <3>1 DEF ExitResult, TypeInv, TypeOK
      <3>2. CASE probeSignal = "null"
        BY <2>1, <3>2 DEF ExitResult, ExitCode
      <3>. QED  BY <3>1, <3>2
    <2>5. Contract!Answer
      BY <2>1, <2>2, <2>3, <2>4 DEF Contract!Answer
    <2>. QED  BY <2>5 DEF Contract!Next
  <1>4. CASE ProcessExit
    BY <1>4 DEF ProcessExit, SessionInv, storeVars, procVars
  <1>. QED  BY <1>1, <1>2, <1>3, <1>4 DEF Loop

LEMMA ContractProcess ==
  ASSUME TypeInv, SessionInv, Process
  PROVE  Contract!Next \/ UNCHANGED Contract!vars
  <1>. USE ChildProc DEF TypeInv, TypeOK, parentVars, storeVars
  <1>0. PICK p \in Procs :
          \/ Boot(p) \/ CollectorEvent(p) \/ ExitListener(p)
          \/ ExitWithCode(p) \/ DieOfSignal(p) \/ IgnoreSignal(p)
          \/ \E q \in Procs : Fork(p, q)
    BY DEF Process
  <1>. DEFINE Same == /\ UNCHANGED <<pc, result, sessionDoc>>
                      /\ (status[Child] = "none") <=> (status'[Child] = "none")
  <1>1. ASSUME ~ (ExitWithCode(p) \/ DieOfSignal(p))
        PROVE  Same /\ UNCHANGED exit
    <2>1. CASE Boot(p)
      BY <2>1 DEF Boot
    <2>2. CASE CollectorEvent(p)
      BY <2>2 DEF CollectorEvent
    <2>3. CASE ExitListener(p)
      BY <2>3 DEF ExitListener, MayExit
    <2>4. CASE IgnoreSignal(p)
      BY <2>4 DEF IgnoreSignal
    <2>5. ASSUME NEW q \in Procs, Fork(p, q) PROVE Same /\ UNCHANGED exit
      BY <2>5 DEF Fork
    <2>. QED  BY <1>0, <1>1, <2>1, <2>2, <2>3, <2>4, <2>5
  <1>2. ASSUME ExitWithCode(p) \/ DieOfSignal(p)
        PROVE  /\ Same /\ status[p] \notin {"none", "dead"}
               /\ \E how \in Exits : exit' = [exit EXCEPT ![p] = how]
    <2>1. CASE ExitWithCode(p)
      <3>1. PICK code \in AppCodes : Dies(p, [signal |-> "null", code |-> code])
        BY <2>1 DEF ExitWithCode
      <3>2. [signal |-> "null", code |-> code] \in Exits
        BY DEF Exits
      <3>. QED  BY <2>1, <3>1, <3>2 DEF ExitWithCode, Dies
    <2>2. CASE DieOfSignal(p)
      <3>1. PICK signal \in inbox[p] : Dies(p, [signal |-> signal, code |-> 0])
        BY <2>2 DEF DieOfSignal
      <3>2. [signal |-> signal, code |-> 0] \in Exits
        BY DEF Exits
      <3>. QED  BY <2>2, <3>1, <3>2 DEF DieOfSignal, Alive, Dies
    <2>. QED  BY <1>2, <2>1, <2>2
  <1>3. CASE Same /\ UNCHANGED exit
    BY <1>3 DEF Phase, Contract!vars
  <1>4. CASE ExitWithCode(p) \/ DieOfSignal(p)
    <2>1. CASE p # Child
      BY <1>2, <1>4, <2>1 DEF Phase, Contract!vars
    <2>2. CASE p = Child
      <3>1. /\ result = NoResult /\ exit[Child] = NoExit
            /\ status[Child] # "none" /\ exit'[Child] \in Exits
        BY <1>2, <1>4, <2>2 DEF SessionInv, FinalizedOnEveryPath, EndKnown
      <3>2. Contract!ChildEnds
        BY <1>2, <1>4, <3>1 DEF Contract!ChildEnds, Contract!Ends, ExitCode, Phase
      <3>. QED  BY <3>2 DEF Contract!Next
    <2>. QED  BY <2>1, <2>2
  <1>. QED  BY <1>1, <1>3, <1>4

LEMMA ContractOutside ==
  ASSUME TypeInv, SessionInv, Outside
  PROVE  Contract!Next \/ UNCHANGED Contract!vars
  <1>1. /\ pc' \in {pc, "killed"} /\ pc # "killed"
        /\ UNCHANGED <<result, status, exit, sessionDoc>>
    BY DEF Outside, SignalParent, TerminalInterrupt, KillParent, ParentReceives,
           Ended, storeVars, procVars
  <1>2. CASE pc' = pc \/ result # NoResult
    BY <1>1, <1>2 DEF Phase, Contract!vars
  <1>3. CASE pc' = "killed" /\ result = NoResult
    BY <1>1, <1>3 DEF Phase, Contract!Next, Contract!Abort
  <1>. QED  BY <1>1, <1>2, <1>3

(* The contract of spec 018 holds of every session whose faults are those  *)
(* runner.ts answers: the child may be signalled, session.json can be      *)
(* written, and nothing throws before the listeners are installed.         *)
THEOREM Implements ==
  ASSUME SignalsGetThrough, SessionWritable, StartFaultsHandled
  PROVE  Spec => ImplementsContract
  <1>1. ASSUME TypeInv, SessionInv, [Next]_vars
        PROVE  Contract!Next \/ UNCHANGED Contract!vars
    <2>1. CASE Tick
      BY <2>1 DEF Tick, Contract!vars, Phase, storeVars, procVars
    <2>2. CASE Terminated \/ UNCHANGED vars
      BY <2>2 DEF Terminated, vars, parentVars, storeVars, procVars,
                  Contract!vars, Phase
    <2>. QED  BY <1>1, <2>1, <2>2, ContractSetup, ContractLoop,
                 ContractProcess, ContractOutside DEF Next
  <1>2. TypeInv /\ SessionInv /\ [Next]_vars => SessionInv'
    BY SessionInvNext
  <1>3. TypeInv /\ SessionInv /\ [Next]_vars => [Contract!Next]_(Contract!vars)
    BY <1>1
  <1>. QED  BY <1>2, <1>3, ContractInit, SessionInvInit, TypeCorrect, PTL
            DEF Spec, ImplementsContract, Contract!Spec
=============================================================================
