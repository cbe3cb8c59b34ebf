-------------------------- MODULE ScanCommandProofs --------------------------
(***************************************************************************)
(* Proofs about ScanCommand, for every set of command lines.               *)
(***************************************************************************)
EXTENDS ScanCommand, TLAPS

Ending == UsageErrorsComeFirst /\ ReportReachesUser /\ OneOutcome

IInv == TypeOK /\ Consistent /\ Ending

(* What the operations of the console session do to it.                    *)
LEMMA UiOps ==
  ASSUME NEW u \in Ui
  PROVE  /\ Dispose(u) \in Ui /\ Failed(u) \in Ui /\ Finished(u) \in Ui
         /\ \A v \in {Dispose(u), Failed(u), Finished(u)} :
              ~v.raw /\ ~v.mounted /\ ~v.listening
         /\ Dispose(u).failure = u.failure /\ Dispose(u).done = u.done
         /\ Failed(u).failure
         /\ Failed(u).done = Settle(u.done, "rejected")
         /\ Finished(u).failure = u.failure
         /\ Finished(u).done = Settle(u.done, "resolved")
  BY DEF Dispose, Failed, Finished, Settle, Ui

LEMMA UiStart ==
  /\ NoConsole \in Ui /\ Opened \in Ui
  /\ ~NoConsole.raw /\ ~NoConsole.mounted /\ ~NoConsole.listening
  /\ ~NoConsole.failure /\ NoConsole.done = "pending"
  /\ Opened.raw /\ Opened.mounted /\ Opened.listening
  /\ ~Opened.failure /\ Opened.done = "pending"
  BY DEF NoConsole, Opened, Ui

LEMMA InitInv == Init => IInv
  <1>. SUFFICES ASSUME Init PROVE IInv
    OBVIOUS
  <1>. USE UiStart DEF Init
  <1>1. TypeOK
    <2>1. in \in Request  BY ScanAssumption
    <2>2. pc \in Places   BY DEF Places
    <2>3. ui \in Ui       OBVIOUS
    <2>4. /\ stage \in 0 .. 5 /\ watched \in BOOLEAN /\ session \in BOOLEAN
          /\ verdict \in {0, 1, NoExit} /\ exit \in {0, 1, 2, NoExit, Killed}
          /\ out \subseteq Outputs /\ stdout \in {"ok", "broken"}
      <3>1. stage \in 0 .. 5
        BY SMT
      <3>4. watched \in BOOLEAN /\ session \in BOOLEAN
        BY Zenon
      <3>2. verdict \in {0, 1, NoExit} /\ exit \in {0, 1, 2, NoExit, Killed}
        BY Zenon
      <3>3. out \subseteq Outputs /\ stdout \in {"ok", "broken"}
        OBVIOUS
      <3>. QED  BY <3>1, <3>2, <3>3, <3>4
    <2>. QED  BY <2>1, <2>2, <2>3, <2>4 DEF TypeOK
  <1>2. Consistent
    <2>1. UiInv
      <3>1. ui.raw = ui.listening /\ ui.mounted = ui.listening
        BY DEF NoConsole
      <3>. QED  BY <3>1 DEF UiInv
    <2>2. PlaceInv
      <3>1. ui.listening = FALSE  BY DEF NoConsole
      <3>. QED  BY <3>1 DEF PlaceInv, Early, Late
    <2>. QED  BY <2>1, <2>2 DEF Consistent
  <1>3. Ending
    BY DEF Ending, UsageErrorsComeFirst, ReportReachesUser, OneOutcome, NoExit
  <1>. QED  BY <1>1, <1>2, <1>3 DEF IInv

(* The steps before the console: they only move on or end the command.     *)
LEMMA EarlySteps ==
  ASSUME IInv, pc \in Early,
         \/ \E p \in {"config", "target", "scope", "trace", "console"} : Goto(p)
         \/ UsageError \/ Crash \/ EndWith(0, {"dump"})
         \/ EndWith(Killed, {})
  PROVE  IInv'
  <1>. USE DEF IInv
  <1>1. CASE \E p \in {"config", "target", "scope", "trace", "console"} : Goto(p)
    <2>1. PICK p \in {"config", "target", "scope", "trace", "console"} : Goto(p)
      BY <1>1
    <2>. USE <2>1 DEF Goto
    <2>2. TypeOK'  BY DEF TypeOK, Places
    <2>3. Consistent'
      BY UiStart DEF Consistent, UiInv, PlaceInv, Early, Late
    <2>4. Ending'
      BY DEF Ending, UsageErrorsComeFirst, ReportReachesUser, OneOutcome
    <2>. QED  BY <2>2, <2>3, <2>4
  <1>2. CASE \E c \in {0, 1, 2, Killed}, g \in SUBSET {"usage", "dump", "crash"} :
               EndWith(c, g) /\ (c = 2 <=> "usage" \in g)
    <2>1. PICK c \in {0, 1, 2, Killed}, g \in SUBSET {"usage", "dump", "crash"} :
            EndWith(c, g) /\ (c = 2 <=> "usage" \in g)
      BY <1>2
    <2>. USE <2>1, UiStart DEF EndWith
    <2>2. TypeOK'  BY DEF TypeOK, Places, Outputs
    <2>3. ui = NoConsole /\ session = FALSE /\ out = {} /\ verdict = NoExit
      BY DEF Consistent, PlaceInv
    <2>4. Consistent'
      BY <2>3 DEF Consistent, UiInv, PlaceInv, Early, Late, NoExit, Killed
    <2>5. Ending'
      BY <2>3 DEF Ending, UsageErrorsComeFirst, ReportReachesUser, OneOutcome
    <2>. QED  BY <2>2, <2>4, <2>5
  <1>3. UsageError \/ Crash \/ EndWith(0, {"dump"}) \/ EndWith(Killed, {}) =>
          \E c \in {0, 1, 2, Killed}, g \in SUBSET {"usage", "dump", "crash"} :
            EndWith(c, g) /\ (c = 2 <=> "usage" \in g)
    <2>1. UsageError => EndWith(2, {"usage"})  BY DEF UsageError
    <2>2. Crash => EndWith(1, {"crash"})       BY DEF Crash
    <2>. QED  BY <2>1, <2>2 DEF Killed
  <1>. QED  BY <1>1, <1>2, <1>3

LEMMA ConsoleStarts == IInv /\ StartConsole => IInv'
  <1>. SUFFICES ASSUME IInv, StartConsole PROVE IInv'
    OBVIOUS
  <1>. USE UiStart DEF IInv
  <1>1. /\ pc = "console" /\ pc' = "scanning" /\ exit' = exit /\ verdict' = verdict
        /\ UNCHANGED <<in, stage, stdout>>
        /\ ui = NoConsole /\ session = FALSE /\ out = {} /\ verdict = NoExit
        /\ exit = NoExit
    BY DEF StartConsole, Consistent, PlaceInv, Early
  <1>2. CASE UNCHANGED <<watched, session, ui, out>>
    <2>1. TypeOK'  BY <1>1, <1>2 DEF TypeOK, Places
    <2>2. Consistent'
      BY <1>1, <1>2 DEF Consistent, UiInv, PlaceInv, Early, Late
    <2>3. Ending'
      BY <1>1, <1>2 DEF Ending, UsageErrorsComeFirst, ReportReachesUser,
         OneOutcome, NoExit
    <2>. QED  BY <2>1, <2>2, <2>3
  <1>3. CASE /\ watched' = TRUE /\ session' = TRUE
             /\ ui' = Opened /\ out' = out \cup {"progress"}
    <2>1. TypeOK'  BY <1>1, <1>3 DEF TypeOK, Places, Outputs
    <2>2. Consistent'
      BY <1>1, <1>3 DEF Consistent, UiInv, PlaceInv, Early, Late
    <2>3. Ending'
      BY <1>1, <1>3 DEF Ending, UsageErrorsComeFirst, ReportReachesUser,
         OneOutcome, NoExit
    <2>. QED  BY <2>1, <2>2, <2>3
  <1>4. CASE /\ ui' \in {NoConsole, Failed(Opened)}
             /\ out' = out \cup {"unavailable"}
             /\ UNCHANGED <<watched, session>>
    <2>0. /\ ui' \in Ui /\ ~ui'.raw /\ ~ui'.mounted /\ ~ui'.listening
          /\ ui'.done # "resolved" /\ (ui'.failure => ui'.done = "rejected")
      BY <1>4, UiOps DEF Settle
    <2>1. TypeOK'  BY <1>1, <1>4, <2>0 DEF TypeOK, Places, Outputs
    <2>2. Consistent'
      BY <1>1, <1>4, <2>0 DEF Consistent, UiInv, PlaceInv, Early, Late, Ui
    <2>3. Ending'
      BY <1>1, <1>4, <2>0 DEF Ending, UsageErrorsComeFirst, ReportReachesUser,
         OneOutcome, NoExit
    <2>. QED  BY <2>1, <2>2, <2>3
  <1>. QED  BY <1>2, <1>3, <1>4 DEF StartConsole

LEMMA EventsKeepInv ==
  IInv /\ (UiFails \/ UserQuits \/ InterruptConsole) => IInv'
  <1>. USE DEF IInv
  <1>1. ASSUME IInv, UiFails PROVE IInv'
    <2>0. ui \in Ui /\ ui.listening /\ session /\ ui.done = "pending"
          /\ pc \in {"scanning", "waiting"}
      BY <1>1 DEF UiFails, Yielding, TypeOK, Consistent, UiInv
    <2>1. /\ ui' = Failed(ui) /\ stdout' \in {"ok", "broken"}
          /\ UNCHANGED <<in, pc, stage, watched, verdict, session, out, exit>>
      BY <1>1 DEF UiFails
    <2>2. /\ ui' \in Ui /\ ~ui'.raw /\ ~ui'.mounted /\ ~ui'.listening
          /\ ui'.failure /\ ui'.done = "rejected"
      BY <2>0, <2>1, UiOps DEF Settle
    <2>3. TypeOK'  BY <1>1, <2>1, <2>2 DEF TypeOK
    <2>4. UiInv'   BY <2>0, <2>1, <2>2 DEF UiInv, Ui
    <2>5. PlaceInv'
      BY <1>1, <2>0, <2>1, <2>2 DEF Consistent, PlaceInv, Early, Late
    <2>6. Ending'
      BY <1>1, <2>0, <2>1, <2>2 DEF Consistent, PlaceInv, Ending, Early,
         UsageErrorsComeFirst, ReportReachesUser, OneOutcome, NoExit
    <2>. QED  BY <2>3, <2>4, <2>5, <2>6 DEF Consistent
  <1>2. ASSUME IInv, UserQuits PROVE IInv'
    <2>0. ui \in Ui /\ ui.listening /\ session /\ ui.done = "pending"
          /\ ~ui.failure /\ pc = "waiting"
      BY <1>2 DEF UserQuits, TypeOK, Consistent, UiInv
    <2>1. /\ ui' = Finished(ui)
          /\ UNCHANGED <<in, pc, stage, watched, verdict, session, out, stdout, exit>>
      BY <1>2 DEF UserQuits
    <2>2. /\ ui' \in Ui /\ ~ui'.raw /\ ~ui'.mounted /\ ~ui'.listening
          /\ ~ui'.failure /\ ui'.done = "resolved"
      BY <2>0, <2>1, UiOps DEF Settle
    <2>3. TypeOK'  BY <1>2, <2>1, <2>2 DEF TypeOK
    <2>4. UiInv'   BY <2>0, <2>1, <2>2 DEF UiInv, Ui
    <2>5. PlaceInv'
      BY <1>2, <2>0, <2>1, <2>2 DEF Consistent, PlaceInv, Early, Late
    <2>6. Ending'
      BY <1>2, <2>0, <2>1, <2>2 DEF Consistent, PlaceInv, Ending, Early,
         UsageErrorsComeFirst, ReportReachesUser, OneOutcome, NoExit
    <2>. QED  BY <2>3, <2>4, <2>5, <2>6 DEF Consistent
  <1>3. ASSUME IInv, InterruptConsole PROVE IInv'
    <2>0. ui \in Ui /\ ui.listening /\ session /\ ui.done = "pending"
          /\ ~ui.failure /\ pc \in {"scanning", "waiting"}
      BY <1>3 DEF InterruptConsole, Yielding, TypeOK, Consistent, UiInv
    <2>1. /\ ui' = Finished(ui) /\ pc' = "ended" /\ exit' = Killed
          /\ UNCHANGED <<in, stage, watched, verdict, session, out, stdout>>
      BY <1>3 DEF InterruptConsole
    <2>2. /\ ui' \in Ui /\ ~ui'.raw /\ ~ui'.mounted /\ ~ui'.listening
          /\ ~ui'.failure /\ ui'.done = "resolved"
      BY <2>0, <2>1, UiOps DEF Settle
    <2>3. TypeOK'  BY <1>3, <2>1, <2>2 DEF TypeOK, Places
    <2>4. UiInv'   BY <2>0, <2>1, <2>2 DEF UiInv, Ui
    <2>5. PlaceInv'
      BY <1>3, <2>0, <2>1, <2>2 DEF Consistent, PlaceInv, Early, Late, NoExit,
         Killed, Ui
    <2>6. Ending'
      BY <1>3, <2>0, <2>1, <2>2 DEF Consistent, PlaceInv, Ending, Early,
         UsageErrorsComeFirst, ReportReachesUser, OneOutcome, Killed
    <2>. QED  BY <2>3, <2>4, <2>5, <2>6 DEF Consistent
  <1>. QED  BY <1>1, <1>2, <1>3

LEMMA ScanKeepsInv ==
  IInv /\ (AnnounceStage \/ ScanEnds \/ ScanThrows) => IInv'
  <1>. USE DEF IInv
  <1>1. ASSUME IInv, AnnounceStage PROVE IInv'
    <2>1. /\ pc = "scanning" /\ stage' \in 0 .. 5 /\ ui \in Ui
          /\ UNCHANGED <<in, pc, watched, verdict, stdout, exit>>
      BY <1>1 DEF AnnounceStage, TypeOK, Stages
    <2>2. CASE PresentationFailure
      <3>1. /\ ui' \in Ui /\ ~ui'.raw /\ ~ui'.mounted /\ ~ui'.listening
            /\ ui'.failure = ui.failure /\ ui'.done = ui.done
            /\ session' = FALSE /\ out' = out \cup {"unavailable"}
        BY <2>1, <2>2, UiOps DEF PresentationFailure
      <3>2. TypeOK'  BY <1>1, <2>1, <3>1 DEF TypeOK, Outputs
      <3>3. UiInv'   BY <1>1, <2>1, <3>1 DEF Consistent, UiInv, Ui
      <3>4. PlaceInv'
        BY <1>1, <2>1, <3>1 DEF Consistent, PlaceInv, Early, Late
      <3>5. Ending'
        BY <1>1, <2>1, <3>1 DEF Consistent, PlaceInv, UiInv, Ending, Early,
           UsageErrorsComeFirst, ReportReachesUser, OneOutcome, NoExit
      <3>. QED  BY <3>2, <3>3, <3>4, <3>5 DEF Consistent
    <2>3. CASE UNCHANGED <<session, ui, out>>
      <3>1. TypeOK'  BY <1>1, <2>1, <2>3 DEF TypeOK
      <3>2. Consistent'
        BY <1>1, <2>1, <2>3 DEF Consistent, UiInv, PlaceInv, Early, Late
      <3>3. Ending'
        BY <1>1, <2>1, <2>3 DEF Ending, UsageErrorsComeFirst,
           ReportReachesUser, OneOutcome
      <3>. QED  BY <3>1, <3>2, <3>3
    <2>. QED  BY <1>1, <2>2, <2>3 DEF AnnounceStage
  <1>2. ASSUME IInv, ScanEnds PROVE IInv'
    <2>. USE <1>2 DEF ScanEnds
    <2>1. TypeOK'  BY DEF TypeOK, Places
    <2>2. Consistent'
      BY DEF Consistent, UiInv, PlaceInv, Early, Late, NoExit
    <2>3. Ending'
      BY DEF Consistent, UiInv, PlaceInv, Ending, UsageErrorsComeFirst,
         ReportReachesUser, OneOutcome, Early, NoExit
    <2>. QED  BY <2>1, <2>2, <2>3
  <1>3. ASSUME IInv, ScanThrows PROVE IInv'
    <2>0. /\ pc = "scanning" /\ pc' = "ended" /\ exit' = 1
          /\ out' = out \cup {"crash"} /\ ui \in Ui
          /\ UNCHANGED <<in, stage, watched, verdict, session, stdout>>
      BY <1>3 DEF ScanThrows, TypeOK
    <2>1. /\ ui' \in Ui /\ ~ui'.raw /\ ~ui'.mounted /\ ~ui'.listening
          /\ ui'.failure = ui.failure /\ ui'.done = ui.done
      <3>1. CASE session
        BY <1>3, <2>0, <3>1, UiOps DEF ScanThrows
      <3>2. CASE ~session
        BY <1>3, <2>0, <3>2 DEF ScanThrows, Consistent, UiInv, Ui
      <3>. QED  BY <3>1, <3>2
    <2>2. TypeOK'  BY <1>3, <2>0, <2>1 DEF TypeOK, Places, Outputs
    <2>3. UiInv'   BY <1>3, <2>0, <2>1 DEF Consistent, UiInv, Ui
    <2>4. PlaceInv'
      BY <1>3, <2>0, <2>1 DEF Consistent, PlaceInv, UiInv, Early, Late, NoExit, Ui
    <2>5. Ending'
      BY <1>3, <2>0, <2>1 DEF Consistent, PlaceInv, UiInv, Ending, Early,
         UsageErrorsComeFirst, ReportReachesUser, OneOutcome
    <2>. QED  BY <2>2, <2>3, <2>4, <2>5 DEF Consistent
  <1>. QED  BY <1>1, <1>2, <1>3

LEMMA GoingToReport ==
  ASSUME IInv, pc \in {"present", "waiting"}, session, PresentationFailure,
         pc' = "report",
         pc = "waiting" => ui.done # "resolved",
         UNCHANGED <<in, stage, watched, verdict, stdout, exit>>
  PROVE  IInv'
  <1>. USE DEF IInv
  <1>1. /\ ui' \in Ui /\ ~ui'.raw /\ ~ui'.mounted /\ ~ui'.listening
        /\ ui'.failure = ui.failure /\ ui'.done = ui.done
        /\ session' = FALSE /\ out' = out \cup {"unavailable"}
    BY UiOps DEF PresentationFailure, TypeOK
  <1>2. TypeOK'  BY <1>1 DEF TypeOK, Places, Outputs
  <1>3. UiInv'   BY <1>1 DEF Consistent, UiInv, Ui
  <1>4. PlaceInv'
    BY <1>1 DEF Consistent, PlaceInv, Early, Late
  <1>5. Ending'
    BY <1>1 DEF Consistent, PlaceInv, UiInv, Ending, Early,
       UsageErrorsComeFirst, ReportReachesUser, OneOutcome, NoExit
  <1>. QED  BY <1>2, <1>3, <1>4, <1>5 DEF Consistent

LEMMA PresentKeepsInv == IInv /\ Present => IInv'
  <1>. SUFFICES ASSUME IInv, Present PROVE IInv'
    OBVIOUS
  <1>0. pc = "present"
    BY DEF Present
  <1>1. CASE ~session /\ Goto("report")
    <2>. USE <1>0, <1>1 DEF IInv, Goto
    <2>1. TypeOK'  BY DEF TypeOK, Places
    <2>2. Consistent'
      BY DEF Consistent, UiInv, PlaceInv, Early, Late, TypeOK
    <2>3. Ending'
      BY DEF Ending, UsageErrorsComeFirst, ReportReachesUser, OneOutcome
    <2>. QED  BY <2>1, <2>2, <2>3
  <1>2. CASE /\ session /\ PresentationFailure /\ pc' = "report"
             /\ UNCHANGED <<in, stage, watched, verdict, stdout, exit>>
    BY <1>0, <1>2, GoingToReport
  <1>3. CASE /\ session /\ pc' = "waiting" /\ out' = out \cup {"results"}
             /\ UNCHANGED <<in, stage, watched, verdict, session, ui, stdout, exit>>
    <2>. USE <1>0, <1>3 DEF IInv
    <2>1. TypeOK'  BY DEF TypeOK, Places, Outputs
    <2>2. Consistent'
      BY DEF Consistent, UiInv, PlaceInv, Early, Late
    <2>3. Ending'
      BY DEF Consistent, PlaceInv, Ending, UsageErrorsComeFirst,
         ReportReachesUser, OneOutcome, NoExit
    <2>. QED  BY <2>1, <2>2, <2>3
  <1>. QED  BY <1>1, <1>2, <1>3 DEF Present

(* The two ways a scan that was presented or printed is answered.          *)
LEMMA AnswersKeepInv == IInv /\ (PresentReturns \/ WriteReport) => IInv'
  <1>. USE DEF IInv
  <1>1. ASSUME IInv, PresentReturns PROVE IInv'
    <2>0. pc = "waiting" /\ session /\ "results" \in out /\ ui.done # "pending"
          /\ verdict \in {0, 1} /\ ui.listening = FALSE
      BY <1>1 DEF PresentReturns, Consistent, PlaceInv, UiInv, Late, TypeOK, Ui
    <2>1. CASE ui.done = "resolved" /\ EndWith(verdict, {})
      <3>. USE <1>1, <2>0, <2>1 DEF EndWith
      <3>1. TypeOK'  BY DEF TypeOK, Places, Outputs
      <3>2. Consistent'
        BY DEF Consistent, UiInv, PlaceInv, Early, Late, NoExit, Killed
      <3>3. Ending'
        BY DEF Consistent, UiInv, PlaceInv, Ending, UsageErrorsComeFirst,
           ReportReachesUser, OneOutcome
      <3>. QED  BY <3>1, <3>2, <3>3
    <2>2. CASE ui.done # "resolved"
      BY <1>1, <2>0, <2>2, GoingToReport DEF PresentReturns
    <2>. QED  BY <1>1, <2>1, <2>2 DEF PresentReturns
  <1>2. ASSUME IInv, WriteReport PROVE IInv'
    <2>0. pc = "report" /\ session = FALSE /\ verdict \in {0, 1}
          /\ ui.listening = FALSE /\ ui.done # "resolved"
      BY <1>2 DEF WriteReport, Consistent, PlaceInv, UiInv, Late, TypeOK, Ui
    <2>1. CASE stdout = "ok" /\ EndWith(verdict, {"report"})
      <3>. USE <1>2, <2>0, <2>1 DEF EndWith
      <3>1. TypeOK'  BY DEF TypeOK, Places, Outputs
      <3>2. Consistent'
        BY DEF Consistent, UiInv, PlaceInv, Early, Late, NoExit
      <3>3. Ending'
        BY DEF Consistent, UiInv, PlaceInv, Ending, UsageErrorsComeFirst,
           ReportReachesUser, OneOutcome
      <3>. QED  BY <3>1, <3>2, <3>3
    <2>2. CASE stdout # "ok" /\ EndWith(1, {"crash"})
      <3>. USE <1>2, <2>0, <2>2 DEF EndWith
      <3>1. TypeOK'  BY DEF TypeOK, Places, Outputs
      <3>2. Consistent'
        BY DEF Consistent, UiInv, PlaceInv, Early, Late, NoExit
      <3>3. Ending'
        BY DEF Consistent, UiInv, PlaceInv, Ending, UsageErrorsComeFirst,
           ReportReachesUser, OneOutcome
      <3>. QED  BY <3>1, <3>2, <3>3
    <2>. QED  BY <1>2, <2>1, <2>2 DEF WriteReport, Report, Crash
  <1>. QED  BY <1>1, <1>2

(* A signal while no console listens, in any place but the early ones.     *)
LEMMA DeathKeepsInv == IInv /\ DieOfSignal => IInv'
  <1>. SUFFICES ASSUME IInv, DieOfSignal PROVE IInv'
    OBVIOUS
  <1>. USE DEF IInv
  <1>0. pc # "ended" /\ ~ui.listening /\ EndWith(Killed, {})
    BY DEF DieOfSignal
  <1>1. CASE pc \in Early
    BY <1>0, <1>1, EarlySteps
  <1>2. CASE pc \notin Early
    <2>. USE <1>0, <1>2 DEF EndWith
    <2>1. TypeOK'  BY DEF TypeOK, Places, Outputs
    <2>2. ui.listening = FALSE  BY DEF TypeOK, Ui
    <2>3. Consistent'
      BY <2>2 DEF Consistent, UiInv, PlaceInv, Early, Late, NoExit, Killed
    <2>4. Ending'
      BY DEF Consistent, UiInv, PlaceInv, Ending, UsageErrorsComeFirst,
         ReportReachesUser, OneOutcome, Killed
    <2>. QED  BY <2>1, <2>3, <2>4
  <1>. QED  BY <1>1, <1>2

LEMMA NextInv == IInv /\ [Next]_vars => IInv'
  <1>. SUFFICES ASSUME IInv, [Next]_vars PROVE IInv'
    OBVIOUS
  <1>1. ASSUME CheckFlags \/ LoadConfig \/ CheckTarget \/ ResolveScope \/ LoadTrace
        PROVE  IInv'
    <2>1. pc \in Early
      BY <1>1 DEF CheckFlags, LoadConfig, CheckTarget, ResolveScope, LoadTrace, Early
    <2>2. \/ \E p \in {"config", "target", "scope", "trace", "console"} : Goto(p)
          \/ UsageError \/ Crash \/ EndWith(0, {"dump"})
      <3>1. CASE CheckFlags    BY <3>1 DEF CheckFlags
      <3>2. CASE LoadConfig    BY <3>2 DEF LoadConfig
      <3>3. CASE CheckTarget   BY <3>3 DEF CheckTarget
      <3>4. CASE ResolveScope  BY <3>4 DEF ResolveScope
      <3>5. CASE LoadTrace     BY <3>5 DEF LoadTrace
      <3>. QED  BY <1>1, <3>1, <3>2, <3>3, <3>4, <3>5
    <2>. QED  BY <2>1, <2>2, EarlySteps
  <1>2. CASE StartConsole   BY <1>2, ConsoleStarts
  <1>3. CASE AnnounceStage \/ ScanEnds \/ ScanThrows
    BY <1>3, ScanKeepsInv
  <1>4. CASE Present        BY <1>4, PresentKeepsInv
  <1>5. CASE PresentReturns \/ WriteReport
    BY <1>5, AnswersKeepInv
  <1>6. CASE UiFails \/ UserQuits \/ InterruptConsole
    BY <1>6, EventsKeepInv
  <1>7. CASE DieOfSignal    BY <1>7, DeathKeepsInv
  <1>8. CASE UNCHANGED vars
    BY <1>8 DEF vars, IInv, TypeOK, Consistent, UiInv, PlaceInv, Ending,
       UsageErrorsComeFirst, ReportReachesUser, OneOutcome
  <1>. QED
    BY <1>1, <1>2, <1>3, <1>4, <1>5, <1>6, <1>7, <1>8 DEF Next, Steps, Done

LEMMA Invariance == Spec => []IInv
  BY InitInv, NextInv, PTL DEF Spec

(* Type correctness and what holds together inside the command.            *)
THEOREM CommandConsistent == Spec => [](TypeOK /\ Consistent)
  <1>1. IInv => TypeOK /\ Consistent
    BY DEF IInv
  <1>. QED  BY <1>1, Invariance, PTL

(* A usage error is answered before anything else happens, for every       *)
(* command line.                                                           *)
THEOREM UsageFirst == Spec => []UsageErrorsComeFirst
  <1>1. IInv => UsageErrorsComeFirst
    BY DEF IInv, Ending
  <1>. QED  BY <1>1, Invariance, PTL

(* Every return after a scan gave the report to the user, wherever the     *)
(* console failed; and the console has one outcome.                        *)
THEOREM ReportDelivered == Spec => [](ReportReachesUser /\ OneOutcome)
  <1>1. IInv => ReportReachesUser /\ OneOutcome
    BY DEF IInv, Ending
  <1>. QED  BY <1>1, Invariance, PTL

(* However the command ends the terminal is restored.                      *)
THEOREM Restored == Spec => []TerminalRestored
  <1>1. IInv => TerminalRestored
    BY DEF IInv, Consistent, PlaceInv, UiInv, TerminalRestored
  <1>. QED  BY <1>1, Invariance, PTL

(* As long as the terminal does not go away for good, a completed scan     *)
(* that is answered with an exit code is answered with its verdict.        *)
THEOREM VerdictIsKept ==
  ASSUME StdoutMayBreak = FALSE
  PROVE  Spec => []VerdictKept
  <1>. DEFINE Kept == stdout = "ok" /\ VerdictKept
  <1>1. Init => Kept
    BY DEF Init, VerdictKept, NoExit
  <1>2. IInv /\ Kept /\ [Next]_vars => Kept'
    <2>. SUFFICES ASSUME IInv, Kept, [Next]_vars PROVE Kept'
      OBVIOUS
    <2>. USE DEF IInv, VerdictKept
    <2>0. stdout' = "ok"
      <3>1. CASE UiFails       BY <3>1 DEF UiFails
      <3>2. CASE UserQuits \/ InterruptConsole \/ DieOfSignal
        BY <3>2 DEF UserQuits, InterruptConsole, DieOfSignal, EndWith
      <3>3. CASE CheckFlags \/ LoadConfig \/ CheckTarget \/ ResolveScope \/ LoadTrace
        BY <3>3 DEF CheckFlags, LoadConfig, CheckTarget, ResolveScope, LoadTrace,
           Goto, UsageError, Crash, EndWith
      <3>4. CASE StartConsole \/ AnnounceStage \/ ScanEnds \/ ScanThrows
        BY <3>4 DEF StartConsole, AnnounceStage, ScanEnds, ScanThrows
      <3>5. CASE Present \/ PresentReturns \/ WriteReport
        BY <3>5 DEF Present, PresentReturns, WriteReport, Report, Crash, Goto, EndWith
      <3>6. CASE UNCHANGED vars  BY <3>6 DEF vars
      <3>. QED
        BY <3>1, <3>2, <3>3, <3>4, <3>5, <3>6 DEF Next, Steps, Done
    <2>1. CASE exit' = exit /\ verdict' = verdict
      BY <2>0, <2>1
    <2>2. CASE exit' = NoExit
      BY <2>0, <2>2 DEF NoExit
    <2>3. CASE exit' = Killed
      BY <2>0, <2>3 DEF Killed
    <2>4. CASE verdict' = NoExit
      BY <2>0, <2>4
    <2>5. CASE exit' = verdict' /\ verdict' = verdict
      BY <2>0, <2>5
    <2>6. \/ exit' = exit /\ verdict' = verdict
          \/ exit' \in {NoExit, Killed}
          \/ verdict' = NoExit
          \/ exit' = verdict' /\ verdict' = verdict
      <3>1. CASE UiFails \/ UserQuits \/ InterruptConsole
        BY <3>1 DEF UiFails, UserQuits, InterruptConsole
      <3>2. CASE DieOfSignal
        BY <3>2 DEF DieOfSignal, EndWith
      <3>3. CASE CheckFlags \/ LoadConfig \/ CheckTarget \/ ResolveScope \/ LoadTrace
        <4>1. verdict = NoExit
          BY <3>3 DEF CheckFlags, LoadConfig, CheckTarget, ResolveScope, LoadTrace,
             Consistent, PlaceInv, Early
        <4>. QED
          BY <3>3, <4>1 DEF CheckFlags, LoadConfig, CheckTarget, ResolveScope,
             LoadTrace, Goto, UsageError, Crash, EndWith
      <3>4. CASE StartConsole \/ AnnounceStage
        BY <3>4 DEF StartConsole, AnnounceStage
      <3>5. CASE ScanEnds
        BY <3>5 DEF ScanEnds, Consistent, PlaceInv
      <3>6. CASE ScanThrows
        BY <3>6 DEF ScanThrows, Consistent, PlaceInv
      <3>7. CASE Present \/ PresentReturns \/ WriteReport
        BY <3>7 DEF Present, PresentReturns, WriteReport, Report, Goto, EndWith
      <3>8. CASE UNCHANGED vars  BY <3>8 DEF vars
      <3>. QED
        BY <3>1, <3>2, <3>3, <3>4, <3>5, <3>6, <3>7, <3>8 DEF Next, Steps, Done
    <2>. QED  BY <2>0, <2>1, <2>2, <2>3, <2>4, <2>5, <2>6
  <1>3. Kept => VerdictKept
    OBVIOUS
  <1>. QED  BY <1>1, <1>2, <1>3, Invariance, PTL DEF Spec

-----------------------------------------------------------------------------
(* The refinement.  BarPhase, BarSeen and BarExit are the values Contract  *)
(* substitutes for the abstract variables.                                 *)
BarPhase == IF pc = "ended" THEN "answered"
            ELSE IF verdict # NoExit THEN "scanned" ELSE "asked"
BarSeen  == out \cap {"results", "report"} # {}
BarExit  == IF "crash" \in out THEN Killed ELSE exit

(* Steps inside one abstract state.                                        *)
LEMMA Stutters ==
  ASSUME UNCHANGED verdict, UNCHANGED exit, pc # "ended", pc' # "ended",
         out \cap {"results", "report", "crash"} = out' \cap {"results", "report", "crash"}
  PROVE  [Contract!Next]_(Contract!vars)
  <1>1. BarPhase' = BarPhase
    BY DEF BarPhase
  <1>2. BarSeen' = BarSeen /\ BarExit' = BarExit
    BY DEF BarSeen, BarExit
  <1>. QED
    BY <1>1, <1>2 DEF Contract!vars, BarPhase, BarSeen, BarExit

LEMMA Refines == IInv /\ [Next]_vars => [Contract!Next]_(Contract!vars)
  <1>. SUFFICES ASSUME IInv, [Next]_vars PROVE [Contract!Next]_(Contract!vars)
    OBVIOUS
  <1>. USE DEF IInv
  <1>1. ASSUME pc \in Early, \E c \in {0, 2}, g \in {{"usage"}, {"dump"}} : EndWith(c, g)
        PROVE  Contract!AnswerEarly
    BY <1>1 DEF EndWith, Consistent, PlaceInv, Early, Contract!AnswerEarly
  <1>2. ASSUME pc # "ended", \E g \in {{}, {"crash"}} :
                 EndWith(IF g = {} THEN Killed ELSE 1, g)
        PROVE  Contract!Abort
    BY <1>2 DEF EndWith, Consistent, PlaceInv, Contract!Abort
  <1>3. CASE CheckFlags \/ LoadConfig \/ CheckTarget \/ ResolveScope \/ LoadTrace
    <2>1. pc \in Early /\ pc # "ended"
      BY <1>3 DEF CheckFlags, LoadConfig, CheckTarget, ResolveScope, LoadTrace, Early
    <2>2. \/ \E p \in {"config", "target", "scope", "trace", "console"} : Goto(p)
          \/ EndWith(2, {"usage"}) \/ EndWith(1, {"crash"}) \/ EndWith(0, {"dump"})
      <3>1. CASE CheckFlags    BY <3>1 DEF CheckFlags, UsageError
      <3>2. CASE LoadConfig    BY <3>2 DEF LoadConfig, UsageError, Crash
      <3>3. CASE CheckTarget   BY <3>3 DEF CheckTarget, UsageError
      <3>4. CASE ResolveScope  BY <3>4 DEF ResolveScope, UsageError
      <3>5. CASE LoadTrace     BY <3>5 DEF LoadTrace, UsageError
      <3>. QED  BY <1>3, <3>1, <3>2, <3>3, <3>4, <3>5
    <2>3. CASE \E p \in {"config", "target", "scope", "trace", "console"} : Goto(p)
      BY <2>1, <2>3, Stutters DEF Goto
    <2>4. CASE EndWith(2, {"usage"}) \/ EndWith(0, {"dump"})
      BY <1>1, <2>1, <2>4 DEF Contract!Next
    <2>5. CASE EndWith(1, {"crash"})
      BY <1>2, <2>1, <2>5 DEF Contract!Next
    <2>. QED  BY <2>2, <2>3, <2>4, <2>5
  <1>4. CASE StartConsole
    <2>1. out' = out \/ out' = out \cup {"progress"} \/ out' = out \cup {"unavailable"}
      BY <1>4 DEF StartConsole
    <2>. QED  BY <1>4, <2>1, Stutters DEF StartConsole
  <1>5. CASE AnnounceStage
    <2>1. out' = out \/ out' = out \cup {"unavailable"}
      BY <1>5 DEF AnnounceStage, PresentationFailure
    <2>. QED  BY <1>5, <2>1, Stutters DEF AnnounceStage
  <1>6. CASE UiFails \/ UserQuits
    BY <1>6, Stutters DEF UiFails, UserQuits, Yielding
  <1>7. CASE InterruptConsole
    <2>1. Contract!Abort
      BY <1>7 DEF InterruptConsole, Yielding, Consistent, PlaceInv, Contract!Abort
    <2>. QED  BY <2>1 DEF Contract!Next
  <1>8. CASE DieOfSignal
    BY <1>2, <1>8 DEF DieOfSignal, Contract!Next
  <1>9. CASE ScanEnds
    <2>1. Contract!Scan
      BY <1>9 DEF ScanEnds, Consistent, PlaceInv, Contract!Scan, NoExit
    <2>. QED  BY <2>1 DEF Contract!Next
  <1>10. CASE ScanThrows
    <2>1. Contract!Abort
      BY <1>10 DEF ScanThrows, Consistent, PlaceInv, Contract!Abort
    <2>. QED  BY <2>1 DEF Contract!Next
  <1>11. ASSUME pc \in {"present", "waiting"}, pc' = "report", PresentationFailure,
                UNCHANGED <<verdict, exit>>
         PROVE  [Contract!Next]_(Contract!vars)
    BY <1>11, Stutters DEF PresentationFailure
  <1>12. CASE Present
    <2>1. CASE Goto("report")
      BY <1>12, <2>1, Stutters DEF Present, Goto
    <2>2. CASE PresentationFailure /\ pc' = "report" /\ UNCHANGED <<verdict, exit>>
      BY <1>11, <1>12, <2>2 DEF Present
    <2>3. CASE pc' = "waiting" /\ out' = out \cup {"results"} /\ UNCHANGED <<verdict, exit>>
      <3>1. Contract!Deliver
        BY <1>12, <2>3 DEF Present, Consistent, PlaceInv, Late, Contract!Deliver
      <3>. QED  BY <3>1 DEF Contract!Next
    <2>. QED  BY <1>12, <2>1, <2>2, <2>3 DEF Present
  <1>13. CASE PresentReturns
    <2>1. CASE EndWith(verdict, {})
      <3>1. Contract!Answer
        BY <1>13, <2>1 DEF PresentReturns, EndWith, Consistent, PlaceInv, Late,
           Contract!Answer
      <3>. QED  BY <3>1 DEF Contract!Next
    <2>2. CASE PresentationFailure /\ pc' = "report" /\ UNCHANGED <<verdict, exit>>
      BY <1>11, <1>13, <2>2 DEF PresentReturns
    <2>. QED  BY <1>13, <2>1, <2>2 DEF PresentReturns
  <1>14. CASE WriteReport
    <2>1. CASE EndWith(verdict, {"report"})
      <3>1. Contract!DeliverAndAnswer
        BY <1>14, <2>1 DEF WriteReport, EndWith, Consistent, PlaceInv, Late,
           Contract!DeliverAndAnswer
      <3>. QED  BY <3>1 DEF Contract!Next
    <2>2. CASE EndWith(1, {"crash"})
      BY <1>2, <1>14, <2>2 DEF WriteReport, Contract!Next
    <2>. QED  BY <1>14, <2>1, <2>2 DEF WriteReport, Report, Crash
  <1>15. CASE UNCHANGED vars
    BY <1>15 DEF vars, Contract!vars
  <1>. QED
    BY <1>3, <1>4, <1>5, <1>6, <1>7, <1>8, <1>9, <1>10, <1>12, <1>13, <1>14,
       <1>15 DEF Next, Steps, Done

(* The command implements ScanContract: every step of the code is a step   *)
(* of the contract or none.                                                *)
THEOREM Implements == Spec => ImplementsContract
  <1>1. Init => Contract!Init
    BY DEF Init, Contract!Init
  <1>. QED  BY <1>1, Refines, Invariance, PTL DEF Spec, ImplementsContract, Contract!Spec
=============================================================================
