---------------------------- MODULE ScanContract ----------------------------
(***************************************************************************)
(* What `backend-doctor scan` promises its caller: a usage error is        *)
(* answered 2 before anything is scanned, a finished scan is answered with *)
(* its verdict and only once the user has been given the report, and the   *)
(* command may be aborted at any time.                                     *)
(***************************************************************************)
EXTENDS Naturals

CONSTANTS NoExit, Aborted \* not answered yet; killed or crashed

VARIABLES
  phase,   \* asked, scanned or answered
  verdict, \* 0 or 1, NoExit until the scan is finished
  seen,    \* has the user been given the report?
  exit     \* the answer

vars == <<phase, verdict, seen, exit>>

Init == phase = "asked" /\ verdict = NoExit /\ seen = FALSE /\ exit = NoExit

(* A usage error, or the configuration dump.                               *)
AnswerEarly ==
  /\ phase = "asked"
  /\ phase' = "answered"
  /\ exit' \in {0, 2}
  /\ UNCHANGED <<verdict, seen>>

Scan ==
  /\ phase = "asked"
  /\ phase' = "scanned"
  /\ verdict' \in {0, 1}
  /\ UNCHANGED <<seen, exit>>

Deliver ==
  /\ phase = "scanned" /\ seen = FALSE
  /\ seen' = TRUE
  /\ UNCHANGED <<phase, verdict, exit>>

Answer ==
  /\ phase = "scanned" /\ seen
  /\ phase' = "answered"
  /\ exit' = verdict
  /\ UNCHANGED <<verdict, seen>>

(* Printing the report and answering are one step of the command.          *)
DeliverAndAnswer ==
  /\ phase = "scanned"
  /\ phase' = "answered"
  /\ seen' = TRUE
  /\ exit' = verdict
  /\ UNCHANGED verdict

Abort ==
  /\ phase # "answered"
  /\ phase' = "answered"
  /\ exit' = Aborted
  /\ UNCHANGED <<verdict, seen>>

Next == AnswerEarly \/ Scan \/ Deliver \/ Answer \/ DeliverAndAnswer \/ Abort

Spec == Init /\ [][Next]_vars
=============================================================================
