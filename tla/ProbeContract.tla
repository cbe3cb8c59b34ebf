---------------------------- MODULE ProbeContract ----------------------------
(***************************************************************************)
(* What one probe session promises its caller (spec 018, Contract and      *)
(* AC-7..AC-10), without processes, listeners, timers or files: the probe  *)
(* either refuses with 2 and has recorded nothing, or it opens a session,  *)
(* waits for its child to end, records that end and answers with it or     *)
(* with the signal the probe itself was sent.                              *)
(***************************************************************************)
EXTENDS Integers

CONSTANTS
  EndCode,        \* a function: the answer that reports each way of ending
  NoEnd,          \* the child has not ended
  SignalAnswers,  \* the answers that report a signal sent to the probe
  NoAnswer

Ends == DOMAIN EndCode

VARIABLES
  phase,    \* "idle", "open", "closed" (answered) or "aborted"
  childEnd, \* how the child ended
  record,   \* what the session's record says of that end
  answer    \* what the probe answered

vars == <<phase, childEnd, record, answer>>

Init == /\ phase = "idle" /\ childEnd = NoEnd /\ record = NoEnd
        /\ answer = NoAnswer

Refuse == /\ phase = "idle"
          /\ phase' = "closed" /\ answer' = 2
          /\ UNCHANGED <<childEnd, record>>

Open == /\ phase = "idle"
        /\ phase' = "open"
        /\ UNCHANGED <<childEnd, record, answer>>

ChildEnds == /\ phase \in {"open", "aborted"} /\ childEnd = NoEnd
             /\ childEnd' \in Ends
             /\ UNCHANGED <<phase, record, answer>>

Answer == /\ phase = "open" /\ childEnd # NoEnd
          /\ phase' = "closed"
          /\ record' = childEnd
          /\ answer' \in {EndCode[childEnd]} \cup SignalAnswers
          /\ UNCHANGED childEnd

(* The probe itself is killed. *)
Abort == /\ phase \in {"idle", "open"}
         /\ phase' = "aborted"
         /\ UNCHANGED <<childEnd, record, answer>>

Next == Refuse \/ Open \/ ChildEnds \/ Answer \/ Abort

Spec == Init /\ [][Next]_vars
=============================================================================
