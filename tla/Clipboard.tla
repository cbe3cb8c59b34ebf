------------------------------ MODULE Clipboard ------------------------------
(***************************************************************************)
(* copyToClipboard (src/cli/console/clipboard.ts): the platform's tools    *)
(* are tried in order, each with the text on its stdin, until one exits 0. *)
(* A tool may be missing, fail, close its stdin early, hang, or leave a    *)
(* background process that keeps its stderr open, so that node never       *)
(* reports it closed.                                                      *)
(***************************************************************************)
EXTENDS Integers

CONSTANT Tools \* how many tools the platform has: one, or three on Linux

VARIABLES
  tool,    \* the tool being tried
  child,   \* per tool: unstarted, missing, running, told (to end), succeeded, failed
  held,    \* per tool: does something keep its stderr open?
  timer,   \* is the timeout of the current tool pending?
  outcome, \* per tool: how its promise settled: "", "ok" or "error"
  result   \* what copyToClipboard answered: "", "copied" or "unavailable"

vars == <<tool, child, held, timer, outcome, result>>

Exited == {"succeeded", "failed"}
Runs   == {"running", "told"}

Init ==
  /\ tool = 1
  /\ child = [i \in 1 .. Tools |-> "unstarted"]
  /\ held = [i \in 1 .. Tools |-> FALSE]
  /\ timer = FALSE
  /\ outcome = [i \in 1 .. Tools |-> ""]
  /\ result = ""

(* finish: only the first call counts.                                     *)
Finish(i, how) ==
  IF outcome[i] # "" THEN UNCHANGED <<outcome, timer>>
  ELSE outcome' = [outcome EXCEPT ![i] = how] /\ timer' = FALSE

(* child.kill(): a tool that still runs is sent one SIGTERM.  Nothing looks *)
(* whether it arrives: the tool may end of it, sooner or later, or go on.  *)
Kill(i) == child' = [child EXCEPT ![i] = IF @ = "running" THEN "told" ELSE @]

(* spawn throws, finds no such program, or starts the tool.                *)
Start ==
  /\ result = "" /\ child[tool] = "unstarted" /\ outcome[tool] = ""
  /\ \/ Finish(tool, "error") /\ UNCHANGED child
     \/ /\ \E c \in {"missing", "running"} : child' = [child EXCEPT ![tool] = c]
        /\ timer' = TRUE
        /\ UNCHANGED outcome
  /\ UNCHANGED <<tool, held, result>>

ErrorEvent ==
  /\ child[tool] = "missing"
  /\ Finish(tool, "error")
  /\ UNCHANGED <<tool, child, held, result>>

(* What the tool does: it exits 0 only when it took the text, which it may *)
(* still do after it was told to end.  A signal makes it fail.             *)
ToolExits(i) ==
  /\ child[i] \in Runs
  /\ \E c \in {"succeeded", "failed"} : child' = [child EXCEPT ![i] = c]
  /\ held' \in {held, [held EXCEPT ![i] = TRUE]}
  /\ UNCHANGED <<tool, timer, outcome, result>>

BackgroundEnds(i) ==
  /\ held[i]
  /\ held' = [held EXCEPT ![i] = FALSE]
  /\ UNCHANGED <<tool, child, timer, outcome, result>>

CloseOutcome_Any(i) == "ok"
CloseOutcome(i) == IF child[i] = "succeeded" THEN "ok" ELSE "error"

CloseEvent(i) ==
  /\ child[i] \in Exited /\ ~held[i]
  /\ Finish(i, CloseOutcome(i))
  /\ UNCHANGED <<tool, child, held, result>>

(* The write to stdin fails, because the tool closed it or is gone.        *)
StdinError(i) ==
  /\ child[i] \in Runs \cup Exited
  /\ Kill(i) /\ Finish(i, "error")
  /\ UNCHANGED <<tool, held, result>>

TimesOut_OnlyKills ==
  /\ timer
  /\ timer' = FALSE /\ Kill(tool)
  /\ UNCHANGED <<tool, held, outcome, result>>
TimesOut ==
  /\ timer
  /\ Kill(tool) /\ Finish(tool, "error")
  /\ UNCHANGED <<tool, held, result>>

(* The loop goes on after the await.                                       *)
Continue ==
  /\ result = "" /\ outcome[tool] # ""
  /\ IF outcome[tool] = "error" /\ tool < Tools
     THEN tool' = tool + 1 /\ UNCHANGED result
     ELSE /\ result' = IF outcome[tool] = "ok" THEN "copied" ELSE "unavailable"
          /\ UNCHANGED tool
  /\ UNCHANGED <<child, held, timer, outcome>>

Done == result # "" /\ UNCHANGED vars

Next ==
  \/ Start \/ ErrorEvent \/ TimesOut \/ Continue \/ Done
  \/ \E i \in 1 .. Tools :
       ToolExits(i) \/ BackgroundEnds(i) \/ CloseEvent(i) \/ StdinError(i)

Spec == Init /\ [][Next]_vars

-----------------------------------------------------------------------------
(* Properties *)

TypeOK ==
  /\ tool \in 1 .. Tools
  /\ child \in [1 .. Tools -> {"unstarted", "missing"} \cup Runs \cup Exited]
  /\ held \in [1 .. Tools -> BOOLEAN] /\ timer \in BOOLEAN
  /\ outcome \in [1 .. Tools -> {"", "ok", "error"}]
  /\ result \in {"", "copied", "unavailable"}

(* Copied is only said when a tool took the text and exited 0; a late      *)
(* close of an earlier tool, or a timer left over from it, changes nothing.*)
CopiedIsTrue == result = "copied" => child[tool] = "succeeded"

(* Unavailable is only said after every tool was tried and failed.         *)
GivesUpLast ==
  result = "unavailable" => \A i \in 1 .. Tools : outcome[i] = "error"

(* The timeout belongs to the tool being tried: once that one has answered *)
(* no timer is left to cut the next one short.                             *)
TimerIsCurrent == timer => outcome[tool] = ""

(* A tool that has not ended when the next one is tried or the user is     *)
(* answered was told to.                                                   *)
StragglersAreTold ==
  \A i \in 1 .. Tools : child[i] = "running" => i = tool /\ outcome[i] = ""
=============================================================================
