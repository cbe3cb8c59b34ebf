----------------------------- MODULE ConsoleCopy -----------------------------
(***************************************************************************)
(* The copy of the result screens together with the clipboard it waits     *)
(* for: copy in src/cli/console/session.tsx awaits copyToClipboard of      *)
(* src/cli/console/clipboard.ts.  Each call has tools of its own; the      *)
(* variables are those of the last call.  What is left of an earlier one   *)
(* goes to its own closures, which have settled.                           *)
(***************************************************************************)
EXTENDS ConsoleView

CONSTANT Tools \* how many tools the platform has

ASSUME CopyAssumption == Tools \in Nat \ {0}

VARIABLES tool, child, held, timer, outcome, result \* those of Clipboard

clipboard == <<tool, child, held, timer, outcome, result>>

Clip == INSTANCE Clipboard

CopyInit == Init /\ Clip!Init

(* Return on a task calls copyToClipboard, which begins anew.              *)
CallClipboard ==
  /\ tool' = 1 /\ timer' = FALSE /\ result' = ""
  /\ child' = [i \in 1 .. Tools |-> "unstarted"]
  /\ held' = [i \in 1 .. Tools |-> FALSE]
  /\ outcome' = [i \in 1 .. Tools |-> ""]

KeyPressed ==
  \/ /\ Quit \/ Escape \/ Arrow \/ Coverage \/ Detail \/ Confirm \/ Cancel
        \/ EnterResults \/ EnterIssue
     /\ pending' = pending
     /\ UNCHANGED clipboard
  \/ /\ EnterResults \/ EnterIssue
     /\ pending' # pending
     /\ CallClipboard

(* The call goes on, or what it started still makes itself heard.          *)
Called == pending # {} \/ result # ""

ClipboardStep(step) == Called /\ step /\ UNCHANGED vars

ClipboardRuns == ClipboardStep(Clip!Next)

(* The await returns: the answer decides what is shown.                    *)
Shown_Always(answer) == "copied"
Shown(answer) == IF answer = "copied" THEN "copied" ELSE "copy failed"

CopyReturns ==
  /\ result # ""
  /\ CopyEnds
  /\ mounted => feedback' = Shown(result)
  /\ UNCHANGED clipboard

CopyNext == KeyPressed \/ ClipboardRuns \/ CopyReturns

copyVars == <<vars, clipboard>>

CopySpec == CopyInit /\ [][CopyNext]_copyVars

(* What Clipboard assumes of the program, and that an answered await goes  *)
(* on; of keys and tools nothing.                                          *)
FairCopySpec ==
  /\ CopySpec
  /\ WF_copyVars(ClipboardStep(Clip!Start))
  /\ WF_copyVars(ClipboardStep(Clip!TimesOut))
  /\ WF_copyVars(ClipboardStep(Clip!Continue))
  /\ WF_copyVars(CopyReturns)

-----------------------------------------------------------------------------
(* Properties *)

(* spec 028 AC-13: the line under the screen says copied only when  *)
(* a tool of the call took the text and exited 0, and the manual screen is *)
(* offered only when every tool of the platform has failed.                *)
LineIsTrue ==
  /\ feedback = "copied" => child[tool] = "succeeded"
  /\ feedback = "copy failed" => \A i \in 1 .. Tools : outcome[i] = "error"

(* No answer is given, and no other tool is tried, over a tool that still  *)
(* runs and was not sent SIGTERM: a hanging tool holds the user's text.    *)
(* It is about the timeout and the error of stdin, which go on without the *)
(* tool's close; whether the tool obeys is its own affair.                 *)
HungToolsAreTold == Clip!StragglersAreTold

(* The result screens with this clipboard are those of ConsoleView, whose  *)
(* assumption that a copy always ends the clipboard fulfils.               *)
ImplementsView == FairSpec
=============================================================================
