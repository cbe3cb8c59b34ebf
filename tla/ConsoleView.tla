----------------------------- MODULE ConsoleView -----------------------------
(***************************************************************************)
(* The result screens of the interactive console: the navigation reducer   *)
(* (src/cli/console/state.ts) and the Results component that drives it     *)
(* (src/cli/console/session.tsx) with its asynchronous copy and its        *)
(* workflow installation (src/cli/console/actions.ts).                     *)
(*                                                                         *)
(* Prompts are numbers: 0 is the task of the whole report, g the task of   *)
(* issue group g.  Feedback lines are named, not spelled out.              *)
(***************************************************************************)
EXTENDS Integers, Sequences

CONSTANTS
  Reports,   \* a report: the number of occurrences in each issue group
  MaxScroll, \* bound: the last line a screen can be scrolled to
  MaxCopies, \* bound: copies started
  MaxGroups  \* the most issue groups a report has

ASSUME ViewAssumption ==
  /\ Reports \subseteq Seq(Nat \ {0})
  /\ MaxGroups \in Nat
  /\ \A r \in Reports : Len(r) <= MaxGroups
  /\ MaxScroll \in Nat
  /\ MaxCopies \in Nat

Screens  == {"results", "review", "detail", "coverage", "manual", "confirm"}
Feedback == {"", "none selected", "copying", "copied", "copy failed",
             "cancelled", "installed", "not installed", "protected"}
NoPrompt == -1

VARIABLES
  counts,   \* occurrences per group, fixed once the report is presented
  state,    \* ConsoleState
  busy,     \* the handler's view: a copy is pending
  pending,  \* copies not answered yet: the task and the number of the copy
  feedback, \* the line under the screen
  manual,   \* the prompt offered for manual copy
  workflow, \* does the scanned package have a workflow file?
  mounted,  \* FALSE once the user quit
  copies    \* copies started, for the bound

vars == <<counts, state, busy, pending, feedback, manual, workflow, mounted,
          copies>>

(* Occurrences of the group at zero-based index g, 0 beyond the end.       *)
CountAt(g) == IF g < Len(counts) THEN counts[g + 1] ELSE 0
Clamp(n, low, high) == IF n < low THEN low ELSE IF n > high THEN high ELSE n

Init ==
  /\ counts \in Reports
  /\ state = [screen |-> "results", back |-> "results", menu |-> 0, group |-> 0,
              occurrence |-> 0, scroll |-> 0]
  /\ busy = FALSE /\ pending = {}
  /\ feedback = "" /\ manual = NoPrompt
  /\ workflow \in BOOLEAN
  /\ mounted = TRUE
  /\ copies = 0

-----------------------------------------------------------------------------
(* navigate: one operator per kind of key. *)

Back(s) ==
  [s EXCEPT !.screen = IF s.screen = "review" THEN "results" ELSE s.back,
            !.scroll = 0]

Open(s, screen) ==
  [s EXCEPT !.screen = screen,
            !.back = IF s.screen = "detail" THEN "review" ELSE s.screen,
            !.scroll = 0]

(* up (-1) and down (+1)                                                   *)
SelectGroup_KeepsSite(s, delta) ==
  [s EXCEPT !.group = Clamp(s.group + delta, 0, Clamp(Len(counts) - 1, 0, Len(counts)))]
SelectGroup(s, delta) ==
  [s EXCEPT !.group = Clamp(s.group + delta, 0, Clamp(Len(counts) - 1, 0, Len(counts))),
            !.occurrence = 0, !.scroll = 0]

Vertical(s, delta) ==
  CASE s.screen = "results" -> [s EXCEPT !.menu = Clamp(s.menu + delta, 0, 3)]
    [] s.screen = "review"  -> SelectGroup(s, delta)
    [] OTHER                -> [s EXCEPT !.scroll = Clamp(s.scroll + delta, 0, MaxScroll)]

(* left (-1) and right (+1)                                                *)
Horizontal(s, delta) ==
  LET count == CountAt(s.group) IN
  IF s.screen \notin {"review", "detail"} THEN s
  ELSE [s EXCEPT !.occurrence = IF count = 0 THEN 0
                                ELSE (s.occurrence + delta + count) % count,
                 !.scroll = 0]

-----------------------------------------------------------------------------
(* The key handler.  Its early returns are the guards below: the keys of   *)
(* every screen come before those of the confirmation, and s before both.  *)

Key == mounted

Quit ==
  /\ Key
  /\ mounted' = FALSE
  /\ UNCHANGED <<counts, state, busy, pending, feedback, manual, workflow, copies>>

Escape ==
  /\ Key
  /\ state' = Back(state) /\ feedback' = ""
  /\ UNCHANGED <<counts, busy, pending, manual, workflow, mounted, copies>>

Arrow ==
  /\ Key
  /\ \E delta \in {-1, 1} : state' \in {Vertical(state, delta), Horizontal(state, delta)}
  /\ UNCHANGED <<counts, busy, pending, feedback, manual, workflow, mounted, copies>>

Coverage ==
  /\ Key /\ state.screen # "coverage"
  /\ state' = Open(state, "coverage")
  /\ UNCHANGED <<counts, busy, pending, feedback, manual, workflow, mounted, copies>>

HasGroup == state.group < Len(counts)

Detail ==
  /\ Key /\ state.screen = "review" /\ HasGroup
  /\ state' = Open(state, "detail")
  /\ UNCHANGED <<counts, busy, pending, feedback, manual, workflow, mounted, copies>>

(* y runs the installer, which leaves an existing file alone and may not   *)
(* be able to write a new one.                                             *)
Confirm ==
  /\ Key /\ state.screen = "confirm"
  /\ \/ workflow /\ feedback' = "protected" /\ UNCHANGED workflow
     \/ ~workflow /\ feedback' = "installed" /\ workflow' = TRUE
     \/ ~workflow /\ feedback' = "not installed" /\ UNCHANGED workflow
  /\ state' = Back(state)
  /\ UNCHANGED <<counts, busy, pending, manual, mounted, copies>>

Cancel ==
  /\ Key /\ state.screen = "confirm"
  /\ feedback' = "cancelled"
  /\ state' = Back(state)
  /\ UNCHANGED <<counts, busy, pending, manual, workflow, mounted, copies>>

(* copy: ignored while another copy is pending.                            *)
MayCopy_Always == TRUE
MayCopy == ~busy

StartCopy(task) ==
  /\ MayCopy
  /\ copies < MaxCopies
  /\ busy' = TRUE /\ pending' = pending \cup {[task |-> task, copy |-> copies]} /\ feedback' = "copying"
  /\ copies' = copies + 1
  /\ UNCHANGED <<counts, state, manual, workflow, mounted>>

EnterResults ==
  /\ Key /\ state.screen = "results"
  /\ \/ /\ state.menu = 0
        /\ state' = Open(state, "review")
        /\ UNCHANGED <<counts, busy, pending, feedback, manual, workflow,
                       mounted, copies>>
     \/ state.menu = 1 /\ StartCopy(0)
     \/ /\ state.menu = 2
        /\ state' = Open(state, "confirm")
        /\ UNCHANGED <<counts, busy, pending, feedback, manual, workflow,
                       mounted, copies>>
     \/ state.menu = 3 /\ Quit

EnterIssue ==
  /\ Key /\ state.screen \in {"review", "detail"}
  /\ \/ HasGroup /\ StartCopy(state.group + 1)
     \/ /\ ~HasGroup /\ MayCopy
        /\ feedback' = "none selected"
        /\ UNCHANGED <<counts, state, busy, pending, manual, workflow, mounted,
                       copies>>

(* The clipboard answers, on whatever screen the user is by then.  After   *)
(* the console is unmounted the updates go nowhere.                        *)
FailedCopy_Quiet(task)  == UNCHANGED <<state, manual>>
FailedCopy(task)        == state' = Open(state, "manual") /\ manual' = task

CopyEnds ==
  /\ \E p \in pending :
       /\ pending' = pending \ {p}
       /\ \/ /\ mounted
             /\ feedback' = "copied"
             /\ UNCHANGED <<state, manual>>
          \/ /\ mounted
             /\ feedback' = "copy failed"
             /\ FailedCopy(p.task)
          \/ /\ ~mounted
             /\ UNCHANGED <<state, manual, feedback>>
  /\ busy' = FALSE
  /\ UNCHANGED <<counts, workflow, mounted, copies>>

Next == Quit \/ Escape \/ Arrow \/ Coverage \/ Detail \/ Confirm \/ Cancel
        \/ EnterResults \/ EnterIssue \/ CopyEnds

Spec == Init /\ [][Next]_vars

(* copyToClipboard always settles (module Clipboard). *)
FairSpec == Spec /\ WF_vars(CopyEnds)

-----------------------------------------------------------------------------
(* Properties *)

ConsoleState == [screen : Screens, back : Screens, menu : 0 .. 3, group : Nat,
                 occurrence : Nat, scroll : 0 .. MaxScroll]

TypeOK ==
  /\ counts \in Reports
  /\ state \in ConsoleState
  /\ busy \in BOOLEAN
  /\ pending \subseteq [task : 0 .. Len(counts), copy : Nat]
  /\ feedback \in Feedback
  /\ manual \in {NoPrompt} \cup 0 .. Len(counts)
  /\ workflow \in BOOLEAN /\ mounted \in BOOLEAN
  /\ copies \in 0 .. MaxCopies

(* spec 028 AC-8: whatever the keys, the selected group and occurrence     *)
(* exist, so details are reachable, as long as the report has any.         *)
SelectionIsValid ==
  Len(counts) > 0 =>
    /\ state.group < Len(counts)
    /\ state.occurrence < CountAt(state.group)

(* spec 028 AC-13: the manual-copy screen always has the task of a copy    *)
(* that failed, even when the failure arrives long after the key.          *)
ManualHasTask == state.screen = "manual" => manual # NoPrompt

(* One copy at a time: a second Return while the clipboard command runs    *)
(* starts nothing, so a late answer cannot belong to an older copy.  The   *)
(* line says copying only while one is pending.                            *)
OneCopyAtATime ==
  /\ \A p, q \in pending : p = q
  /\ busy <=> pending # {}
  /\ mounted /\ feedback = "copying" => busy

(* Without detours Escape leads from the details to the issue list.        *)
DetailReturnsToReview == state.screen = "detail" => state.back = "review"

(* What makes the properties above inductive: no way back leads to the     *)
(* details, and one to the manual screen has a task waiting there.         *)
WayBackInv ==
  /\ state.back # "detail"
  /\ state.back = "manual" => manual # NoPrompt

(* spec 028 AC-13: a copy ends in the success line or in the manual screen *)
(* with that very task, whatever was pressed while it was pending, unless  *)
(* the user quits.                                                         *)
CopyIsAnswered ==
  \A task \in 0 .. MaxGroups :
    (\E p \in pending : p.task = task) ~>
      \/ feedback = "copied"
      \/ state.screen = "manual" /\ manual = task
      \/ ~mounted

(* README.md:94 "Esc | Return to the previous view": pressing Escape often *)
(* enough leads back to the results, whatever view the user is on.         *)
EscapeLeadsHome == Back(Back(Back(state))).screen = "results"
=============================================================================
