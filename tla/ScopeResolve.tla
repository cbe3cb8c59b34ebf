---------------------------- MODULE ScopeResolve -----------------------------
(***************************************************************************)
(* The scope of a changed or lines scan (src/scope/resolve.ts): a chain of *)
(* git processes, each of which sees the work tree and the index as they   *)
(* are when it runs, while their owner goes on editing and staging.        *)
(*                                                                         *)
(* A file is in the work tree or not, in the index or not, and differs     *)
(* from the merge base in some lines.  A name may be a pathspec pattern:   *)
(* git also lists what the pattern matches.  The target, or the work tree  *)
(* with it, may be removed meanwhile, and does not come back.              *)
(***************************************************************************)
EXTENDS Naturals, FiniteSets

CONSTANTS
  Files,     \* files of the repository
  Admitted,  \* those inside the scan target
  NLines,    \* lines of a file
  Matches,   \* the files a file's name matches as a pathspec
  ScopeCases,\* repositories, trees and requests: a subset of ScopeCase
  MaxEdits,  \* bound: edits and removals while the scope is resolved
  MaxFailures \* bound: git processes that fail although they should not

Lines == 1 .. NLines

File == [exists : BOOLEAN, indexed : BOOLEAN, ignored : BOOLEAN,
         differs : BOOLEAN, lines : SUBSET Lines]

ScopeCase ==
  [mode : {"changed", "lines"},
   git : BOOLEAN,      \* is git on PATH?
   repository : BOOLEAN, \* is the target inside a work tree?
   head : BOOLEAN,     \* does HEAD resolve? Not before the first commit
   base : {"HEAD", "ref", "unknown"}, \* --base: HEAD, a ref that resolves, or not
   related : BOOLEAN,  \* has the ref an ancestor in common with HEAD?
   tree : [Files -> File]]

ASSUME ScopeAssumption ==
  /\ Admitted \subseteq Files /\ NLines \in Nat
  /\ Matches \in [Files -> SUBSET Files] /\ \A f \in Files : f \in Matches[f]
  /\ ScopeCases \subseteq ScopeCase
  /\ MaxEdits \in Nat /\ MaxFailures \in Nat

VARIABLES
  case,     \* the request and the repository; its tree changes
  gitStep,  \* the look at the target or the git process that is next
  gone,     \* what was removed: "nothing", "target" or the whole "tree"
  merge,    \* is there a merge base to compare with?
  tracked,  \* answer of diff --name-only
  others,   \* answer of ls-files --others
  ranges,   \* the hunks of the files asked so far
  scope,    \* "pending", "error" or the outcome
  edits, failures,
  wasIn, wasOut, \* the files that have been in, out of, the true scope
  restaged, \* those whose place in the index has changed
  linesHad  \* per file: the line sets it has had

scopeVars == <<case, gitStep, gone, merge, tracked, others, ranges, scope, edits, failures,
               wasIn, wasOut, restaged, linesHad>>

NoScope == [ok |-> FALSE, files |-> {}, ranges |-> [f \in {} |-> {}]]
Pending == [ok |-> FALSE, files |-> Files, ranges |-> [f \in {} |-> {}]]

(* What the specification of the feature calls changed.                    *)
Changed(f, tree, head) ==
  LET file == tree[f] IN
  /\ f \in Admitted /\ file.exists
  /\ IF head /\ file.indexed THEN file.differs ELSE ~file.ignored

TrueScope(tree, head) == {f \in Files : Changed(f, tree, head)}

ScopeInit ==
  /\ case \in ScopeCases
  /\ gitStep = "look" /\ gone = "nothing" /\ merge = FALSE
  /\ tracked = {} /\ others = {} /\ ranges = [f \in {} |-> {}] /\ scope = Pending
  /\ edits = 0 /\ failures = 0
  /\ wasIn = TrueScope(case.tree, case.head) /\ wasOut = Files \ wasIn
  /\ restaged = {} /\ linesHad = [f \in Files |-> {case.tree[f].lines}]

-----------------------------------------------------------------------------
(* The owner edits, stages or unstages a file.                             *)
EditFile ==
  /\ edits < MaxEdits /\ scope = Pending /\ gone = "nothing"
  /\ \E f \in Files, file \in File :
       /\ file # case.tree[f] /\ file.ignored = case.tree[f].ignored
       /\ file.lines # {} => file.differs
       /\ case' = [case EXCEPT !.tree[f] = file]
       /\ restaged' = IF file.indexed = case.tree[f].indexed THEN restaged
                      ELSE restaged \cup {f}
       /\ linesHad' = [linesHad EXCEPT ![f] = @ \cup {file.lines}]
  /\ edits' = edits + 1
  /\ LET now == TrueScope(case'.tree, case.head)
     IN  wasIn' = wasIn \cup now /\ wasOut' = wasOut \cup (Files \ now)
  /\ UNCHANGED <<gitStep, gone, merge, tracked, others, ranges, scope, failures>>

(* Somebody removes the target, or the work tree; git still knows the      *)
(* files of the target, and finds none of them.                            *)
TakeAway ==
  /\ edits < MaxEdits /\ scope = Pending /\ gone = "nothing"
  /\ gone' \in {"target", "tree"}
  /\ case' = [case EXCEPT !.tree =
                [f \in Files |-> IF f \in Admitted
                                 THEN [case.tree[f] EXCEPT !.exists = FALSE, !.differs = TRUE, !.lines = {}]
                                 ELSE case.tree[f]]]
  /\ linesHad' = [f \in Files |-> linesHad[f] \cup {case'.tree[f].lines}]
  /\ wasOut' = wasOut \cup Files
  /\ edits' = edits + 1
  /\ UNCHANGED <<gitStep, merge, tracked, others, ranges, scope, failures, wasIn, restaged>>

history == <<gone, edits, wasIn, wasOut, restaged, linesHad>>

(* Without its directory a process does not start: that of the work tree,  *)
(* or for the first process the target's, gone with it unless it is a file.*)
GitRuns  == case.git /\ gone # "tree"
GitFails == ~GitRuns \/ (gitStep = "toplevel" /\ gone = "target") \/ failures < MaxFailures

(* A failure is reported, and the scan exits 2.                            *)
Report(count) ==
  /\ scope' = NoScope /\ gitStep' = "done" /\ failures' = count
  /\ UNCHANGED <<case, merge, tracked, others, ranges, history>>

Proceed(next) ==
  /\ gitStep' = next
  /\ UNCHANGED <<case, merge, tracked, others, ranges, scope, failures, history>>

(* statSync and realpathSync stand in no try: what is gone makes them      *)
(* throw, and the exception leaves resolveScope.                           *)
LookAt(step, next, lost) ==
  /\ gitStep = step
  /\ IF gone \in lost
     THEN /\ scope' = NoScope /\ gitStep' = "thrown"
          /\ UNCHANGED <<case, merge, tracked, others, ranges, failures, history>>
     ELSE Proceed(next)

LookAtTarget == LookAt("look", "toplevel", {"target", "tree"})
LookAtTop    == LookAt("top", "base", {"tree"})

Toplevel ==
  /\ gitStep = "toplevel"
  /\ \/ GitFails /\ Report(failures + 1)
     \/ GitRuns /\ ~case.repository /\ Report(failures)
     \/ GitRuns /\ case.repository /\ Proceed("top")

BaseResolves == IF case.base = "HEAD" THEN case.head ELSE case.base = "ref"

(* refResolves answers false for any failure of git.                       *)
Answers(truth) == {a \in {truth} : GitRuns} \cup {a \in {FALSE} : GitFails}
Count(answer, truth) == IF answer # truth THEN failures + 1 ELSE failures

(* With the base HEAD, false means a repository without commits, where     *)
(* nothing is tracked.                                                     *)
ResolveBase ==
  /\ gitStep = "base"
  /\ \E answer \in Answers(BaseResolves) :
       IF ~answer /\ case.base # "HEAD" THEN Report(Count(answer, BaseResolves))
       ELSE /\ gitStep' = IF answer THEN "head" ELSE "untracked"
            /\ failures' = Count(answer, BaseResolves)
            /\ UNCHANGED <<case, merge, tracked, others, ranges, scope, history>>

ResolveHead ==
  /\ gitStep = "head"
  /\ \E answer \in Answers(case.head) :
       /\ gitStep' = IF answer THEN "mergeBase" ELSE "untracked"
       /\ failures' = Count(answer, case.head)
  /\ UNCHANGED <<case, merge, tracked, others, ranges, scope, history>>

MergeBase ==
  /\ gitStep = "mergeBase"
  /\ \/ GitFails /\ Report(failures + 1)
     \/ GitRuns /\ case.base = "ref" /\ ~case.related /\ Report(failures)
     \/ /\ GitRuns /\ (case.base = "ref" => case.related)
        /\ merge' = TRUE /\ gitStep' = "diff"
        /\ UNCHANGED <<case, tracked, others, ranges, scope, failures, history>>

DiffNames_Deleted == {f \in Files : case.tree[f].indexed /\ case.tree[f].differs}
DiffNames == {f \in Files : case.tree[f].indexed /\ case.tree[f].exists /\ case.tree[f].differs}

Diff ==
  /\ gitStep = "diff"
  /\ \/ GitFails /\ Report(failures + 1)
     \/ /\ GitRuns /\ tracked' = DiffNames /\ gitStep' = "untracked"
        /\ UNCHANGED <<case, merge, others, ranges, scope, failures, history>>

UntrackedNames ==
  {f \in Files : case.tree[f].exists /\ ~case.tree[f].indexed /\ ~case.tree[f].ignored}

Untracked ==
  /\ gitStep = "untracked"
  /\ \/ GitFails /\ Report(failures + 1)
     \/ /\ GitRuns /\ others' = UntrackedNames /\ gitStep' = "hunks"
        /\ UNCHANGED <<case, merge, tracked, ranges, scope, failures, history>>

(* git diff -U0 <merge base> -- <name>: the new-side lines of every hunk,  *)
(* of every file the name matches.  A file that has left the work tree or  *)
(* the index shows as deleted, with no lines.                              *)
Hunks_OfAll(f) == UNION {case.tree[g].lines : g \in tracked}
Hunks(f) == UNION {IF case.tree[g].exists /\ case.tree[g].indexed
                   THEN case.tree[g].lines ELSE {} : g \in Matches[f]}

HunksWanted == IF case.mode = "lines" /\ merge THEN (tracked \cap Admitted) \ DOMAIN ranges ELSE {}

AskHunks ==
  /\ gitStep = "hunks"
  /\ \E f \in HunksWanted :
       \/ GitFails /\ Report(failures + 1)
       \/ /\ GitRuns
          /\ ranges' = [g \in DOMAIN ranges \cup {f} |-> IF g = f THEN Hunks(f) ELSE ranges[g]]
          /\ UNCHANGED <<case, gitStep, merge, tracked, others, scope, failures, history>>

ScopeFiles == (tracked \cup others) \cap Admitted

Resolved ==
  /\ gitStep = "hunks" /\ HunksWanted = {}
  /\ scope' = [ok |-> TRUE, files |-> ScopeFiles, ranges |-> ranges]
  /\ gitStep' = "done"
  /\ UNCHANGED <<case, merge, tracked, others, ranges, failures, history>>

ScopeNext == \/ EditFile \/ TakeAway \/ LookAtTarget \/ Toplevel \/ LookAtTop \/ ResolveBase \/ ResolveHead
             \/ MergeBase \/ Diff \/ Untracked \/ AskHunks \/ Resolved

ScopeSpec == ScopeInit /\ [][ScopeNext]_scopeVars

-----------------------------------------------------------------------------
(* Has every git process done what it was asked?                           *)
GitAnswered == failures = 0

(* A scope is given only for a repository and a base that git knows, and   *)
(* for a ref that has an ancestor in common with HEAD (spec 015 AC-7).  A  *)
(* failed process leaves no scope but for one: a rev-parse that fails for  *)
(* HEAD reads as a repository without commits, and of the changes only the *)
(* files that are not tracked remain.                                      *)
OnlyRevParseFailsUnseen ==
  scope.ok => /\ case.git /\ case.repository /\ case.base # "unknown"
              /\ IF GitAnswered THEN case.base = "ref" /\ case.head => case.related
                 ELSE case.head /\ tracked = {} /\ scope.files = others \cap Admitted /\ DOMAIN ranges = {}

(* resolve.ts:32: "A failure is a reported usage-environment error (exit 2 *)
(* via the CLI), never a silent fallback": no scope where git failed.      *)
FailureIsNeverSilent == scope.ok => GitAnswered

(* The line ranges of a tracked file are those of its own content at some  *)
(* moment of the resolution; an untracked file has none and counts as a    *)
(* whole (AC-3).                                                           *)
OwnLines(f) == scope.ok /\ f \in DOMAIN scope.ranges \ restaged /\ f \notin wasOut
               => scope.ranges[f] \in linesHad[f]

(* Whatever its owner does meanwhile: a file that was changed all the time *)
(* and stayed where it was in the index is in the scope, one that was      *)
(* never changed is not (AC-2, AC-10), and a file whose name matches no    *)
(* other has its own lines.                                                *)
ScopeIsTrue ==
  /\ scope.ok /\ GitAnswered /\ case.head =>
       /\ Files \ (wasOut \cup restaged) \subseteq scope.files
       /\ scope.files \subseteq wasIn
  /\ \A f \in Files : Matches[f] = {f} => OwnLines(f)

(* docs/specs/015-diff-scope/spec.md, AC-3: "keep only the in-hunk         *)
(* diagnostics" of the file, whatever its name.                            *)
OnlyItsOwnHunks == \A f \in Files : OwnLines(f)
=============================================================================
