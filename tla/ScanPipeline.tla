---------------------------- MODULE ScanPipeline ----------------------------
(***************************************************************************)
(* One scan: runScan (src/core/scan.ts) with the runner of file rules      *)
(* (src/engine/runner.ts), the project rules (src/engine/project-rules.ts) *)
(* and the merge of runtime findings and the exit code of the scan command.*)
(*                                                                         *)
(* The project on disk is a value, world, that no step changes: what its   *)
(* files really import, which of them can be parsed, and what each rule    *)
(* would say of each.  Four rules stand for the kinds there are: one that  *)
(* reads its own file, one that concludes from what the other files lack,  *)
(* a project rule, and a project rule that concludes from absence.         *)
(***************************************************************************)
EXTENDS Naturals

CONSTANTS
  Files,  \* source files under the target
  Root,   \* the target itself, where a project rule's crash is reported
  Worlds  \* projects, configurations and scopes to scan

Lines == 1 .. 2

NoEval == "no-eval"
NoPipe == "missing-global-validation-pipe"
Cycle  == "circular-dependency"
Unused == "unused-file"
Runtime == "runtime-blocking-call"

FileRules    == {NoEval, NoPipe}
ProjectRules == {Cycle, Unused}
Rules == FileRules \cup ProjectRules
Category == [r \in Rules |-> CASE r = NoEval -> "Security"
                               [] r = NoPipe -> "Configuration"
                               [] r = Cycle  -> "Architecture"
                               [] r = Unused -> "Maintainability"]
Unset  == "unset"
Levels == {Unset, "off", "warn", "error"}

World == [
  imports : [Files -> SUBSET Files], \* the edges between files there really are
  ignored : SUBSET Files,            \* matched by an ignore glob
  broken  : SUBSET Files,            \* unreadable, binary or not parsable
  opaque  : SUBSET Files,            \* their aliases cannot be resolved
  tsconfig : BOOLEAN,                \* is tsconfig.json sound?
  package : {"ok", "unreadable", "absent"}, \* package.json
  main : SUBSET Files,               \* its main and bin targets
  conventional : SUBSET Files,       \* src/main.ts and the like
  nest : BOOLEAN,                    \* does it depend on @nestjs?
  extracts : BOOLEAN,                \* does the model extraction succeed?
  bootstrap : SUBSET Files,          \* files that create an application
  pipe : SUBSET Files,               \* modules that provide the global pipe
  evals : [Files -> SUBSET Lines],   \* findings of the rule on one file
  loops : SUBSET Files,              \* findings of the first project rule
  crashes : SUBSET (FileRules \X Files \cup ProjectRules \X {Root}),
  blocked : SUBSET Files,            \* runtime findings of --trace
  rules : [Rules -> Levels],         \* config.rules
  categories : [{Category[r] : r \in Rules} -> Levels],
  off : SUBSET Rules,                \* config.ignore.rules
  mode : {"full", "changed", "files", "lines"},
  files : SUBSET Files,              \* the resolved scope, unless full
  hunks : UNION {[S -> SUBSET Lines] : S \in SUBSET Files}]

ASSUME PipelineAssumption ==
  /\ Root \notin Files
  /\ \A w \in Worlds : w \in World

Stages == {"collect", "parse", "detect", "file rules", "lines", "project rules",
           "merge", "reported"}

VARIABLES
  world,      \* what is scanned, and how
  pc,         \* the next stage
  analyzed,   \* collected files in the scope
  views,      \* those that were parsed
  detected,   \* was Nest detected?
  model,      \* files the Nest model was built from
  found,      \* diagnostics
  skipped,    \* skippedChecks
  exit

vars == <<world, pc, analyzed, views, detected, model, found, skipped, exit>>

NoModel == {Root}
Pending == 2

Diagnostic(r, f, l, severity, internal) ==
  [rule |-> r, file |-> f, line |-> l, severity |-> severity, internal |-> internal]
Skip(check, at) == [check |-> check, at |-> at]

Init ==
  /\ world \in Worlds
  /\ pc = "collect"
  /\ analyzed = {} /\ views = {} /\ detected = FALSE /\ model = NoModel
  /\ found = {} /\ skipped = {} /\ exit = Pending

Scoped == world.mode # "full"

Goto(stage) == pc' = stage

-----------------------------------------------------------------------------
(* Collecting, parsing, detecting *)

InScope_All(f) == TRUE
InScope(f) == Scoped => f \in world.files

Collect ==
  /\ pc = "collect" /\ Goto("parse")
  /\ analyzed' = {f \in Files \ world.ignored : InScope(f)}
  /\ UNCHANGED <<world, views, detected, model, found, skipped, exit>>

(* A tsconfig.json is read for the first file that parses.                 *)
ConfigErrors(parsed) ==
  IF ~world.tsconfig /\ parsed # {} THEN {Skip("module-resolution", Root)} ELSE {}

ReadSkips == {Skip("read", f) : f \in analyzed \cap world.broken}

Parse ==
  /\ pc = "parse" /\ Goto("detect")
  /\ views' = analyzed \ world.broken
  /\ skipped' = ReadSkips \cup ConfigErrors(views')
  /\ UNCHANGED <<world, analyzed, detected, model, found, exit>>

(* Nest is a dependency, or imported by a parsed file.                     *)
NestSeen ==
  \/ world.nest /\ world.package = "ok"
  \/ views \cap (world.bootstrap \cup world.pipe) # {}

Detect ==
  /\ pc = "detect" /\ Goto("file rules")
  /\ detected' = NestSeen
  /\ model' = IF NestSeen /\ world.extracts THEN views ELSE NoModel
  /\ skipped' = skipped
       \cup (IF world.package = "unreadable" THEN {Skip("framework-detection", Root)} ELSE {})
       \cup (IF NestSeen /\ ~world.extracts THEN {Skip("nest-app-model", Root)} ELSE {})
  /\ UNCHANGED <<world, analyzed, views, found, exit>>

-----------------------------------------------------------------------------
(* Rules *)

(* resolveSeverity: the rule's own setting, its category's, its default.   *)
Severity(r) ==
  LET byCategory == world.categories[Category[r]] IN
  IF world.rules[r] # Unset THEN world.rules[r]
  ELSE IF byCategory # Unset THEN byCategory ELSE "warn"

Enabled(r) ==
  /\ r = NoPipe => detected
  /\ r \notin world.off
  /\ Severity(r) # "off"

Crashes(r, at) == <<r, at>> \in world.crashes

(* A rule that throws leaves an internal warning at 1:1 for its findings.  *)
CrashReport_Error(r, at) == {Diagnostic(r, at, 1, Severity(r), TRUE)}
CrashReport(r, at) == {Diagnostic(r, at, 1, "warn", TRUE)}

(* The lines rule r finds in f.  The pipe is missed if no module of the    *)
(* model provides it.                                                      *)
LinesFound(r, f) ==
  IF r = NoEval THEN world.evals[f]
  ELSE IF f \in world.bootstrap /\ model # NoModel /\ model \cap world.pipe = {}
       THEN {1} ELSE {}

RunFileRule(r, f) ==
  IF Crashes(r, f) THEN CrashReport(r, f)
  ELSE {Diagnostic(r, f, l, Severity(r), FALSE) : l \in LinesFound(r, f)}

CrashSkips_Quiet(rules, places) == {}
CrashSkips(rules, places) ==
  {Skip(p[1], p[2]) : p \in world.crashes \cap (rules \X places)}

FileRulesStage ==
  /\ pc = "file rules" /\ Goto("lines")
  /\ LET active == {r \in FileRules : Enabled(r)} IN
     /\ found' = UNION {RunFileRule(p[1], p[2]) : p \in active \X views}
     /\ skipped' = skipped \cup CrashSkips(active, views)
  /\ UNCHANGED <<world, analyzed, views, detected, model, exit>>

(* lines scope: an untracked file has no hunks and changed as a whole.     *)
InHunk(d) == d.file \in DOMAIN world.hunks => d.line \in world.hunks[d.file]

LinesStage ==
  /\ pc = "lines" /\ Goto("project rules")
  /\ found' = IF world.mode = "lines" THEN {d \in found : InHunk(d)} ELSE found
  /\ UNCHANGED <<world, analyzed, views, detected, model, skipped, exit>>

-----------------------------------------------------------------------------
(* Project rules: the import graph over the parsed files. *)

(* Where the imports of f resolve to, with a sound tsconfig.json.          *)
Resolved(f) == IF f \in world.opaque THEN {} ELSE world.imports[f]

(* An alias of a broken tsconfig.json looks like an external package; one  *)
(* of a sound one, and a target that was not parsed, is a failure.         *)
GraphFailures ==
  {f \in views : \/ f \in world.opaque /\ world.imports[f] # {} /\ world.tsconfig
                 \/ ~(Resolved(f) \subseteq views)}

(* What the graph cannot know makes conclusions from absence unsafe.       *)
Incomplete_GraphOnly == GraphFailures # {}
Incomplete ==
  \/ analyzed \cap world.broken # {}
  \/ ConfigErrors(views) # {}
  \/ GraphFailures # {}

Edges == [f \in Files |-> Resolved(f) \cap views]

(* package.json's targets and the conventional files, as far as analyzed.  *)
Entries ==
  ((IF world.package = "ok" THEN world.main ELSE {}) \cup world.conventional) \cap views

(* The files that edges lead to from S in any number of steps: the least   *)
(* set that holds S and is closed under edges.                             *)
Closure(S, edges) ==
  {f \in Files : \A C \in SUBSET Files :
     S \subseteq C /\ (\A g \in C : edges[g] \subseteq C) => f \in C}

FilesFound(r) ==
  IF r = Cycle THEN world.loops \cap views
  ELSE IF Entries = {} THEN {} ELSE views \ Closure(Entries, Edges)

RunProjectRule(r) ==
  IF Crashes(r, Root) THEN CrashReport(r, Root)
  ELSE {Diagnostic(r, f, 1, Severity(r), FALSE) : f \in FilesFound(r)}

ProjectStage ==
  /\ pc = "project rules" /\ Goto("merge")
  /\ IF Scoped
     THEN /\ skipped' = skipped \cup {Skip("project-rules", Root)}
          /\ UNCHANGED found
     ELSE LET active  == {r \in ProjectRules : Enabled(r)}
              unsafe  == IF Incomplete THEN active \cap {Unused} ELSE {}
              started == active \ unsafe
          IN /\ found' = found \cup UNION {RunProjectRule(r) : r \in started}
             /\ skipped' = skipped
                  \cup (IF world.package = "unreadable" THEN {Skip("package-surface", Root)} ELSE {})
                  \cup {Skip("module-resolution", f) : f \in GraphFailures}
                  \cup {Skip(r, "incomplete") : r \in unsafe}
                  \cup CrashSkips(started, {Root})
  /\ UNCHANGED <<world, analyzed, views, detected, model, exit>>

(* The command adds the runtime findings after every filter, and the exit  *)
(* code follows from the errors in the report.                             *)
RuntimeFound == {Diagnostic(Runtime, f, 1, "warn", FALSE) : f \in world.blocked}

Merge ==
  /\ pc = "merge" /\ Goto("reported")
  /\ found' = found \cup RuntimeFound
  /\ exit' = IF \E d \in found' : d.severity = "error" THEN 1 ELSE 0
  /\ UNCHANGED <<world, analyzed, views, detected, model, skipped>>

Reported == pc = "reported" /\ UNCHANGED vars

Next == Collect \/ Parse \/ Detect \/ FileRulesStage \/ LinesStage
        \/ ProjectStage \/ Merge \/ Reported

Spec == Init /\ [][Next]_vars

-----------------------------------------------------------------------------
(* Properties *)

Diagnostics ==
  [rule : Rules \cup {Runtime}, file : Files \cup {Root}, line : Lines,
   severity : {"warn", "error"}, internal : BOOLEAN]

TypeOK ==
  /\ world \in World /\ pc \in Stages
  /\ analyzed \subseteq Files /\ views \subseteq analyzed
  /\ detected \in BOOLEAN /\ model \in {NoModel, views}
  /\ found \subseteq Diagnostics
  /\ exit \in {0, 1, Pending}

Done == pc = "reported"

(* Is line l of file f what the user asked about?                          *)
Asked(f, l) ==
  /\ Scoped => f \in world.files
  /\ world.mode = "lines" /\ f \in DOMAIN world.hunks => l \in world.hunks[f]

Reports(r, f, l) ==
  \E d \in found : d.rule = r /\ d.file = f /\ d.line = l /\ ~d.internal

(* constitution 8, "Silent suppression is not allowed": whatever an        *)
(* enabled rule has to say about what was asked is in the report, or an    *)
(* entry of skippedChecks names the file or the rule that failed.          *)
NothingIsLost ==
  Done => \A f \in Files \ world.ignored :
    /\ \A l \in world.evals[f] :
         Enabled(NoEval) /\ Asked(f, l) =>
           \/ Reports(NoEval, f, l)
           \/ Skip("read", f) \in skipped \/ Skip(NoEval, f) \in skipped
    /\ f \in world.loops /\ Enabled(Cycle) =>
         \/ Reports(Cycle, f, 1)
         \/ Skip("read", f) \in skipped
         \/ {Skip(Cycle, Root), Skip("project-rules", Root)} \cap skipped # {}

(* spec 015 AC-2 and AC-3: nothing but what was asked, of files that are   *)
(* not ignored, is reported; crashes of project rules are about no file.   *)
OnlyWhatWasAsked ==
  Done => \A d \in found : d.rule # Runtime /\ d.file # Root =>
    Asked(d.file, d.line) /\ d.file \notin world.ignored

(* The entries that unused-file can know of: package.json can be read and  *)
(* no entry is ignored.                                                    *)
EntriesKnown ==
  \A w \in Worlds :
    /\ w.package = "ok" \/ (w.package = "absent" /\ w.main = {})
    /\ (w.main \cup w.conventional) \cap w.ignored = {}

(* unused-file.ts:21 "No entry point reaches this file through imports":   *)
(* what cannot be read or resolved never makes a file look unused.         *)
UnusedIsUnreachable ==
  \A f \in Closure(world.main \cup world.conventional, world.imports) :
    ~Reports(Unused, f, 1)

(* constitution 5 and 8: the build fails for an error a rule found, of a   *)
(* rule not set to less, and never because a rule crashed.                 *)
VerdictIsEarned ==
  exit = 1 => \E d \in found : /\ d.severity = "error" /\ ~d.internal
                              /\ d.rule \in Rules
                              /\ world.rules[d.rule] \in {"error", Unset}

(* spec 015, story 1: a scoped scan has the findings "a full scan would    *)
(* give" - here, that no file the full scan reads provides the pipe.       *)
ScopedIsPartOfFull ==
  Done /\ (\E f \in Files : Reports(NoPipe, f, 1)) =>
    world.pipe \subseteq world.ignored \cup world.broken
=============================================================================
