------------------------- MODULE ScanPipelineProofs -------------------------
(***************************************************************************)
(* For every set of files and every project, configuration and scope in    *)
(* Worlds: ScanPipeline keeps its type invariant, loses nothing that was   *)
(* asked for without a word, reports nothing else, and fails the build     *)
(* only for an earned error.                                               *)
(*                                                                         *)
(* Each property is about the finished report, so the inductive invariant  *)
(* says what every stage has established by the time it is over.           *)
(***************************************************************************)
EXTENDS ScanPipeline, TLAPS

(* What the stages that have not run yet leave at its initial value.       *)
NotYet ==
  /\ pc = "collect" => views = {}
  /\ pc \in {"collect", "parse", "detect"} => model = NoModel
  /\ pc \in {"collect", "parse", "detect", "file rules"} => found = {}
  /\ pc # "reported" => exit = Pending

(* Once collected and parsed, the views are the sound files of the scope,  *)
(* and the others have an entry in skippedChecks.                          *)
Selected ==
  /\ pc # "collect" => analyzed = {f \in Files \ world.ignored : InScope(f)}
  /\ pc \notin {"collect", "parse"} =>
       /\ views = analyzed \ world.broken
       /\ ReadSkips \subseteq skipped

(* After its stage a file rule's findings are there, or its crash is.      *)
EvalsKept ==
  pc \in {"lines", "project rules", "merge", "reported"} /\ Enabled(NoEval) =>
    \A f \in views : \A l \in world.evals[f] : Asked(f, l) =>
      \/ Diagnostic(NoEval, f, l, Severity(NoEval), FALSE) \in found
      \/ Skip(NoEval, f) \in skipped

(* The same for a project rule that needs no complete graph.               *)
CyclesKept ==
  pc \in {"merge", "reported"} =>
    /\ Scoped => Skip("project-rules", Root) \in skipped
    /\ Enabled(Cycle) /\ ~Scoped => \A f \in world.loops \cap views :
         \/ Diagnostic(Cycle, f, 1, Severity(Cycle), FALSE) \in found
         \/ Skip(Cycle, Root) \in skipped

(* Only views are reported on, and after the filter only asked lines.      *)
FoundWhereAsked ==
  \A d \in found : d.rule # Runtime /\ d.file # Root =>
    /\ d.file \in views
    /\ pc # "lines" => Asked(d.file, d.line)

(* Errors are findings of rules whose setting allows an error.             *)
ErrorsAreEarned ==
  \A d \in found : d.severity = "error" =>
    /\ ~d.internal
    /\ d.rule \in Rules
    /\ world.rules[d.rule] \in {"error", Unset}

IInv == /\ TypeOK
        /\ NotYet
        /\ Selected
        /\ EvalsKept
        /\ CyclesKept
        /\ FoundWhereAsked
        /\ ErrorsAreEarned
        /\ exit = 1 => \E d \in found : d.severity = "error"

-----------------------------------------------------------------------------
(* What the parts of a world are, kept apart from its record type. *)
LEMMA WorldParts ==
  ASSUME world \in World
  PROVE  /\ world.rules \in [Rules -> Levels]
         /\ world.categories \in [{Category[r] : r \in Rules} -> Levels]
         /\ world.evals \in [Files -> SUBSET Lines]
         /\ world.loops \subseteq Files
         /\ world.blocked \subseteq Files
BY DEF World

(* An enabled rule has a severity a report can show, and an error only     *)
(* if its own setting is an error or is left to its category.              *)
LEMMA SeverityValue ==
  ASSUME world \in World, NEW r \in Rules, Severity(r) # "off"
  PROVE  /\ Severity(r) \in {"warn", "error"}
         /\ Severity(r) = "error" => world.rules[r] \in {"error", Unset}
<1>1. world.rules[r] \in Levels
  BY WorldParts
<1>2. world.categories[Category[r]] \in Levels
  BY WorldParts
<1> QED
  BY <1>1, <1>2 DEF Severity, Levels, Unset

(* A diagnostic of a rule about a file or the target has the right type.   *)
LEMMA DiagnosticType ==
  ASSUME NEW r \in Rules \cup {Runtime}, NEW f \in Files \cup {Root},
         NEW l \in Lines, NEW s \in {"warn", "error"}, NEW i \in BOOLEAN
  PROVE  Diagnostic(r, f, l, s, i) \in Diagnostics
BY DEF Diagnostic, Diagnostics

LEMMA PendingIsNone == Pending # 1
BY DEF Pending

(* The names of rules differ. *)
LEMMA RuleNames ==
  /\ NoEval \in FileRules /\ NoPipe \in FileRules
  /\ Cycle \in ProjectRules
  /\ FileRules \subseteq Rules /\ ProjectRules \subseteq Rules
  /\ Runtime \notin Rules
  /\ NoEval # NoPipe /\ Cycle # NoPipe /\ Cycle # Unused
BY DEF NoEval, NoPipe, Cycle, Unused, Runtime, FileRules, ProjectRules, Rules

(* No step changes the world, nor what depends on it alone. *)
LEMMA WorldKept ==
  ASSUME world' = world
  PROVE  /\ \A r : Severity(r)' = Severity(r)
         /\ \A f, l : Asked(f, l)' = Asked(f, l)
         /\ \A f : InScope(f)' = InScope(f)
         /\ Scoped' = Scoped
         /\ Enabled(NoEval)' = Enabled(NoEval)
         /\ Enabled(Cycle)' = Enabled(Cycle)
<1>1. \A r : Severity(r)' = Severity(r)
  BY DEF Severity
<1>2. \A f, l : Asked(f, l)' = Asked(f, l)
  BY DEF Asked, Scoped
<1>3. Scoped' = Scoped /\ \A f : InScope(f)' = InScope(f)
  BY DEF InScope, Scoped
<1>4. Enabled(NoEval)' = Enabled(NoEval) /\ Enabled(Cycle)' = Enabled(Cycle)
  BY <1>1, RuleNames DEF Enabled
<1> QED
  BY <1>1, <1>2, <1>3, <1>4

(* What one file rule leaves for one file: its findings, or its crash.     *)
LEMMA FileRuleReport ==
  ASSUME world \in World, NEW r \in FileRules, Enabled(r), NEW f \in Files,
         NEW d \in RunFileRule(r, f)
  PROVE  /\ d \in Diagnostics
         /\ d.rule = r /\ d.file = f
         /\ d.severity = "error" =>
              ~d.internal /\ world.rules[r] \in {"error", Unset}
<1>1. Severity(r) # "off" /\ r \in Rules
  BY RuleNames DEF Enabled
<1>2. /\ Severity(r) \in {"warn", "error"}
      /\ Severity(r) = "error" => world.rules[r] \in {"error", Unset}
  BY <1>1, SeverityValue
<1>3. LinesFound(r, f) \subseteq Lines
  <2>1. world.evals[f] \subseteq Lines
    BY WorldParts
  <2> QED BY <2>1 DEF LinesFound, Lines
<1>4. CASE Crashes(r, f)
  <2>1. d = Diagnostic(r, f, 1, "warn", TRUE)
    BY <1>4 DEF RunFileRule, CrashReport
  <2>2. 1 \in Lines
    BY DEF Lines
  <2>3. d \in Diagnostics
    BY <1>1, <2>1, <2>2, DiagnosticType
  <2>4. d.rule = r /\ d.file = f /\ d.severity = "warn"
    BY <2>1, Zenon DEF Diagnostic
  <2> QED BY <2>3, <2>4
<1>5. CASE ~Crashes(r, f)
  <2>1. PICK l \in LinesFound(r, f) : d = Diagnostic(r, f, l, Severity(r), FALSE)
    BY <1>5 DEF RunFileRule
  <2>2. d \in Diagnostics
    BY <1>1, <1>2, <1>3, <2>1, DiagnosticType
  <2>3. d.rule = r /\ d.file = f /\ d.severity = Severity(r) /\ d.internal = FALSE
    BY <2>1, Zenon DEF Diagnostic
  <2> QED BY <1>2, <2>2, <2>3
<1> QED BY <1>4, <1>5

(* The same for a project rule, whose crash is about no file.              *)
LEMMA ProjectRuleReport ==
  ASSUME world \in World, views \subseteq Files, NEW r \in ProjectRules, Enabled(r),
         NEW d \in RunProjectRule(r)
  PROVE  /\ d \in Diagnostics
         /\ d.rule = r /\ d.file \in views \cup {Root}
         /\ d.severity = "error" =>
              ~d.internal /\ world.rules[r] \in {"error", Unset}
<1>1. Severity(r) # "off" /\ r \in Rules
  BY RuleNames DEF Enabled
<1>2. /\ Severity(r) \in {"warn", "error"}
      /\ Severity(r) = "error" => world.rules[r] \in {"error", Unset}
  BY <1>1, SeverityValue
<1>3. 1 \in Lines
  BY DEF Lines
<1>4. CASE Crashes(r, Root)
  <2>1. d = Diagnostic(r, Root, 1, "warn", TRUE)
    BY <1>4 DEF RunProjectRule, CrashReport
  <2>2. d \in Diagnostics
    BY <1>1, <1>3, <2>1, DiagnosticType
  <2>3. d.rule = r /\ d.file = Root /\ d.severity = "warn"
    BY <2>1, Zenon DEF Diagnostic
  <2> QED BY <2>2, <2>3
<1>5. CASE ~Crashes(r, Root)
  <2>1. PICK f \in FilesFound(r) : d = Diagnostic(r, f, 1, Severity(r), FALSE)
    BY <1>5 DEF RunProjectRule
  <2>2. f \in views
    BY <2>1 DEF FilesFound
  <2>3. d \in Diagnostics
    BY <1>1, <1>2, <1>3, <2>1, <2>2, DiagnosticType
  <2>4. d.rule = r /\ d.file = f /\ d.severity = Severity(r) /\ d.internal = FALSE
    BY <2>1, Zenon DEF Diagnostic
  <2> QED BY <1>2, <2>2, <2>3, <2>4
<1> QED BY <1>4, <1>5

-----------------------------------------------------------------------------
LEMMA InitIInv == Init => IInv
<1> SUFFICES ASSUME Init PROVE IInv
  OBVIOUS
<1>1. /\ world \in World /\ pc = "collect" /\ analyzed = {} /\ views = {}
      /\ detected = FALSE /\ model = NoModel /\ found = {} /\ skipped = {}
      /\ exit = Pending
  BY PipelineAssumption DEF Init
<1>2. TypeOK
  BY <1>1 DEF TypeOK, Stages
<1>3. NotYet /\ Selected /\ EvalsKept /\ CyclesKept
  BY <1>1 DEF NotYet, Selected, EvalsKept, CyclesKept
<1>4. FoundWhereAsked /\ ErrorsAreEarned
  BY <1>1 DEF FoundWhereAsked, ErrorsAreEarned
<1>5. exit # 1
  BY <1>1 DEF Pending
<1> QED BY <1>2, <1>3, <1>4, <1>5 DEF IInv

LEMMA CollectKeeps == IInv /\ Collect => IInv'
<1> SUFFICES ASSUME IInv, Collect PROVE IInv'
  OBVIOUS
<1>1. /\ pc = "collect" /\ pc' = "parse"
      /\ analyzed' = {f \in Files \ world.ignored : InScope(f)}
      /\ world' = world /\ views' = views /\ detected' = detected
      /\ model' = model /\ found' = found /\ skipped' = skipped /\ exit' = exit
  BY DEF Collect, Goto
<1>2. TypeOK /\ views = {} /\ model = NoModel /\ found = {} /\ exit = Pending
  BY <1>1 DEF IInv, NotYet
<1>3. TypeOK'
  BY <1>1, <1>2 DEF TypeOK, Stages, NoModel
<1>4. (NotYet /\ EvalsKept /\ CyclesKept)'
  BY <1>1, <1>2 DEF NotYet, EvalsKept, CyclesKept, NoModel, Pending
<1>5. Selected'
  BY <1>1, WorldKept DEF Selected
<1>6. (FoundWhereAsked /\ ErrorsAreEarned)'
  BY <1>1, <1>2 DEF FoundWhereAsked, ErrorsAreEarned
<1> QED BY <1>1, <1>2, <1>3, <1>4, <1>5, <1>6 DEF IInv, Pending

LEMMA ParseKeeps == IInv /\ Parse => IInv'
<1> SUFFICES ASSUME IInv, Parse PROVE IInv'
  OBVIOUS
<1>1. /\ pc = "parse" /\ pc' = "detect"
      /\ views' = analyzed \ world.broken
      /\ ReadSkips \subseteq skipped'
      /\ world' = world /\ analyzed' = analyzed /\ detected' = detected
      /\ model' = model /\ found' = found /\ exit' = exit
  BY DEF Parse, Goto
<1>2. TypeOK /\ model = NoModel /\ found = {} /\ exit = Pending
  BY <1>1 DEF IInv, NotYet
<1>3. TypeOK'
  BY <1>1, <1>2 DEF TypeOK, Stages, NoModel
<1>4. (NotYet /\ EvalsKept /\ CyclesKept)'
  BY <1>1, <1>2 DEF NotYet, EvalsKept, CyclesKept, NoModel, Pending
<1>5. Selected'
  <2>1. ReadSkips' = ReadSkips
    BY <1>1 DEF ReadSkips
  <2> QED BY <1>1, <2>1, WorldKept DEF Selected, IInv
<1>6. (FoundWhereAsked /\ ErrorsAreEarned)'
  BY <1>1, <1>2 DEF FoundWhereAsked, ErrorsAreEarned
<1> QED BY <1>1, <1>2, <1>3, <1>4, <1>5, <1>6 DEF IInv, Pending

LEMMA DetectKeeps == IInv /\ Detect => IInv'
<1> SUFFICES ASSUME IInv, Detect PROVE IInv'
  OBVIOUS
<1>1. /\ pc = "detect" /\ pc' = "file rules"
      /\ detected' = NestSeen
      /\ model' = NoModel \/ model' = views
      /\ skipped \subseteq skipped'
      /\ world' = world /\ analyzed' = analyzed /\ views' = views
      /\ found' = found /\ exit' = exit
  BY DEF Detect, Goto
<1>2. TypeOK /\ found = {} /\ exit = Pending
  BY <1>1 DEF IInv, NotYet
<1>3. TypeOK'
  <2>1. NestSeen \in BOOLEAN
    BY DEF NestSeen
  <2> QED BY <1>1, <1>2, <2>1 DEF TypeOK, Stages, NoModel
<1>4. (NotYet /\ EvalsKept /\ CyclesKept)'
  BY <1>1, <1>2 DEF NotYet, EvalsKept, CyclesKept, Pending
<1>5. Selected'
  <2>1. ReadSkips' = ReadSkips
    BY <1>1 DEF ReadSkips
  <2> QED BY <1>1, <2>1, WorldKept DEF Selected, IInv
<1>6. (FoundWhereAsked /\ ErrorsAreEarned)'
  BY <1>1, <1>2 DEF FoundWhereAsked, ErrorsAreEarned
<1> QED BY <1>1, <1>2, <1>3, <1>4, <1>5, <1>6 DEF IInv, Pending

LEMMA FileRulesKeep == IInv /\ FileRulesStage => IInv'
<1> SUFFICES ASSUME IInv, FileRulesStage PROVE IInv'
  OBVIOUS
<1> DEFINE active == {r \in FileRules : Enabled(r)}
<1>1. /\ pc = "file rules" /\ pc' = "lines"
      /\ found' = UNION {RunFileRule(p[1], p[2]) : p \in active \X views}
      /\ skipped' = skipped \cup CrashSkips(active, views)
      /\ world' = world /\ analyzed' = analyzed /\ views' = views
      /\ detected' = detected /\ model' = model /\ exit' = exit
  BY DEF FileRulesStage, Goto
<1>2. TypeOK /\ exit = Pending
  BY <1>1 DEF IInv, NotYet
<1>3. world \in World /\ views \subseteq Files
  BY <1>2 DEF TypeOK
<1>4. ASSUME NEW d \in found'
      PROVE  /\ d \in Diagnostics
             /\ d.rule \in FileRules /\ d.file \in views
             /\ d.severity = "error" =>
                  ~d.internal /\ world.rules[d.rule] \in {"error", Unset}
  <2>1. PICK r \in active, f \in views : d \in RunFileRule(r, f)
    <3>1. PICK p \in active \X views : d \in RunFileRule(p[1], p[2])
      BY <1>1
    <3> QED BY <3>1
  <2>2. r \in FileRules /\ Enabled(r) /\ f \in Files
    BY <1>3, <2>1
  <2> QED BY <1>3, <2>1, <2>2, FileRuleReport
<1>5. TypeOK'
  BY <1>1, <1>2, <1>4 DEF TypeOK, Stages
<1>6. (NotYet /\ CyclesKept)'
  BY <1>1, <1>2 DEF NotYet, CyclesKept
<1>7. Selected'
  <2>1. ReadSkips' = ReadSkips
    BY <1>1 DEF ReadSkips
  <2> QED BY <1>1, <2>1, WorldKept DEF Selected, IInv
<1>8. EvalsKept'
  <2> SUFFICES ASSUME Enabled(NoEval), NEW f \in views, NEW l \in world.evals[f]
               PROVE  \/ Diagnostic(NoEval, f, l, Severity(NoEval), FALSE) \in found'
                      \/ Skip(NoEval, f) \in skipped'
    BY <1>1, WorldKept DEF EvalsKept
  <2>1. NoEval \in active
    BY RuleNames
  <2>2. CASE Crashes(NoEval, f)
    <3>1. <<NoEval, f>> \in world.crashes \cap (active \X views)
      BY <2>1, <2>2 DEF Crashes
    <3>2. Skip(NoEval, f) \in CrashSkips(active, views)
      BY <3>1 DEF CrashSkips
    <3> QED BY <1>1, <3>2
  <2>3. CASE ~Crashes(NoEval, f)
    <3>1. l \in LinesFound(NoEval, f)
      BY DEF LinesFound
    <3>2. Diagnostic(NoEval, f, l, Severity(NoEval), FALSE) \in RunFileRule(NoEval, f)
      BY <2>3, <3>1 DEF RunFileRule
    <3>3. \A r \in active, g \in views : RunFileRule(r, g) \subseteq found'
      <4> SUFFICES ASSUME NEW r \in active, NEW g \in views, NEW d \in RunFileRule(r, g)
                   PROVE  d \in found'
        OBVIOUS
      <4> DEFINE p == <<r, g>>
      <4>1. p \in active \X views /\ d \in RunFileRule(p[1], p[2])
        OBVIOUS
      <4> QED BY <1>1, <4>1
    <3> QED BY <2>1, <3>2, <3>3
  <2> QED BY <2>2, <2>3
<1>9. FoundWhereAsked'
  BY <1>1, <1>4 DEF FoundWhereAsked
<1>10. ErrorsAreEarned'
  BY <1>1, <1>4, RuleNames DEF ErrorsAreEarned
<1>11. exit' # 1
  BY <1>1, <1>2, PendingIsNone, Zenon
<1> QED BY <1>5, <1>6, <1>7, <1>8, <1>9, <1>10, <1>11 DEF IInv

LEMMA LinesKeep == IInv /\ LinesStage => IInv'
<1> SUFFICES ASSUME IInv, LinesStage PROVE IInv'
  OBVIOUS
<1>1. /\ pc = "lines" /\ pc' = "project rules"
      /\ found' = IF world.mode = "lines" THEN {d \in found : InHunk(d)} ELSE found
      /\ world' = world /\ analyzed' = analyzed /\ views' = views
      /\ detected' = detected /\ model' = model /\ skipped' = skipped /\ exit' = exit
  BY DEF LinesStage, Goto
<1>2. TypeOK /\ exit = Pending /\ found' \subseteq found
  BY <1>1 DEF IInv, NotYet
<1>3. TypeOK'
  BY <1>1, <1>2 DEF TypeOK, Stages
<1>4. (NotYet /\ CyclesKept)'
  BY <1>1, <1>2 DEF NotYet, CyclesKept
<1>5. Selected'
  <2>1. ReadSkips' = ReadSkips
    BY <1>1 DEF ReadSkips
  <2> QED BY <1>1, <2>1, WorldKept DEF Selected, IInv
<1>6. EvalsKept'
  <2> SUFFICES ASSUME Enabled(NoEval), NEW f \in views, NEW l \in world.evals[f],
                      Asked(f, l), Skip(NoEval, f) \notin skipped
               PROVE  Diagnostic(NoEval, f, l, Severity(NoEval), FALSE) \in found'
    BY <1>1, WorldKept DEF EvalsKept
  <2> DEFINE d == Diagnostic(NoEval, f, l, Severity(NoEval), FALSE)
  <2>1. d \in found
    BY <1>1 DEF IInv, EvalsKept
  <2>2. d.file = f /\ d.line = l
    BY DEF Diagnostic
  <2>3. world.mode = "lines" => InHunk(d)
    BY <2>2 DEF Asked, InHunk
  <2> HIDE DEF d
  <2> QED BY <1>1, <2>1, <2>3 DEF d
<1>7. FoundWhereAsked'
  <2> SUFFICES ASSUME NEW d \in found', d.rule # Runtime, d.file # Root
               PROVE  d.file \in views /\ Asked(d.file, d.line)
    BY <1>1, WorldKept DEF FoundWhereAsked
  <2>1. d.file \in views
    BY <1>2 DEF IInv, FoundWhereAsked
  <2>2. Scoped => d.file \in world.files
    BY <1>1, <1>2, <2>1 DEF IInv, Selected, TypeOK, InScope
  <2>3. world.mode = "lines" => InHunk(d)
    BY <1>1
  <2> QED BY <2>1, <2>2, <2>3 DEF Asked, InHunk
<1>8. ErrorsAreEarned'
  BY <1>1, <1>2 DEF IInv, ErrorsAreEarned
<1>9. exit' # 1
  BY <1>1, <1>2, PendingIsNone, Zenon
<1> QED BY <1>3, <1>4, <1>5, <1>6, <1>7, <1>8, <1>9 DEF IInv

LEMMA ProjectKeeps == IInv /\ ProjectStage => IInv'
<1> SUFFICES ASSUME IInv, ProjectStage PROVE IInv'
  OBVIOUS
<1> DEFINE active  == {r \in ProjectRules : Enabled(r)}
           unsafe  == IF Incomplete THEN active \cap {Unused} ELSE {}
           started == active \ unsafe
           new     == IF Scoped THEN {} ELSE UNION {RunProjectRule(r) : r \in started}
<1>1. /\ pc = "project rules" /\ pc' = "merge"
      /\ found' = found \cup new
      /\ skipped \subseteq skipped'
      /\ Scoped => Skip("project-rules", Root) \in skipped'
      /\ ~Scoped => CrashSkips(started, {Root}) \subseteq skipped'
      /\ world' = world /\ analyzed' = analyzed /\ views' = views
      /\ detected' = detected /\ model' = model /\ exit' = exit
  BY DEF ProjectStage, Goto
<1>2. TypeOK /\ exit = Pending
  BY <1>1 DEF IInv, NotYet
<1>3. world \in World /\ views \subseteq Files
  BY <1>2 DEF TypeOK
<1>4. ASSUME NEW d \in new
      PROVE  /\ d \in Diagnostics /\ ~Scoped
             /\ d.rule \in ProjectRules /\ d.file \in views \cup {Root}
             /\ d.severity = "error" =>
                  ~d.internal /\ world.rules[d.rule] \in {"error", Unset}
  <2>1. ~Scoped /\ \E r \in started : d \in RunProjectRule(r)
    OBVIOUS
  <2>2. PICK r \in started : d \in RunProjectRule(r)
    BY <2>1
  <2>3. r \in ProjectRules /\ Enabled(r)
    BY <2>2
  <2> QED BY <1>3, <2>1, <2>2, <2>3, ProjectRuleReport
<1>5. TypeOK'
  <2>1. new \subseteq Diagnostics
    BY <1>4
  <2> HIDE DEF new
  <2> QED BY <1>1, <1>2, <2>1 DEF TypeOK, Stages
<1>6. NotYet'
  BY <1>1, <1>2 DEF NotYet
<1>7. Selected'
  <2>1. ReadSkips' = ReadSkips
    BY <1>1 DEF ReadSkips
  <2> QED BY <1>1, <2>1, WorldKept DEF Selected, IInv
<1>8. EvalsKept'
  <2> HIDE DEF new
  <2> QED BY <1>1, WorldKept DEF IInv, EvalsKept
<1>9. CyclesKept'
  <2> SUFFICES ASSUME Enabled(Cycle), ~Scoped, NEW f \in world.loops \cap views
               PROVE  \/ Diagnostic(Cycle, f, 1, Severity(Cycle), FALSE) \in found'
                      \/ Skip(Cycle, Root) \in skipped'
    BY <1>1, WorldKept DEF CyclesKept
  <2>1. Cycle \in started
    BY RuleNames
  <2>3. CASE Crashes(Cycle, Root)
    <3>1. <<Cycle, Root>> \in world.crashes \cap (started \X {Root})
      BY <2>1, <2>3 DEF Crashes
    <3> HIDE DEF started
    <3>2. Skip(Cycle, Root) \in CrashSkips(started, {Root})
      BY <3>1 DEF CrashSkips
    <3> QED BY <1>1, <2>3, <3>2
  <2>4. CASE ~Crashes(Cycle, Root)
    <3>1. f \in FilesFound(Cycle)
      BY DEF FilesFound
    <3>2. Diagnostic(Cycle, f, 1, Severity(Cycle), FALSE) \in RunProjectRule(Cycle)
      BY <2>4, <3>1 DEF RunProjectRule
    <3>3. Diagnostic(Cycle, f, 1, Severity(Cycle), FALSE) \in new
      BY <2>1, <2>4, <3>2
    <3> HIDE DEF new
    <3> QED BY <1>1, <3>3
  <2> QED BY <2>3, <2>4
<1>10. FoundWhereAsked'
  <2> SUFFICES ASSUME NEW d \in found', d.rule # Runtime, d.file # Root
               PROVE  d.file \in views /\ Asked(d.file, d.line)
    BY <1>1, WorldKept DEF FoundWhereAsked
  <2>1. CASE d \in found
    BY <1>1, <2>1 DEF IInv, FoundWhereAsked
  <2>2. CASE d \in new
    BY <1>4, <2>2 DEF Asked, Scoped
  <2> HIDE DEF new
  <2> QED BY <1>1, <2>1, <2>2
<1>11. ErrorsAreEarned'
  <2> SUFFICES ASSUME NEW d \in found', d.severity = "error"
               PROVE  ~d.internal /\ d.rule \in Rules /\ world.rules[d.rule] \in {"error", Unset}
    BY <1>1 DEF ErrorsAreEarned
  <2>1. CASE d \in found
    BY <2>1 DEF IInv, ErrorsAreEarned
  <2>2. CASE d \in new
    BY <1>4, <2>2, RuleNames
  <2> HIDE DEF new
  <2> QED BY <1>1, <2>1, <2>2
<1>12. exit' # 1
  BY <1>1, <1>2, PendingIsNone, Zenon
<1> QED BY <1>5, <1>6, <1>7, <1>8, <1>9, <1>10, <1>11, <1>12 DEF IInv

LEMMA MergeKeeps == IInv /\ Merge => IInv'
<1> SUFFICES ASSUME IInv, Merge PROVE IInv'
  OBVIOUS
<1>1. /\ pc = "merge" /\ pc' = "reported"
      /\ found' = found \cup RuntimeFound
      /\ exit' = IF \E d \in found' : d.severity = "error" THEN 1 ELSE 0
      /\ world' = world /\ analyzed' = analyzed /\ views' = views
      /\ detected' = detected /\ model' = model /\ skipped' = skipped
  BY DEF Merge, Goto
<1>2. TypeOK /\ world \in World
  BY DEF IInv, TypeOK
<1>3. ASSUME NEW d \in RuntimeFound
      PROVE  d \in Diagnostics /\ d.rule = Runtime /\ d.severity = "warn"
  <2>1. PICK f \in world.blocked : d = Diagnostic(Runtime, f, 1, "warn", FALSE)
    BY DEF RuntimeFound
  <2>2. f \in Files /\ 1 \in Lines
    BY <1>2, <2>1, WorldParts DEF Lines
  <2>3. d \in Diagnostics
    BY <2>1, <2>2, DiagnosticType
  <2>4. d.rule = Runtime /\ d.severity = "warn"
    BY <2>1, Zenon DEF Diagnostic
  <2> QED BY <2>3, <2>4
<1>4. TypeOK'
  <2>1. RuntimeFound \subseteq Diagnostics
    BY <1>3
  <2>2. exit' \in {0, 1, Pending}
    BY <1>1
  <2> QED BY <1>1, <1>2, <2>1, <2>2 DEF TypeOK, Stages
<1>5. NotYet'
  BY <1>1 DEF NotYet
<1>6. Selected'
  <2>1. ReadSkips' = ReadSkips
    BY <1>1 DEF ReadSkips
  <2> QED BY <1>1, <2>1, WorldKept DEF Selected, IInv
<1>7. (EvalsKept /\ CyclesKept)'
  <2>1. EvalsKept'
    BY <1>1, WorldKept DEF IInv, EvalsKept
  <2>2. CyclesKept'
    BY <1>1, WorldKept DEF IInv, CyclesKept
  <2> QED BY <2>1, <2>2
<1>8. FoundWhereAsked'
  BY <1>1, <1>3, WorldKept DEF IInv, FoundWhereAsked
<1>9. ErrorsAreEarned'
  BY <1>1, <1>3 DEF IInv, ErrorsAreEarned
<1>10. exit' = 1 => \E d \in found' : d.severity = "error"
  BY <1>1
<1> QED BY <1>4, <1>5, <1>6, <1>7, <1>8, <1>9, <1>10 DEF IInv

LEMMA StutterKeeps == IInv /\ UNCHANGED vars => IInv'
<1> SUFFICES ASSUME IInv, UNCHANGED vars PROVE IInv'
  OBVIOUS
<1>1. /\ world' = world /\ pc' = pc /\ analyzed' = analyzed /\ views' = views
      /\ detected' = detected /\ model' = model /\ found' = found
      /\ skipped' = skipped /\ exit' = exit
  BY DEF vars
<1>2. TypeOK'
  BY <1>1 DEF IInv, TypeOK
<1>3. NotYet'
  BY <1>1 DEF IInv, NotYet
<1>4. Selected'
  <2>1. ReadSkips' = ReadSkips
    BY <1>1 DEF ReadSkips
  <2> QED BY <1>1, <2>1, WorldKept DEF Selected, IInv
<1>5. (EvalsKept /\ CyclesKept)'
  <2>1. EvalsKept'
    BY <1>1, WorldKept DEF IInv, EvalsKept
  <2>2. CyclesKept'
    BY <1>1, WorldKept DEF IInv, CyclesKept
  <2> QED BY <2>1, <2>2
<1>6. (FoundWhereAsked /\ ErrorsAreEarned)'
  BY <1>1, WorldKept DEF IInv, FoundWhereAsked, ErrorsAreEarned
<1> QED BY <1>1, <1>2, <1>3, <1>4, <1>5, <1>6 DEF IInv

(* The stages keep the inductive invariant, whatever is scanned: runScan   *)
(* and the merge of the scan command establish it one after the other.     *)
THEOREM PipelineInv == Spec => []IInv
<1>1. IInv /\ [Next]_vars => IInv'
  BY CollectKeeps, ParseKeeps, DetectKeeps, FileRulesKeep, LinesKeep,
     ProjectKeeps, MergeKeeps, StutterKeeps DEF Next, Reported
<1> QED BY InitIInv, <1>1, PTL DEF Spec

-----------------------------------------------------------------------------
(* Every variable of the scan keeps its type: in particular a report never *)
(* holds a diagnostic of a rule that is off.                               *)
THEOREM PipelineTypes == Spec => []TypeOK
<1>1. IInv => TypeOK
  BY DEF IInv
<1> QED BY PipelineInv, <1>1, PTL

(* constitution 8: what enabled rules have to say about what was asked is  *)
(* reported, or skippedChecks names the file or the rule that failed.      *)
THEOREM NothingLost == Spec => []NothingIsLost
<1>1. IInv => NothingIsLost
  <2> SUFFICES ASSUME IInv, Done, NEW f \in Files \ world.ignored
               PROVE  /\ \A l \in world.evals[f] :
                           Enabled(NoEval) /\ Asked(f, l) =>
                             \/ Reports(NoEval, f, l)
                             \/ Skip("read", f) \in skipped \/ Skip(NoEval, f) \in skipped
                      /\ f \in world.loops /\ Enabled(Cycle) =>
                           \/ Reports(Cycle, f, 1)
                           \/ Skip("read", f) \in skipped
                           \/ {Skip(Cycle, Root), Skip("project-rules", Root)} \cap skipped # {}
    BY DEF NothingIsLost
  <2>1. /\ pc = "reported"
        /\ analyzed = {g \in Files \ world.ignored : InScope(g)}
        /\ views = analyzed \ world.broken /\ ReadSkips \subseteq skipped
    BY DEF IInv, Selected, Done
  <2>2. f \in analyzed => f \in views \/ Skip("read", f) \in skipped
    BY <2>1 DEF ReadSkips
  <2>3. \A r, l, s : Diagnostic(r, f, l, s, FALSE) \in found => Reports(r, f, l)
    BY DEF Reports, Diagnostic
  <2>4. ASSUME NEW l \in world.evals[f], Enabled(NoEval), Asked(f, l)
        PROVE  \/ Reports(NoEval, f, l)
               \/ Skip("read", f) \in skipped \/ Skip(NoEval, f) \in skipped
    <3>1. f \in analyzed
      BY <2>1, <2>4 DEF Asked, InScope
    <3>2. f \in views => \/ Diagnostic(NoEval, f, l, Severity(NoEval), FALSE) \in found
                         \/ Skip(NoEval, f) \in skipped
      BY <2>1, <2>4 DEF IInv, EvalsKept
    <3> QED BY <2>2, <2>3, <3>1, <3>2
  <2>5. ASSUME f \in world.loops, Enabled(Cycle)
        PROVE  \/ Reports(Cycle, f, 1)
               \/ Skip("read", f) \in skipped
               \/ {Skip(Cycle, Root), Skip("project-rules", Root)} \cap skipped # {}
    <3>1. CASE f \in views
      BY <2>1, <2>3, <2>5, <3>1 DEF IInv, CyclesKept
    <3>2. CASE f \in analyzed \ views
      BY <2>2, <3>2
    <3>3. CASE f \notin analyzed
      BY <2>1, <3>3 DEF IInv, CyclesKept, InScope
    <3> QED BY <3>1, <3>2, <3>3
  <2> QED BY <2>4, <2>5
<1> QED BY PipelineInv, <1>1, PTL

(* spec 015 AC-2 and AC-3: only files of the scope that are not ignored,   *)
(* and in the lines mode only changed lines, are reported on.              *)
THEOREM NothingElse == Spec => []OnlyWhatWasAsked
<1>1. IInv => OnlyWhatWasAsked
  <2> SUFFICES ASSUME IInv, Done, NEW d \in found, d.rule # Runtime, d.file # Root
               PROVE  Asked(d.file, d.line) /\ d.file \notin world.ignored
    BY DEF OnlyWhatWasAsked
  <2>1. pc = "reported"
    BY DEF Done
  <2>2. d.file \in views /\ Asked(d.file, d.line)
    BY <2>1 DEF IInv, FoundWhereAsked
  <2>3. d.file \notin world.ignored
    BY <2>1, <2>2 DEF IInv, TypeOK, Selected
  <2> QED BY <2>2, <2>3
<1> QED BY PipelineInv, <1>1, PTL

(* constitution 5 and 8: the build fails only for an error that a rule     *)
(* found and whose setting allows an error, never for a crash.             *)
THEOREM EarnedVerdict == Spec => []VerdictIsEarned
<1>1. IInv => VerdictIsEarned
  BY DEF IInv, ErrorsAreEarned, VerdictIsEarned
<1> QED BY PipelineInv, <1>1, PTL

-----------------------------------------------------------------------------
(* Unused files.  The worlds are fixed, so the facts about them are        *)
(* invariants of their own.                                                *)

(* The closure is a set that holds S, is closed, and lies in every other   *)
(* such set of files.                                                      *)
LEMMA ClosureIsLeast ==
  ASSUME NEW S \in SUBSET Files, NEW edges \in [Files -> SUBSET Files]
  PROVE  /\ Closure(S, edges) \subseteq Files
         /\ S \subseteq Closure(S, edges)
         /\ \A g \in Closure(S, edges) : edges[g] \subseteq Closure(S, edges)
         /\ \A C \in SUBSET Files :
              S \subseteq C /\ (\A g \in C : edges[g] \subseteq C)
                => Closure(S, edges) \subseteq C
<1>1. \A g \in Closure(S, edges) : edges[g] \subseteq Closure(S, edges)
  <2> SUFFICES ASSUME NEW g \in Closure(S, edges), NEW h \in edges[g],
                      NEW C \in SUBSET Files, S \subseteq C,
                      \A x \in C : edges[x] \subseteq C
               PROVE  h \in Files /\ h \in C
    BY DEF Closure
  <2>1. g \in Files /\ g \in C
    BY DEF Closure
  <2> QED BY <2>1
<1>2. Closure(S, edges) \subseteq Files /\ S \subseteq Closure(S, edges)
  BY DEF Closure
<1>3. \A C \in SUBSET Files :
        S \subseteq C /\ (\A g \in C : edges[g] \subseteq C)
          => Closure(S, edges) \subseteq C
  BY DEF Closure
<1> QED BY <1>1, <1>2, <1>3

(* What is used: all that the entries import, whether it can be read or not. *)
Used == Closure(world.main \cup world.conventional, world.imports)

WorldEntries ==
  /\ world.main \subseteq Files /\ world.conventional \subseteq Files
  /\ world.imports \in [Files -> SUBSET Files]
  /\ world.package = "ok" \/ (world.package = "absent" /\ world.main = {})
  /\ (world.main \cup world.conventional) \cap world.ignored = {}

UnusedInv ==
  /\ IInv
  /\ WorldEntries
  /\ \A d \in found : d.rule = Unused /\ ~d.internal => d.file \notin Used

(* With nothing missing the reachable files are the used ones.             *)
LEMMA ReachableIsUsed ==
  ASSUME UnusedInv, pc = "project rules", ~Scoped, ~Incomplete
  PROVE  Used \subseteq Closure(Entries, Edges)
<1> DEFINE start == world.main \cup world.conventional
           reached == Closure(Entries, Edges)
<1>1. views = Files \ world.ignored /\ analyzed = views /\ views \cap world.broken = {}
  <2>1. analyzed = Files \ world.ignored
    BY DEF UnusedInv, IInv, Selected, InScope
  <2>2. analyzed \cap world.broken = {}
    BY DEF Incomplete
  <2>3. views = analyzed \ world.broken
    BY DEF UnusedInv, IInv, Selected
  <2> QED BY <2>1, <2>2, <2>3
<1>2. Entries = start
  BY <1>1 DEF Entries, UnusedInv, WorldEntries
<1>3. \A f \in views : Edges[f] = world.imports[f] /\ world.imports[f] \subseteq views
  <2> SUFFICES ASSUME NEW f \in views
               PROVE  Edges[f] = world.imports[f] /\ world.imports[f] \subseteq views
    OBVIOUS
  <2>1. world.tsconfig
    BY DEF Incomplete, ConfigErrors
  <2>2. f \notin GraphFailures
    BY DEF Incomplete
  <2>3. Resolved(f) = world.imports[f]
    BY <2>1, <2>2 DEF GraphFailures, Resolved
  <2>4. world.imports[f] \subseteq views
    BY <2>2, <2>3 DEF GraphFailures
  <2>5. f \in Files
    BY <1>1
  <2> QED BY <2>3, <2>4, <2>5 DEF Edges
<1>4. Edges \in [Files -> SUBSET Files]
  BY <1>1 DEF Edges
<1>5. start \in SUBSET Files /\ start \subseteq views /\ views \in SUBSET Files
  BY <1>1, <1>2 DEF UnusedInv, WorldEntries, Entries
<1>6. /\ reached \in SUBSET Files /\ start \subseteq reached
      /\ \A g \in reached : Edges[g] \subseteq reached
  BY <1>2, <1>4, <1>5, ClosureIsLeast
<1>7. reached \subseteq views
  <2>1. \A g \in views : Edges[g] \subseteq views
    BY <1>3
  <2> QED BY <1>2, <1>4, <1>5, <2>1, ClosureIsLeast
<1>8. \A g \in reached : world.imports[g] \subseteq reached
  BY <1>3, <1>6, <1>7
<1>9. world.imports \in [Files -> SUBSET Files]
  BY DEF UnusedInv, WorldEntries
<1>10. Used = Closure(start, world.imports)
  BY DEF Used
<1> HIDE DEF start, reached
<1>11. Closure(start, world.imports) \subseteq reached
  BY <1>6, <1>8 DEF Closure
<1> QED BY <1>10, <1>11 DEF reached

LEMMA UnusedInit ==
  ASSUME EntriesKnown PROVE Init => UnusedInv
<1> SUFFICES ASSUME Init PROVE UnusedInv
  OBVIOUS
<1>1. world \in Worlds /\ world \in World /\ found = {}
  BY PipelineAssumption DEF Init
<1>2. WorldEntries
  <2>1. /\ world.main \subseteq Files /\ world.conventional \subseteq Files
        /\ world.imports \in [Files -> SUBSET Files]
    BY <1>1 DEF World
  <2> QED BY <1>1, <2>1 DEF WorldEntries, EntriesKnown
<1> QED BY <1>1, <1>2, InitIInv DEF UnusedInv

LEMMA UnusedStep == UnusedInv /\ [Next]_vars => UnusedInv'
<1> SUFFICES ASSUME UnusedInv, [Next]_vars PROVE UnusedInv'
  OBVIOUS
<1>1. IInv'
  BY CollectKeeps, ParseKeeps, DetectKeeps, FileRulesKeep, LinesKeep,
     ProjectKeeps, MergeKeeps, StutterKeeps DEF UnusedInv, Next, Reported
<1>2. world' = world
  BY DEF Next, Collect, Parse, Detect, FileRulesStage, LinesStage, ProjectStage,
         Merge, Reported, vars
<1>3. WorldEntries' /\ Used' = Used
  BY <1>2 DEF UnusedInv, WorldEntries, Used, Closure
<1>4. \A d \in found' : d.rule = Unused /\ ~d.internal => d.file \notin Used
  <2> SUFFICES ASSUME NEW d \in found', d \notin found, d.rule = Unused, ~d.internal
               PROVE  d.file \notin Used
    BY DEF UnusedInv
  <2>1. CASE FileRulesStage
    <3>1. PICK p \in {r \in FileRules : Enabled(r)} \X views : d \in RunFileRule(p[1], p[2])
      BY <2>1 DEF FileRulesStage
    <3>2. world \in World /\ p[2] \in Files /\ p[1] \in FileRules /\ Enabled(p[1])
      BY <3>1 DEF UnusedInv, IInv, TypeOK
    <3>3. d.rule \in FileRules
      BY <3>1, <3>2, FileRuleReport
    <3> QED BY <3>3 DEF FileRules, NoEval, NoPipe, Unused
  <2>2. CASE ProjectStage /\ ~Scoped
    <3> DEFINE active  == {r \in ProjectRules : Enabled(r)}
               unsafe  == IF Incomplete THEN active \cap {Unused} ELSE {}
               started == active \ unsafe
    <3>0. found' = found \cup UNION {RunProjectRule(r) : r \in started}
      BY <2>2 DEF ProjectStage
    <3>1. PICK r \in started : d \in RunProjectRule(r)
      BY <3>0
    <3>2. world \in World /\ views \subseteq Files /\ r \in ProjectRules /\ Enabled(r)
      BY <3>1 DEF UnusedInv, IInv, TypeOK
    <3>3. r = Unused
      BY <3>1, <3>2, ProjectRuleReport
    <3>4. ~Incomplete /\ pc = "project rules"
      BY <2>2, <3>1, <3>3 DEF ProjectStage
    <3>5. Used \subseteq Closure(Entries, Edges)
      BY <2>2, <3>4, ReachableIsUsed
    <3>6. ~Crashes(r, Root)
      <4> SUFFICES ASSUME Crashes(r, Root) PROVE FALSE
        OBVIOUS
      <4>1. d = Diagnostic(r, Root, 1, "warn", TRUE)
        BY <3>1 DEF RunProjectRule, CrashReport
      <4>2. d.internal = TRUE
        BY <4>1, Zenon DEF Diagnostic
      <4> QED BY <4>2
    <3>7. PICK f \in FilesFound(r) : d = Diagnostic(r, f, 1, Severity(r), FALSE)
      BY <3>1, <3>6 DEF RunProjectRule
    <3>8. d.file = f
      BY <3>7, Zenon DEF Diagnostic
    <3>9. f \notin Closure(Entries, Edges)
      BY <3>3, <3>7, RuleNames DEF FilesFound
    <3> QED BY <3>5, <3>8, <3>9
  <2>3. CASE ProjectStage /\ Scoped
    BY <2>3 DEF ProjectStage
  <2>4. CASE Merge
    <3>1. PICK f \in world.blocked : d = Diagnostic(Runtime, f, 1, "warn", FALSE)
      BY <2>4 DEF Merge, RuntimeFound
    <3>2. d.rule = Runtime
      BY <3>1, Zenon DEF Diagnostic
    <3> QED BY <3>2 DEF Runtime, Unused
  <2>5. CASE Collect \/ Parse \/ Detect \/ LinesStage \/ Reported \/ UNCHANGED vars
    BY <2>5 DEF Collect, Parse, Detect, LinesStage, Reported, vars
  <2> QED BY <2>1, <2>2, <2>3, <2>4, <2>5 DEF Next
<1> QED BY <1>1, <1>3, <1>4 DEF UnusedInv

(* unused-file.ts:21: where the entries are known, a file that an entry    *)
(* imports, over whatever way, is never reported as unused, however much   *)
(* of the project could not be read or resolved.                           *)
THEOREM UsedIsNeverUnused ==
  ASSUME EntriesKnown PROVE Spec => []UnusedIsUnreachable
<1>1. Init => UnusedInv
  BY EntriesKnown, UnusedInit
<1>2. UnusedInv => UnusedIsUnreachable
  BY DEF UnusedInv, UnusedIsUnreachable, Used, Reports
<1> QED BY <1>1, <1>2, UnusedStep, PTL DEF Spec
=============================================================================
