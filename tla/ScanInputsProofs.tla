-------------------------- MODULE ScanInputsProofs --------------------------
(***************************************************************************)
(* The inputs of a scan, for every disk, repository and session directory, *)
(* whatever changes while they are read: the configuration found is the    *)
(* nearest one, the scope holds what was changed and only that, and a scan *)
(* starts only with everything it was asked to use.                        *)
(*                                                                         *)
(* A stage of ScanInputs steps alone, so that each is proved about by      *)
(* itself and the composition implements all three.                        *)
(***************************************************************************)
EXTENDS ScanInputs, TLAPS

-----------------------------------------------------------------------------
(* The configuration.  Below the directory the walk has reached there was  *)
(* none, unless it came later, and no repository ends there.               *)

ConfigTypes ==
  /\ disk \in ConfigCase
  /\ configStep \in {"start", "walk", "pick", "done"}
  /\ dir \in Directories /\ changedDirs \subseteq Directories

Passed ==
  configStep # "start" /\ ~disk.explicit =>
    \A d \in Directories : d < dir => /\ HasConfig(d) => d \in changedDirs
                                      /\ ~disk.dirs[d].git

Chosen ==
  /\ configStep = "start" => dir = 0
  /\ configStep \in {"walk", "pick"} => ~disk.explicit
  /\ configStep = "pick" => HasConfig(dir) \/ dir \in changedDirs
  /\ configStep = "done" => config.is \in {"config", "ConfigError", "defaults", "exception"}
  /\ configStep = "done" /\ disk.explicit => config.is # "exception"

ConfigInv == ConfigTypes /\ Passed /\ Chosen /\ ConfigIsNearest

LEMMA ConfigStarts == ConfigInit => ConfigInv
  BY ConfigAssumption DEF ConfigInit, ConfigInv, ConfigTypes, Passed, Chosen,
                          ConfigIsNearest, Directories

(* A directory has a configuration when the walk stops at it.              *)
LEMMA HasKey ==
  ASSUME ConfigTypes, NEW d \in Directories
  PROVE  /\ disk.dirs[d] \in Directory
         /\ HasConfig(d) <=> disk.dirs[d].file # NoFile \/ PackageJsonHasKey(disk.dirs[d].package)
  <1>1. disk.dirs[d] \in Directory
    BY DEF ConfigTypes, ConfigCase
  <1>2. disk.dirs[d].package \in Package
    BY <1>1 DEF Directory
  <1>. QED  BY <1>1, <1>2 DEF HasConfig, PackageJsonHasKey, Package, Value

LEMMA FileLoads ==
  ASSUME NEW file \in ConfigFile, NEW d
  PROVE  LoadFromFile(file, d) = IF \/ file.kind = "json" /\ file.value = "good"
                                    \/ file.kind = "module" /\ GoodModule(file.exports)
                                 THEN Loaded(d) ELSE Failed(d)
  <1>1. CASE file.kind = "module"
    BY <1>1 DEF LoadFromFile, Validated, Extracted, GoodModule, IsObject
  <1>. QED  BY <1>1 DEF LoadFromFile, Validated

LEMMA PackageLoads ==
  ASSUME NEW package \in Package, NEW d
  PROVE  IF PackageJsonHasKey(package)
         THEN LoadFromPackageJson(package, d) = IF package = "good" THEN Loaded(d) ELSE Failed(d)
         ELSE LoadFromPackageJson(package, d) \in {Crashed(d), Failed(d)}
  BY DEF LoadFromPackageJson, PackageJsonHasKey, Validated

LEMMA Outcomes ==
  \A d : /\ Loaded(d).is = "config" /\ Loaded(d).from = d
         /\ Failed(d).is = "ConfigError" /\ Failed(d).from = d
         /\ Crashed(d).is = "exception" /\ Crashed(d).from = d
  BY DEF Loaded, Failed, Crashed

LEMMA LeastOf ==
  ASSUME NEW S, NEW m \in S, S \subseteq Int, \A x \in S : m <= x
  PROVE  Min(S) = m
  <1>. DEFINE P(x) == x \in S /\ \A y \in S : x <= y
  <1>1. P(m)
    OBVIOUS
  <1>2. P(CHOOSE x : P(x))
    BY <1>1, Zenon
  <1>3. Min(S) = CHOOSE x : P(x)
    BY DEF Min
  <1>4. P(Min(S))
    BY <1>2, <1>3
  <1>5. Min(S) \in Int /\ m \in Int /\ Min(S) <= m /\ m <= Min(S)
    BY <1>4
  <1>. HIDE DEF P
  <1>. QED  BY <1>5

LEMMA WalkEnds ==
  ASSUME ConfigInv, Walk
  PROVE  ConfigInv'
  <1>. DEFINE here == disk.dirs[dir]
  <1>1. /\ dir \in Directories /\ dir \in Nat /\ Top \in Nat /\ ~disk.explicit
        /\ HasConfig(dir) <=> here.file # NoFile \/ PackageJsonHasKey(here.package)
    BY HasKey, ConfigAssumption DEF ConfigInv, ConfigTypes, Directories, Chosen, Walk
  <1>2. CASE HasConfig(dir)
    BY <1>1, <1>2 DEF Walk, ConfigInv, ConfigTypes, Passed, Chosen, ConfigIsNearest, HasConfig
  <1>3. CASE ~HasConfig(dir) /\ (here.git \/ dir = Top)
    <2>1. Settle(Defaults) /\ configStep = "walk"
      BY <1>1, <1>3 DEF Walk
    <2>2. \A d \in Directories : d <= dir /\ HasConfig(d) => d \in changedDirs
      BY <1>1, <1>3, <2>1 DEF ConfigInv, Passed, Directories
    <2>3. changedDirs = {} => {d \in Reach : HasConfig(d)} = {}
      <3>1. SUFFICES ASSUME changedDirs = {}, NEW d \in Reach, HasConfig(d) PROVE FALSE
        OBVIOUS
      <3>2. d \in Directories /\ ~(d <= dir)
        BY <2>2, <3>1 DEF Reach
      <3>3. here.git /\ dir \in 0 .. d - 1
        BY <1>1, <1>3, <3>2 DEF Directories
      <3>. QED  BY <3>1, <3>3 DEF Reach
    <2>4. ConfigIsNearest'
      BY <1>1, <2>1, <2>2, <2>3 DEF Settle, ConfigIsNearest, Defaults, HasConfig, Reach, Directories
    <2>. QED  BY <1>1, <2>1, <2>4 DEF Settle, ConfigInv, ConfigTypes, Passed, Chosen, HasConfig, Defaults
  <1>4. CASE ~HasConfig(dir) /\ ~here.git /\ dir # Top
    <2>1. /\ configStep = "walk" /\ dir' = dir + 1
          /\ UNCHANGED <<disk, configStep, config, changes, changedDirs>>
      BY <1>1, <1>4 DEF Walk
    <2>2. dir + 1 \in Directories /\ \A d \in Directories : d < dir + 1 => d < dir \/ d = dir
      BY <1>1, <1>4 DEF Directories
    <2>. QED  BY <1>1, <1>4, <2>1, <2>2
              DEF ConfigInv, ConfigTypes, Passed, Chosen, ConfigIsNearest, HasConfig
  <1>. QED  BY <1>2, <1>3, <1>4

LEMMA PickEnds ==
  ASSUME ConfigInv, Pick
  PROVE  ConfigInv'
  <1>. DEFINE here == disk.dirs[dir]
              outcome == IF here.file # NoFile THEN LoadFromFile(here.file, dir)
                         ELSE LoadFromPackageJson(here.package, dir)
              with == {d \in Reach : HasConfig(d)}
  <1>1. /\ dir \in Directories /\ dir \in Nat /\ ~disk.explicit /\ here \in Directory
        /\ HasConfig(dir) <=> here.file # NoFile \/ PackageJsonHasKey(here.package)
        /\ HasConfig(dir) \/ dir \in changedDirs
    BY HasKey, ConfigAssumption DEF ConfigInv, ConfigTypes, Directories, Chosen, Pick
  <1>2. config' = outcome /\ configStep' = "done" /\ UNCHANGED <<disk, dir, changes, changedDirs>>
    BY DEF Pick, Settle
  <1>3. here.file \in ConfigFile /\ here.package \in Package
    BY <1>1 DEF Directory
  <1>4. /\ outcome \in {Loaded(dir), Failed(dir), Crashed(dir)}
        /\ HasConfig(dir) => outcome # Crashed(dir)
        /\ outcome = Loaded(dir) <=> IsGood(dir)
    <2>1. Loaded(dir) # Failed(dir) /\ Loaded(dir) # Crashed(dir) /\ Failed(dir) # Crashed(dir)
      BY Outcomes, Zenon
    <2>2. CASE here.file # NoFile
      <3>1. /\ here.file.kind \in {"broken", "json", "module"}
            /\ HasConfig(dir)
        BY <1>1, <1>3, <2>2 DEF ConfigFile, Broken, NoFile, Json, Module
      <3>. QED  BY <1>3, <2>1, <2>2, <3>1, FileLoads DEF IsGood
    <2>3. CASE here.file = NoFile
      <3>1. outcome = LoadFromPackageJson(here.package, dir) /\ here.file.kind = "none"
        BY <2>3 DEF NoFile
      <3>2. IsGood(dir) <=> here.package = "good"
        BY <3>1 DEF IsGood
      <3>3. here.package = "good" => PackageJsonHasKey(here.package)
        BY DEF PackageJsonHasKey
      <3>. HIDE DEF outcome
      <3>. QED  BY <1>1, <1>3, <2>1, <2>3, <3>1, <3>2, <3>3, PackageLoads
    <2>. QED  BY <2>2, <2>3
  <1>5. outcome.from = dir /\ outcome.is \in {"config", "ConfigError", "exception"}
        /\ (outcome.is = "config" => outcome = Loaded(dir))
        /\ (outcome.is = "exception" => outcome = Crashed(dir))
    <2>. HIDE DEF outcome
    <2>. QED  BY <1>4, Outcomes
  <1>6. changedDirs = {} => dir \in with /\ Min(with) = dir
    <2>1. SUFFICES ASSUME changedDirs = {} PROVE dir \in with /\ Min(with) = dir
      OBVIOUS
    <2>2. \A d \in Directories : d < dir => ~HasConfig(d) /\ ~disk.dirs[d].git
      BY <1>1, <2>1 DEF ConfigInv, Passed, Pick
    <2>3. dir \in with
      <3>1. \A e \in 0 .. dir - 1 : e \in Directories /\ e < dir
        BY <1>1, ConfigAssumption DEF Directories
      <3>2. dir \in Reach
        BY <1>1, <2>2, <3>1 DEF Reach
      <3>. QED  BY <1>1, <2>1, <3>2
    <2>4. with \subseteq Int /\ \A d \in with : dir <= d
      BY <1>1, <2>2 DEF Reach, Directories
    <2>. HIDE DEF with
    <2>. QED  BY <2>3, <2>4, LeastOf
  <1>. HIDE DEF outcome
  <1>7. ConfigIsNearest'
    <2>1. /\ outcome.is = "exception" => dir \in changedDirs
          /\ outcome.is # "defaults"
          /\ outcome.is = "config" => IsGood(dir)
      BY <1>1, <1>4, <1>5
    <2>2. changedDirs = {} => outcome = IF IsGood(dir) THEN Loaded(dir) ELSE Failed(dir)
      BY <1>1, <1>4
    <2>3. with' = with /\ \A d \in Directories : /\ HasConfig(d)' <=> HasConfig(d)
                                                /\ IsGood(d)' <=> IsGood(d)
      BY <1>2 DEF Reach, HasConfig, IsGood
    <2>. HIDE DEF with
    <2>. QED  BY <1>1, <1>2, <1>5, <1>6, <2>1, <2>2, <2>3 DEF ConfigIsNearest, with
  <1>8. ConfigTypes' /\ Passed'
    BY <1>2 DEF ConfigInv, ConfigTypes, Passed, HasConfig, Pick
  <1>9. config'.is \in {"config", "ConfigError", "defaults", "exception"}
    BY <1>2, <1>5
  <1>10. Chosen'
    BY <1>1, <1>2, <1>9 DEF Chosen
  <1>. QED  BY <1>7, <1>8, <1>10 DEF ConfigInv

LEMMA DirectoryChanges ==
  ASSUME ConfigInv, ChangeDirectory
  PROVE  ConfigInv'
  <1>1. PICK d \in Directories, file \in {NoFile, [kind |-> "json", value |-> "good"]},
             package \in {"none", "noKey", "good"} :
          /\ disk' = [disk EXCEPT !.dirs[d].file = file, !.dirs[d].package = package]
          /\ changedDirs' = changedDirs \cup {d}
    BY DEF ChangeDirectory
  <1>2. /\ configStep \in {"walk", "pick"} /\ UNCHANGED <<configStep, dir, config>>
        /\ disk \in ConfigCase
    BY DEF ChangeDirectory, ConfigInv, ConfigTypes
  <1>3. file \in ConfigFile /\ package \in Package
    BY DEF ConfigFile, Json, Package, Value
  <1>4. /\ disk'.dirs[d] \in Directory /\ disk'.dirs[d].git = disk.dirs[d].git
        /\ \A e \in Directories : e # d => disk'.dirs[e] = disk.dirs[e]
        /\ disk'.explicit = disk.explicit
        /\ disk' \in ConfigCase
    BY <1>1, <1>2, <1>3 DEF ConfigCase, Directory
  <1>5. \A e \in Directories : /\ disk'.dirs[e].git = disk.dirs[e].git
                               /\ HasConfig(e)' => HasConfig(e) \/ e \in changedDirs'
                               /\ HasConfig(e) => HasConfig(e)' \/ e \in changedDirs'
    BY <1>1, <1>4 DEF HasConfig
  <1>. QED  BY <1>1, <1>2, <1>4, <1>5
            DEF ConfigInv, ConfigTypes, Passed, Chosen, ConfigIsNearest

LEMMA ConfigStays == ConfigInv /\ [ConfigNext]_configVars => ConfigInv'
  <1>. SUFFICES ASSUME ConfigInv, [ConfigNext]_configVars PROVE ConfigInv'
    OBVIOUS
  <1>1. CASE Start
    <2>1. disk.given \in ConfigFile
      BY DEF ConfigInv, ConfigTypes, ConfigCase
    <2>2. CASE disk.explicit
      BY <1>1, <2>1, <2>2, FileLoads, Outcomes
         DEF Start, Settle, ConfigInv, ConfigTypes, Passed, Chosen, ConfigIsNearest
    <2>3. CASE ~disk.explicit
      <3>1. /\ configStep' = "walk" /\ dir' = 0
            /\ UNCHANGED <<disk, dir, config, changes, changedDirs>>
        BY <1>1, <2>3 DEF Start, ConfigInv, Chosen
      <3>2. \A d \in Directories : ~(d < 0)
        BY ConfigAssumption DEF Directories
      <3>3. ConfigTypes'
        BY <3>1 DEF ConfigInv, ConfigTypes
      <3>4. Passed' /\ Chosen'
        BY <2>3, <3>1, <3>2 DEF ConfigInv, ConfigTypes, Passed, Chosen
      <3>. QED  BY <3>1, <3>3, <3>4 DEF ConfigInv, ConfigIsNearest
    <2>. QED  BY <2>2, <2>3
  <1>2. CASE UNCHANGED configVars
    BY <1>2 DEF configVars, ConfigInv, ConfigTypes, Passed, Chosen, ConfigIsNearest, HasConfig,
                IsGood, Reach
  <1>. QED  BY <1>1, <1>2, WalkEnds, PickEnds, DirectoryChanges DEF ConfigNext

LEMMA NearestFound == ConfigSpec => []ConfigIsNearest
  <1>1. ConfigInv => ConfigIsNearest
    BY DEF ConfigInv
  <1>. QED  BY <1>1, ConfigStarts, ConfigStays, PTL DEF ConfigSpec

-----------------------------------------------------------------------------
(* The scope.  Each list is true of the files that have not changed sides  *)
(* since git wrote it: those always changed are in it, and whatever is in  *)
(* it was changed when git looked.                                         *)

ScopeTypes ==
  /\ case \in ScopeCase
  /\ gitStep \in {"look", "toplevel", "top", "base", "head", "mergeBase", "diff", "untracked",
                 "hunks", "done", "thrown"}
  /\ gone \in {"nothing", "target", "tree"}
  /\ failures \in Nat
  /\ linesHad \in [Files -> SUBSET (SUBSET Lines)]
  /\ tracked \subseteq Files

History ==
  \A f \in Files : /\ case.tree[f].lines \in linesHad[f]
                   /\ Changed(f, case.tree, case.head) => f \in wasIn
                   /\ ~Changed(f, case.tree, case.head) => f \in wasOut

(* What the processes so far have told; Listing: the diff is over.         *)
Early   == {"look", "toplevel", "top", "base", "head", "mergeBase"}
Over    == {"done", "thrown"}
Listing == gitStep \in {"untracked", "hunks"} \/ scope.ok
Told ==
  /\ gitStep \notin {"look", "toplevel"} \cup Over \/ scope.ok => case.git /\ case.repository
  /\ gitStep \notin {"look", "toplevel", "top", "base"} \cup Over \/ scope.ok => case.base # "unknown"
  /\ gitStep \in Early => ~merge
  /\ gitStep = "diff" => merge
  /\ merge => (case.base = "ref" => case.related)
  /\ ~merge => tracked = {}
  /\ Listing /\ failures = 0 /\ case.head => merge
  /\ failures # 0 /\ gitStep \notin Over => Listing
  /\ failures # 0 /\ Listing => case.head /\ ~merge
  /\ gitStep = "thrown" => gone # "nothing"
  /\ scope.ok => gitStep = "done" /\ scope.files = ScopeFiles /\ scope.ranges = ranges

Kept(f) == f \in Files /\ f \notin wasOut \cup restaged

Listed ==
  /\ \A f \in tracked : f \notin restaged => case.tree[f].indexed
  /\ case.head => \A f \in tracked \cap Admitted : f \in wasIn
  /\ \A f \in others \cap Admitted : f \in wasIn
  /\ Listing /\ merge /\ case.head => \A f : Kept(f) /\ case.tree[f].indexed => f \in tracked
  /\ gitStep = "hunks" \/ scope.ok => \A f : Kept(f) /\ ~case.tree[f].indexed => f \in others

Asked ==
  /\ gitStep \notin {"hunks"} \cup Over => DOMAIN ranges = {}
  /\ \A f \in DOMAIN ranges :
       f \in tracked /\ (Matches[f] = {f} /\ Kept(f) => ranges[f] \in linesHad[f])

ScopeInv == ScopeTypes /\ History /\ Told /\ Listed /\ Asked

LEMMA ScopeStarts == ScopeInit => ScopeInv
  <1>. SUFFICES ASSUME ScopeInit PROVE ScopeInv
    OBVIOUS
  <1>1. case \in ScopeCase /\ case.tree \in [Files -> File]
    BY ScopeAssumption DEF ScopeInit, ScopeCase
  <1>2. ~scope.ok
    BY DEF ScopeInit, Pending
  <1>3. ScopeTypes
    BY <1>1 DEF ScopeInit, ScopeTypes, File
  <1>4. History
    BY <1>1 DEF ScopeInit, History, TrueScope
  <1>. QED  BY <1>2, <1>3, <1>4 DEF ScopeInit, ScopeInv, Told, Listed, Asked, Listing, Early, Over

(* A change of the tree moves files into or out of what is true; the lists *)
(* stay.                                                                   *)
LEMMA TreeStays ==
  ASSUME ScopeInv, ~scope.ok, NEW tree \in [Files -> File], case' = [case EXCEPT !.tree = tree],
         restaged \subseteq restaged',
         \A f \in Files \ restaged' : tree[f].indexed = case.tree[f].indexed,
         linesHad' \in [Files -> SUBSET (SUBSET Lines)],
         \A f \in Files : linesHad[f] \cup {tree[f].lines} \subseteq linesHad'[f],
         wasIn \cup TrueScope(tree, case.head) \subseteq wasIn',
         wasOut \cup (Files \ TrueScope(tree, case.head)) \subseteq wasOut',
         gone' \in {"nothing", "target", "tree"}, gone # "nothing" => gone' # "nothing",
         UNCHANGED <<gitStep, merge, tracked, others, ranges, scope, failures>>
  PROVE  ScopeInv'
  <1>1. case \in ScopeCase
    BY DEF ScopeInv, ScopeTypes
  <1>2. /\ case'.tree = tree /\ case' \in ScopeCase
        /\ case'.head = case.head /\ case'.git = case.git /\ case'.repository = case.repository
        /\ case'.base = case.base /\ case'.related = case.related
    BY <1>1 DEF ScopeCase
  <1>3. ScopeTypes'
    BY <1>2 DEF ScopeInv, ScopeTypes
  <1>4. \A g : Kept(g)' => Kept(g) /\ tree[g].indexed = case.tree[g].indexed
    BY DEF Kept
  <1>5. History'
    BY <1>2 DEF History, TrueScope
  <1>6. Told'
    BY <1>2 DEF ScopeInv, Told, Listing, Early, Over
  <1>7. Listed'
    <2>1. tracked \subseteq Files
      BY DEF ScopeInv, ScopeTypes
    <2>. QED  BY <1>2, <1>4, <2>1 DEF ScopeInv, Listed, Listing
  <1>8. Asked'
    BY <1>4 DEF ScopeInv, Asked, Kept, Over
  <1>. QED  BY <1>3, <1>5, <1>6, <1>7, <1>8 DEF ScopeInv

LEMMA EditStays == ScopeInv /\ EditFile => ScopeInv'
  <1>. SUFFICES ASSUME ScopeInv, EditFile PROVE ScopeInv'
    OBVIOUS
  <1>1. PICK f \in Files, file \in File :
          /\ case' = [case EXCEPT !.tree[f] = file]
          /\ restaged' = IF file.indexed = case.tree[f].indexed THEN restaged ELSE restaged \cup {f}
          /\ linesHad' = [linesHad EXCEPT ![f] = @ \cup {file.lines}]
    BY DEF EditFile
  <1>. DEFINE tree == [case.tree EXCEPT ![f] = file]
  <1>2. /\ case \in ScopeCase /\ case.tree \in [Files -> File] /\ gone \in {"nothing", "target", "tree"}
        /\ linesHad \in [Files -> SUBSET (SUBSET Lines)]
        /\ \A g \in Files : case.tree[g].lines \in linesHad[g]
    BY DEF ScopeInv, ScopeTypes, ScopeCase, History
  <1>3. case' = [case EXCEPT !.tree = tree] /\ case'.tree = tree /\ case'.head = case.head
        /\ tree \in [Files -> File]
    BY <1>1, <1>2 DEF ScopeCase
  <1>4. /\ ~scope.ok /\ gone' = gone
        /\ UNCHANGED <<gitStep, merge, tracked, others, ranges, scope, failures>>
        /\ wasIn' = wasIn \cup TrueScope(tree, case.head)
        /\ wasOut' = wasOut \cup (Files \ TrueScope(tree, case.head))
    BY <1>3 DEF EditFile, Pending
  <1>5. restaged \subseteq restaged'
        /\ \A g \in Files \ restaged' : tree[g].indexed = case.tree[g].indexed
    BY <1>1, <1>2
  <1>6. /\ linesHad' \in [Files -> SUBSET (SUBSET Lines)]
        /\ \A g \in Files : linesHad[g] \cup {tree[g].lines} \subseteq linesHad'[g]
    <2>1. file.lines \in SUBSET Lines
      BY DEF File
    <2>. QED  BY <1>1, <1>2, <2>1
  <1>. HIDE DEF tree
  <1>. QED  BY <1>2, <1>3, <1>4, <1>5, <1>6, TreeStays

LEMMA TakeAwayStays == ScopeInv /\ TakeAway => ScopeInv'
  <1>. SUFFICES ASSUME ScopeInv, TakeAway PROVE ScopeInv'
    OBVIOUS
  <1>. DEFINE removed(f) == [case.tree[f] EXCEPT !.exists = FALSE, !.differs = TRUE, !.lines = {}]
              tree == [f \in Files |-> IF f \in Admitted THEN removed(f) ELSE case.tree[f]]
  <1>1. /\ case \in ScopeCase /\ case.tree \in [Files -> File]
        /\ linesHad \in [Files -> SUBSET (SUBSET Lines)]
    BY DEF ScopeInv, ScopeTypes, ScopeCase
  <1>2. \A f \in Files : /\ removed(f) \in File /\ removed(f).indexed = case.tree[f].indexed
                         /\ ~removed(f).exists
    BY <1>1 DEF File
  <1>. HIDE DEF removed
  <1>3. case' = [case EXCEPT !.tree = tree]
    BY DEF TakeAway, removed
  <1>4. case'.tree = tree /\ tree \in [Files -> File]
    BY <1>1, <1>2, <1>3 DEF ScopeCase
  <1>5. /\ ~scope.ok /\ gone' \in {"target", "tree"}
        /\ UNCHANGED <<gitStep, merge, tracked, others, ranges, scope, failures, wasIn, restaged>>
        /\ wasOut' = wasOut \cup Files
        /\ linesHad' = [f \in Files |-> linesHad[f] \cup {tree[f].lines}]
    BY <1>4 DEF TakeAway, Pending
  <1>6. TrueScope(tree, case.head) = {}
    BY <1>2 DEF TrueScope, Changed
  <1>7. \A f \in Files : tree[f].indexed = case.tree[f].indexed /\ tree[f].lines \in SUBSET Lines
    BY <1>2, <1>4 DEF File
  <1>8. /\ linesHad' \in [Files -> SUBSET (SUBSET Lines)]
        /\ \A f \in Files : linesHad[f] \cup {tree[f].lines} \subseteq linesHad'[f]
    BY <1>1, <1>5, <1>7
  <1>. HIDE DEF tree
  <1>. QED  BY <1>3, <1>4, <1>5, <1>6, <1>7, <1>8, TreeStays

(* A git process that fails ends it all without a scope.                   *)
LEMMA ReportStays ==
  ASSUME ScopeInv, NEW count \in Nat, Report(count)
  PROVE  ScopeInv'
  <1>1. ~scope'.ok /\ gitStep' = "done"
    BY DEF Report, NoScope
  <1>2. UNCHANGED <<case, gone, merge, tracked, others, ranges, wasIn, wasOut, restaged, linesHad>>
    BY DEF Report, history
  <1>. QED  BY <1>1, <1>2
            DEF Report, ScopeInv, ScopeTypes, History, Told, Listed, Asked, Listing, Kept, Early, Over

(* What goes on without a list, LookAtTarget to ResolveHead.               *)
LEMMA GoesOn ==
  ASSUME ScopeInv, gitStep \in Early, failures' \in Nat, gitStep' # "diff",
         UNCHANGED <<case, gone, merge, tracked, others, ranges, scope, wasIn, wasOut, restaged, linesHad>>,
         gitStep' \in Early \cup {"untracked"},
         gitStep' \notin {"look", "toplevel"} => case.git /\ case.repository,
         gitStep' \notin {"look", "toplevel", "top", "base"} => case.base # "unknown",
         gitStep' # "untracked" => failures' = failures,
         gitStep' = "untracked" => (failures' # 0 <=> case.head)
  PROVE  ScopeInv'
  <1>1. ~merge /\ ~scope.ok /\ DOMAIN ranges = {} /\ failures = 0
    BY DEF ScopeInv, Told, Asked, Listing, Early, Over
  <1>. QED  BY <1>1
            DEF ScopeInv, ScopeTypes, History, Told, Listed, Asked, Listing, Kept, Early, Over

LEMMA LooksStay ==
  ASSUME ScopeInv, LookAtTarget \/ LookAtTop
  PROVE  ScopeInv'
  <1>1. /\ gitStep \in {"look", "top"} /\ failures \in Nat
        /\ gitStep = "top" => case.git /\ case.repository
    BY DEF LookAtTarget, LookAtTop, LookAt, ScopeInv, ScopeTypes, Told, Over
  <1>2. CASE \/ gitStep = "look" /\ Proceed("toplevel")
             \/ gitStep = "top" /\ Proceed("base")
    BY <1>1, <1>2, GoesOn DEF Proceed, history, Early
  <1>3. CASE /\ scope' = NoScope /\ gitStep' = "thrown" /\ gone # "nothing"
             /\ UNCHANGED <<case, merge, tracked, others, ranges, failures, history>>
    <2>1. ~scope'.ok
      BY <1>3 DEF NoScope
    <2>. QED  BY <1>3, <2>1 DEF ScopeInv, ScopeTypes, History, Told, Listed, Asked, Listing, Kept,
                                history, Early, Over
  <1>. QED  BY <1>2, <1>3 DEF LookAtTarget, LookAtTop, LookAt

(* refResolves is never wrong with true, and wrong with false by a failure.*)
LEMMA RefAnswers ==
  ASSUME failures = 0, NEW truth \in BOOLEAN, NEW answer \in Answers(truth)
  PROVE  /\ answer \in BOOLEAN /\ (answer => truth) /\ Count(answer, truth) \in {0, 1}
         /\ answer => Count(answer, truth) = 0
         /\ ~answer => (Count(answer, truth) # 0 <=> truth)
  <1>1. answer \in {truth, FALSE}
    BY DEF Answers
  <1>2. CASE truth = TRUE
    <2>1. CASE answer = TRUE
      BY <1>2, <2>1 DEF Count
    <2>2. CASE answer = FALSE
      <3>1. answer # truth
        BY <1>2, <2>2, Zenon
      <3>2. Count(answer, truth) = failures + 1
        BY <3>1 DEF Count
      <3>3. Count(answer, truth) = 1 /\ 1 # 0
        BY <3>2
      <3>4. /\ Count(answer, truth) \in {0, 1} /\ Count(answer, truth) # 0
        BY <3>3
      <3>. QED  BY <1>2, <2>2, <3>4, Zenon
    <2>. QED  BY <1>1, <1>2, <2>1, <2>2
  <1>3. CASE truth = FALSE
    <2>1. answer = FALSE
      BY <1>1, <1>3
    <2>. QED  BY <1>3, <2>1 DEF Count
  <1>. QED  BY <1>2, <1>3

(* Toplevel, ResolveBase and ResolveHead report or go on without a list.   *)
LEMMA RefsStay ==
  ASSUME ScopeInv, Toplevel \/ ResolveBase \/ ResolveHead
  PROVE  ScopeInv'
  <1>. DEFINE same == UNCHANGED <<case, gone, merge, tracked, others, ranges, scope,
                                  wasIn, wasOut, restaged, linesHad>>
  <1>1. failures = 0 /\ case \in ScopeCase /\ gitStep \in Early
    BY DEF ScopeInv, ScopeTypes, Told, Listing, Early, Over, Toplevel, ResolveBase, ResolveHead
  <1>2. ASSUME \E count \in {0, 1} : Report(count)
        PROVE  ScopeInv'
    BY <1>2, ReportStays
  <1>4. CASE Toplevel
    <2>1. CASE case.git /\ case.repository /\ Proceed("top") /\ gitStep = "toplevel"
      BY <1>1, <2>1, GoesOn DEF Proceed, history, Early
    <2>. QED  BY <1>1, <1>2, <1>4, <2>1 DEF Toplevel, GitRuns
  <1>5. CASE ResolveBase
    <2>1. gitStep = "base" /\ case.git /\ case.repository /\ BaseResolves \in BOOLEAN
      BY <1>1, <1>5 DEF ResolveBase, ScopeInv, Told, BaseResolves, ScopeCase, Over
    <2>2. PICK answer \in Answers(BaseResolves) :
            IF ~answer /\ case.base # "HEAD" THEN Report(Count(answer, BaseResolves))
            ELSE /\ gitStep' = IF answer THEN "head" ELSE "untracked"
                 /\ failures' = Count(answer, BaseResolves)
                 /\ UNCHANGED <<case, merge, tracked, others, ranges, scope, history>>
      BY <1>5 DEF ResolveBase
    <2>3. /\ answer \in BOOLEAN /\ (answer => BaseResolves)
          /\ Count(answer, BaseResolves) \in {0, 1}
          /\ answer => Count(answer, BaseResolves) = 0
          /\ ~answer => (Count(answer, BaseResolves) # 0 <=> BaseResolves)
          /\ BaseResolves => case.base # "unknown"
          /\ case.base = "HEAD" => (BaseResolves <=> case.head)
      <3>1. /\ BaseResolves => case.base # "unknown"
            /\ case.base = "HEAD" => (BaseResolves <=> case.head)
        BY <1>1 DEF BaseResolves, ScopeCase
      <3>. QED  BY <1>1, <2>1, <2>2, <3>1, RefAnswers
    <2>4. CASE ~answer /\ case.base # "HEAD"
      BY <1>2, <2>2, <2>3, <2>4
    <2>5. CASE answer
      <3>1. same /\ gitStep' = "head" /\ failures' = 0
        BY <2>2, <2>3, <2>5 DEF history
      <3>. QED  BY <1>1, <2>1, <2>3, <2>5, <3>1, GoesOn DEF Early
    <2>6. CASE ~answer /\ case.base = "HEAD"
      <3>1. same /\ gitStep' = "untracked" /\ failures' \in Nat /\ (failures' # 0 <=> case.head)
        BY <2>2, <2>3, <2>6 DEF history
      <3>. QED  BY <1>1, <2>1, <2>6, <3>1, GoesOn DEF Early
    <2>. QED  BY <2>3, <2>4, <2>5, <2>6
  <1>6. CASE ResolveHead
    <2>1. gitStep = "head" /\ case.git /\ case.repository /\ case.base # "unknown" /\ case.head \in BOOLEAN
      BY <1>1, <1>6 DEF ResolveHead, ScopeInv, Told, ScopeCase, Over
    <2>2. PICK answer \in Answers(case.head) :
            /\ gitStep' = IF answer THEN "mergeBase" ELSE "untracked"
            /\ failures' = Count(answer, case.head)
      BY <1>6 DEF ResolveHead
    <2>3. /\ answer \in BOOLEAN /\ (answer => case.head)
          /\ failures' \in {0, 1} /\ (answer => failures' = 0)
          /\ ~answer => (failures' # 0 <=> case.head)
      BY <1>1, <2>1, <2>2, RefAnswers
    <2>4. same
      BY <1>6 DEF ResolveHead, history
    <2>5. CASE answer
      <3>1. gitStep' = "mergeBase" /\ failures' = 0
        BY <2>2, <2>3, <2>5
      <3>. QED  BY <1>1, <2>1, <2>4, <3>1, GoesOn DEF Early
    <2>6. CASE ~answer
      BY <1>1, <2>1, <2>2, <2>3, <2>4, <2>6, GoesOn DEF Early
    <2>. QED  BY <2>3, <2>5, <2>6
  <1>. QED  BY <1>4, <1>5, <1>6

LEMMA MergeBaseStays == ScopeInv /\ MergeBase => ScopeInv'
  <1>. SUFFICES ASSUME ScopeInv, MergeBase PROVE ScopeInv'
    OBVIOUS
  <1>1. failures \in Nat /\ failures + 1 \in Nat
    BY DEF ScopeInv, ScopeTypes
  <1>2. CASE \E count \in {failures, failures + 1} : Report(count)
    BY <1>1, <1>2, ReportStays
  <1>3. CASE /\ case.base = "ref" => case.related
             /\ merge' = TRUE /\ gitStep' = "diff"
             /\ UNCHANGED <<case, tracked, others, ranges, scope, failures, history>>
    <2>1. gitStep = "mergeBase"
      BY DEF MergeBase
    <2>. QED  BY <1>3, <2>1 DEF ScopeInv, ScopeTypes, History, Told, Listed, Asked, Listing, Kept,
                                history, ScopeFiles, Early, Over
  <1>. QED  BY <1>2, <1>3 DEF MergeBase

(* git diff: a file always changed has always been there, and one that     *)
(* stayed in the index differs.                                            *)
LEMMA DiffStays == ScopeInv /\ Diff => ScopeInv'
  <1>. SUFFICES ASSUME ScopeInv, Diff PROVE ScopeInv'
    OBVIOUS
  <1>1. failures \in Nat /\ failures + 1 \in Nat
    BY DEF ScopeInv, ScopeTypes
  <1>2. CASE Report(failures + 1)
    BY <1>1, <1>2, ReportStays
  <1>3. CASE /\ tracked' = DiffNames /\ gitStep' = "untracked"
             /\ UNCHANGED <<case, merge, others, ranges, scope, failures, history>>
    <2>1. gitStep = "diff" /\ merge /\ ~scope.ok /\ DOMAIN ranges = {}
      BY DEF Diff, ScopeInv, Told, Asked, Over
    <2>2. /\ \A f \in DiffNames : f \in Files /\ case.tree[f].indexed
          /\ case.head => \A f \in DiffNames \cap Admitted : f \in wasIn
      BY DEF DiffNames, ScopeInv, History, Changed
    <2>3. ASSUME case.head, NEW f, Kept(f), case.tree[f].indexed
          PROVE  f \in DiffNames
      BY <2>3 DEF Kept, DiffNames, ScopeInv, History, Changed
    <2>. QED  BY <1>3, <2>1, <2>2, <2>3
              DEF ScopeInv, ScopeTypes, History, Told, Listed, Asked, Listing, Kept, history, Early, Over
  <1>. QED  BY <1>2, <1>3 DEF Diff

LEMMA UntrackedStays == ScopeInv /\ Untracked => ScopeInv'
  <1>. SUFFICES ASSUME ScopeInv, Untracked PROVE ScopeInv'
    OBVIOUS
  <1>1. failures \in Nat /\ failures + 1 \in Nat
    BY DEF ScopeInv, ScopeTypes
  <1>2. CASE Report(failures + 1)
    BY <1>1, <1>2, ReportStays
  <1>3. CASE /\ others' = UntrackedNames /\ gitStep' = "hunks"
             /\ UNCHANGED <<case, merge, tracked, ranges, scope, failures, history>>
    <2>1. gitStep = "untracked" /\ ~scope.ok /\ DOMAIN ranges = {}
      BY DEF Untracked, ScopeInv, Told, Asked, Over
    <2>2. \A f \in UntrackedNames \cap Admitted : f \in wasIn
      BY DEF UntrackedNames, ScopeInv, History, Changed
    <2>3. ASSUME NEW f, Kept(f), ~case.tree[f].indexed
          PROVE  f \in UntrackedNames
      BY <2>3 DEF Kept, UntrackedNames, ScopeInv, History, Changed
    <2>. QED  BY <1>3, <2>1, <2>2, <2>3
              DEF ScopeInv, ScopeTypes, History, Told, Listed, Asked, Listing, Kept, history, Early, Over
  <1>. QED  BY <1>2, <1>3 DEF Untracked

(* The hunks of a file whose name matches no other are its lines, as long  *)
(* as it has stayed changed and in the index.                              *)
LEMMA HunksStay == ScopeInv /\ AskHunks => ScopeInv'
  <1>. SUFFICES ASSUME ScopeInv, AskHunks PROVE ScopeInv'
    OBVIOUS
  <1>1. failures \in Nat /\ failures + 1 \in Nat
    BY DEF ScopeInv, ScopeTypes
  <1>2. CASE Report(failures + 1)
    BY <1>1, <1>2, ReportStays
  <1>3. ASSUME NEW f \in HunksWanted,
               ranges' = [g \in DOMAIN ranges \cup {f} |-> IF g = f THEN Hunks(f) ELSE ranges[g]],
               UNCHANGED <<case, gitStep, merge, tracked, others, scope, failures, history>>
        PROVE  ScopeInv'
    <2>1. gitStep = "hunks" /\ ~scope.ok /\ f \in tracked
      BY DEF AskHunks, HunksWanted, ScopeInv, Told, Over
    <2>2. ASSUME Matches[f] = {f}, Kept(f)
          PROVE  Hunks(f) \in linesHad[f]
      <3>1. case.tree[f].exists /\ case.tree[f].indexed /\ case.tree[f].lines \in linesHad[f]
        BY <2>1, <2>2 DEF Kept, ScopeInv, History, Changed, Listed
      <3>2. Hunks(f) = case.tree[f].lines
        BY <2>2, <3>1 DEF Hunks
      <3>. QED  BY <3>1, <3>2
    <2>3. Asked'
      <3>1. \A g : Kept(g)' <=> Kept(g)
        BY <1>3 DEF Kept, history
      <3>. QED  BY <1>3, <2>1, <2>2, <3>1 DEF ScopeInv, Asked, Over, history
    <2>. QED  BY <1>3, <2>1, <2>3
              DEF ScopeInv, ScopeTypes, History, Told, Listed, Listing, Kept, history, Early, Over
  <1>. QED  BY <1>2, <1>3 DEF AskHunks

LEMMA ResolvedStays == ScopeInv /\ Resolved => ScopeInv'
  <1>. SUFFICES ASSUME ScopeInv, Resolved PROVE ScopeInv'
    OBVIOUS
  <1>1. /\ gitStep = "hunks" /\ gitStep' = "done"
        /\ scope'.ok /\ scope'.files = ScopeFiles /\ scope'.ranges = ranges
        /\ UNCHANGED <<case, merge, tracked, others, ranges, failures, history>>
    BY DEF Resolved
  <1>2. ScopeFiles' = ScopeFiles
    BY <1>1 DEF ScopeFiles
  <1>. QED  BY <1>1, <1>2
            DEF ScopeInv, ScopeTypes, History, Told, Listed, Asked, Listing, Kept, history, Early, Over

LEMMA ScopeStays == ScopeInv /\ [ScopeNext]_scopeVars => ScopeInv'
  <1>1. ScopeInv /\ UNCHANGED scopeVars => ScopeInv'
    BY DEF scopeVars, ScopeInv, ScopeTypes, History, Told, Listed, Asked, Listing, Kept,
           Early, Over, ScopeFiles, Changed
  <1>. QED  BY <1>1, EditStays, TakeAwayStays, LooksStay, RefsStay, MergeBaseStays, DiffStays, UntrackedStays, HunksStay,
               ResolvedStays DEF ScopeNext

LEMMA ScopeHolds == ScopeInv => ScopeIsTrue /\ OnlyRevParseFailsUnseen
  <1>. SUFFICES ASSUME ScopeInv PROVE ScopeIsTrue /\ OnlyRevParseFailsUnseen
    OBVIOUS
  <1>1. OnlyRevParseFailsUnseen
    <2>1. scope.ok => (DOMAIN ranges \subseteq tracked /\ (~merge => scope.files = others \cap Admitted))
      BY DEF ScopeInv, Told, Asked, ScopeFiles
    <2>. QED  BY <2>1 DEF ScopeInv, Told, OnlyRevParseFailsUnseen, Listing, GitAnswered
  <1>2. \A f \in Files : Matches[f] = {f} => OwnLines(f)
    BY DEF OwnLines, ScopeInv, Told, Asked, Kept
  <1>3. ASSUME scope.ok, GitAnswered, case.head
        PROVE  /\ Files \ (wasOut \cup restaged) \subseteq scope.files
               /\ scope.files \subseteq wasIn
    <2>1. Listing /\ merge /\ scope.files = (tracked \cup others) \cap Admitted
      BY <1>3 DEF ScopeInv, Told, Listing, GitAnswered, ScopeFiles
    <2>2. ASSUME NEW f \in Files \ (wasOut \cup restaged)
          PROVE  f \in Admitted /\ f \in tracked \cup others
      BY <1>3, <2>1 DEF ScopeInv, Listed, History, Kept, Changed
    <2>3. \A f \in (tracked \cup others) \cap Admitted : f \in wasIn
      BY <1>3 DEF ScopeInv, Listed
    <2>. QED  BY <2>1, <2>2, <2>3
  <1>. QED  BY <1>1, <1>2, <1>3 DEF ScopeIsTrue

LEMMA ScopesTrue == ScopeSpec => [](ScopeIsTrue /\ OnlyRevParseFailsUnseen)
  BY ScopeStarts, ScopeStays, ScopeHolds, PTL DEF ScopeSpec

-----------------------------------------------------------------------------
(* The trace.  A probe that still writes has not completed its findings,   *)
(* and what the load has read stays as it is until somebody clears it away.*)

TraceInv ==
  /\ traceDir \in TraceCase /\ (traceDir.writing => traceDir.findings \in {"absent", "garbage"})
  /\ traceStep \in {"exists", "isDirectory", "findings?", "session?", "findings", "session", "done"}
  /\ trace \in {"pending", "ok", "error", "exception"} /\ (trace = "pending" <=> traceStep # "done")
  /\ traceStep = "isDirectory" => traceDir.dir # "absent" \/ cleared
  /\ traceStep = "session" => traceDir.findings = "good"
  /\ TraceIsWhole

LEMMA TraceStarts == TraceInit => TraceInv
  BY TraceAssumption DEF TraceInit, TraceInv, TraceIsWhole

LEMMA TraceStays == TraceInv /\ [TraceNext]_traceVars => TraceInv'
  <1>. SUFFICES ASSUME TraceInv, [TraceNext]_traceVars PROVE TraceInv'
    OBVIOUS
  <1>1. /\ traceDir \in TraceCase
        /\ traceDir.dir \in {"absent", "file", "directory"}
        /\ traceDir.session \in Document /\ traceDir.findings \in Document \ {"noCwd"}
        /\ traceDir.writing \in BOOLEAN
    BY DEF TraceInv, TraceCase
  <1>2. ASSUME UNCHANGED <<traceDir, cleared>>, trace = "pending",
               traceStep' = "done", trace' \in {"ok", "error", "exception"},
               trace' = "ok" => traceDir.findings = "good" /\ traceDir.session = "good",
               trace' = "exception" => cleared \/ "null" \in {traceDir.findings, traceDir.session}
        PROVE  TraceInv'
    BY <1>2 DEF TraceInv, TraceIsWhole
  <1>3. ASSUME UNCHANGED <<traceDir, trace, cleared>>, trace = "pending",
               traceStep' \in {"isDirectory", "findings?", "session?", "findings", "session"},
               traceStep' = "isDirectory" => traceDir.dir # "absent",
               traceStep' = "session" => traceDir.findings = "good"
        PROVE  TraceInv'
    BY <1>3 DEF TraceInv, TraceIsWhole
  <1>4. CASE DirExists
    BY <1>2, <1>3, <1>4 DEF DirExists, Answer, Look, TraceInv
  <1>5. CASE IsDirectory
    BY <1>1, <1>2, <1>3, <1>5 DEF IsDirectory, Answer, Look, TraceInv
  <1>6. CASE HasFindings \/ HasSession
    BY <1>2, <1>3, <1>6 DEF HasFindings, HasSession, Answer, Look, TraceInv
  <1>7. CASE ReadFindings
    <2>1. trace = "pending" /\ traceStep = "findings"
      BY <1>7 DEF ReadFindings, TraceInv
    <2>2. \/ Answer("error")
          \/ Answer("exception") /\ traceDir.findings = "null"
          \/ Look("session") /\ traceDir.findings = "good"
      BY <1>1, <1>7 DEF ReadFindings, ReadDocument, Document, There
    <2>. QED  BY <1>2, <1>3, <2>1, <2>2 DEF Answer, Look
  <1>8. CASE ReadSession
    <2>1. trace = "pending" /\ traceDir.findings = "good"
      BY <1>8 DEF ReadSession, TraceInv
    <2>2. \/ Answer("error")
          \/ Answer("exception") /\ traceDir.session = "null"
          \/ Answer("ok") /\ traceDir.session = "good"
      BY <1>1, <1>8 DEF ReadSession, ReadDocument, Document, There
    <2>. QED  BY <1>2, <2>1, <2>2 DEF Answer
  <1>9. CASE WriteOn
    <2>1. /\ trace = "pending" /\ UNCHANGED <<traceStep, trace, cleared>>
          /\ traceDir.writing /\ traceDir.findings \in {"absent", "garbage"}
      BY <1>9 DEF WriteOn, TraceInv
    <2>2. /\ traceDir' \in TraceCase /\ traceDir'.dir = traceDir.dir
          /\ traceDir'.writing => traceDir'.findings \in {"absent", "garbage"}
      BY <1>1, <1>9, <2>1 DEF WriteOn, TraceCase, Document
    <2>. QED  BY <2>1, <2>2 DEF TraceInv, TraceIsWhole
  <1>10. CASE ClearAway
    <2>1. /\ trace = "pending" /\ UNCHANGED <<traceStep, trace>> /\ cleared'
          /\ traceDir' \in TraceCase /\ ~traceDir'.writing /\ traceDir'.findings = traceDir.findings
      BY <1>1, <1>10 DEF ClearAway, TraceCase
    <2>. QED  BY <2>1 DEF TraceInv, TraceIsWhole
  <1>11. CASE UNCHANGED traceVars
    BY <1>11 DEF traceVars, TraceInv, TraceIsWhole
  <1>. QED  BY <1>4, <1>5, <1>6, <1>7, <1>8, <1>9, <1>10, <1>11 DEF TraceNext

LEMMA TracesWhole == TraceSpec => []TraceIsWhole
  <1>1. TraceInv => TraceIsWhole
    BY DEF TraceInv
  <1>. QED  BY <1>1, TraceStarts, TraceStays, PTL DEF TraceSpec

-----------------------------------------------------------------------------
(* The three in the order of scanCommand.  A stage that was passed has     *)
(* given what was asked of it, and steps no more.                          *)

LEMMA StagesStep ==
  [Next]_inputVars => /\ [ConfigNext]_configVars /\ [ScopeNext]_scopeVars
                      /\ [TraceNext]_traceVars
  BY DEF Next, inputVars, ConfigSteps, StartDirThrows, ConfigEnds, ScopeSteps, ScopeEnds, TraceSteps,
         TraceEnds, GoOn, End, ScopeNext

(* Every stage of ScanInputs is the module it is composed of.              *)
THEOREM RunsTheStages == Spec => ConfigSpec /\ ScopeSpec /\ TraceSpec
  <1>1. Init => ConfigInit /\ ScopeInit /\ TraceInit
    BY DEF Init
  <1>. QED  BY <1>1, StagesStep, PTL DEF Spec, ConfigSpec, ScopeSpec, TraceSpec

Asking ==
  /\ place \in {"config", "scope", "trace", "scan", "ended"}
  /\ place # "ended" => exit = NoExit
  /\ place \in {"scope", "trace", "scan"} =>
       configStep = "done" /\ config.is \in {"config", "defaults"}
  /\ place \in {"trace", "scan"} /\ asked.scoped => scope.ok
  /\ place = "scan" /\ asked.traced => trace = "ok"
  /\ exit = 1 => /\ place = "ended"
                 /\ \/ configStep = "done" /\ config.is = "exception"
                    \/ gone # "nothing" /\ configStep = "start"
                    \/ asked.scoped /\ gitStep = "thrown"
                    \/ trace = "exception"

InputsInv == ConfigInv /\ ScopeInv /\ TraceInv /\ Asking

LEMMA AskingStays == InputsInv /\ [Next]_inputVars => Asking'
  <1>. SUFFICES ASSUME InputsInv, [Next]_inputVars PROVE Asking'
    OBVIOUS
  <1>1. CASE ConfigSteps
    BY <1>1 DEF ConfigSteps, InputsInv, Asking, scopeVars, traceVars, NoExit
  <1>2. CASE ConfigEnds
    <2>1. place = "config" /\ configStep = "done" /\ exit = NoExit
          /\ config.is \in {"config", "ConfigError", "defaults", "exception"}
      BY <1>2 DEF ConfigEnds, InputsInv, Asking, ConfigInv, Chosen
    <2>2. CASE config.is = "ConfigError"
      BY <1>2, <2>1, <2>2 DEF ConfigEnds, End, Asking, configVars, scopeVars, traceVars
    <2>3. CASE config.is = "exception"
      BY <1>2, <2>1, <2>3 DEF ConfigEnds, End, Asking, configVars, scopeVars, traceVars
    <2>4. CASE config.is \in {"config", "defaults"}
      BY <1>2, <2>1, <2>4 DEF ConfigEnds, GoOn, Asking, configVars, scopeVars, traceVars, NoExit
    <2>. QED  BY <2>1, <2>2, <2>3, <2>4
  <1>3. CASE ScopeSteps
    BY <1>3 DEF ScopeSteps, InputsInv, Asking, configVars, traceVars, NoExit
  <1>4. CASE ScopeEnds
    <2>1. place = "scope" /\ exit = NoExit /\ (asked.scoped => gitStep \in {"done", "thrown"})
      BY <1>4 DEF ScopeEnds, ScopeOver, InputsInv, Asking
    <2>2. \/ End(2) \/ (End(1) /\ asked.scoped /\ gitStep = "thrown")
          \/ GoOn("trace") /\ (asked.scoped => scope.ok)
      BY <1>4, <2>1 DEF ScopeEnds
    <2>. QED  BY <2>1, <2>2
              DEF GoOn, End, InputsInv, Asking, configVars, scopeVars, traceVars, NoExit
  <1>5. CASE TraceSteps
    BY <1>5 DEF TraceSteps, InputsInv, Asking, configVars, scopeVars, NoExit
  <1>6. CASE TraceEnds
    <2>1. place = "trace" /\ exit = NoExit /\ (asked.traced => trace \in {"ok", "error", "exception"})
      BY <1>6 DEF TraceEnds, InputsInv, Asking, TraceInv
    <2>2. \/ End(2) \/ (End(1) /\ trace = "exception")
          \/ GoOn("scan") /\ (asked.traced => trace = "ok")
      BY <1>6, <2>1 DEF TraceEnds
    <2>. QED  BY <2>1, <2>2
              DEF GoOn, End, InputsInv, Asking, configVars, scopeVars, traceVars, NoExit
  <1>7. CASE UNCHANGED inputVars
    BY <1>7 DEF inputVars, configVars, scopeVars, traceVars, InputsInv, Asking
  <1>8. CASE StartDirThrows
    BY <1>8 DEF StartDirThrows, TakeAway, Asking, configVars, traceVars
  <1>. QED  BY <1>1, <1>2, <1>3, <1>4, <1>5, <1>6, <1>7, <1>8 DEF Next

LEMMA InputsHold == Spec => []InputsInv
  <1>1. Init => InputsInv
    BY ConfigStarts, ScopeStarts, TraceStarts DEF Init, InputsInv, Asking, NoExit
  <1>2. InputsInv /\ [Next]_inputVars => InputsInv'
    BY AskingStays, StagesStep, ConfigStays, ScopeStays, TraceStays DEF InputsInv
  <1>. QED  BY <1>1, <1>2, PTL DEF Spec

(* A scan starts only with the configuration, the scope and the trace it   *)
(* was asked to use, only what goes away under the command, or a trace of  *)
(* JSON null, ends it with an exception, and the one failure of git that   *)
(* is not reported leaves the files that are not tracked (scan.ts,         *)
(* resolve.ts).                                                            *)
THEOREM Answered == Spec => []BadInputsAreAnswered
  <1>1. InputsInv => BadInputsAreAnswered
    <2>. SUFFICES ASSUME InputsInv PROVE BadInputsAreAnswered
      OBVIOUS
    <2>1. TraceIsWhole /\ OnlyRevParseFailsUnseen
      BY ScopeHolds DEF InputsInv, TraceInv
    <2>2. configStep = "done" /\ config.is = "exception" => config.from \in changedDirs
      BY DEF InputsInv, ConfigInv, Chosen, ConfigIsNearest
    <2>3. gitStep = "thrown" => gone # "nothing"
      BY DEF InputsInv, ScopeInv, Told
    <2>. QED  BY <2>1, <2>2, <2>3 DEF InputsInv, Asking, BadInputsAreAnswered
  <1>. QED  BY <1>1, InputsHold, PTL

(* Of every disk, however files come and go: the nearest configuration     *)
(* within the repository counts, and a broken one is an error (load.ts).   *)
THEOREM Nearest == Spec => []ConfigIsNearest
  BY RunsTheStages, NearestFound, PTL

(* Of every repository and every sequence of edits: what stays changed is  *)
(* in the scope, what never was is not, and the lines of a file whose name *)
(* matches no other are its own (resolve.ts).                              *)
THEOREM TrueToTheTree == Spec => []ScopeIsTrue
  BY RunsTheStages, ScopesTrue, PTL

(* Whenever the probe writes and whoever clears up: a trace that is used   *)
(* is complete (load.ts).                                                  *)
THEOREM WholeTraces == Spec => []TraceIsWhole
  BY RunsTheStages, TracesWhole, PTL
=============================================================================
