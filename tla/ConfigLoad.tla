----------------------------- MODULE ConfigLoad ------------------------------
(***************************************************************************)
(* Finding and loading the configuration (src/config/load.ts, validate.ts):*)
(* a walk from the scan target upwards, a second look into the directory   *)
(* it ends in, and the read of what is there, while files come and go.     *)
(***************************************************************************)
EXTENDS Integers, FiniteSetsExt

CONSTANTS
  Top,         \* directories are 0 .. Top: the target and its ancestors
  ConfigCases, \* directories and --config arguments: a subset of ConfigCase
  MaxChanges   \* bound: directories that change during the walk

Directories == 0 .. Top

(* What a value is as a configuration: no object, an object with a field   *)
(* that does not validate, or one that does.                               *)
Value   == {"absent", "notObject", "badField", "good"}
Exports == [default : Value, config : Value, whole : Value \ {"absent"}, esModule : BOOLEAN]
NoFile  == [kind |-> "none"]
Broken  == [kind |-> "broken"]            \* does not parse, or throws when it is loaded
Json    == [kind : {"json"}, value : Value \ {"absent"}]
Module  == [kind : {"module"}, exports : Exports]
ConfigFile == {NoFile, Broken} \cup Json \cup Module
Package == {"none", "broken"} \cup {"noKey"} \cup (Value \ {"absent"})

Directory  == [file : ConfigFile, package : Package, git : BOOLEAN]
ConfigCase == [dirs : [Directories -> Directory],
               explicit : BOOLEAN, given : ConfigFile] \* --config, and what it names

ASSUME ConfigAssumption == Top \in Nat /\ ConfigCases \subseteq ConfigCase /\ MaxChanges \in Nat

VARIABLES
  disk,      \* the directories, and --config
  configStep,\* "start", "walk", "pick", "done"
  dir,       \* where the walk is
  config,    \* the outcome
  changes, changedDirs

configVars == <<disk, configStep, dir, config, changes, changedDirs>>

Unknown  == [is |-> "pending", from |-> -1]
Defaults == [is |-> "defaults", from |-> -1]
Failed(d)  == [is |-> "ConfigError", from |-> d]
Crashed(d) == [is |-> "exception", from |-> d]
Loaded(d)  == [is |-> "config", from |-> d]

ConfigInit ==
  /\ disk \in ConfigCases /\ configStep = "start" /\ dir = 0 /\ config = Unknown
  /\ changes = 0 /\ changedDirs = {}

-----------------------------------------------------------------------------
(* validateUserConfig: what it rejects is a ConfigError, never defaults.   *)
Validated(value, d) == IF value = "good" THEN Loaded(d) ELSE Failed(d)

IsObject(value) == value \in {"badField", "good"}

(* extractDefaultOrConfig: an own default export, else config, else the    *)
(* module itself unless it is transpiled from ES.                          *)
Extracted(e) ==
  CASE IsObject(e.default) -> e.default
    [] ~IsObject(e.default) /\ IsObject(e.config) -> e.config
    [] OTHER -> IF e.esModule THEN "notObject" ELSE e.whole

LoadFromFile(file, d) ==
  CASE file.kind = "json"   -> Validated(file.value, d)
    [] file.kind = "module" -> Validated(Extracted(file.exports), d)
    [] OTHER -> Failed(d)

(* loadFromPackageJson: no try around it, and the key may be gone.         *)
LoadFromPackageJson(package, d) ==
  CASE package \in {"none", "broken"} -> Crashed(d)
    [] package = "noKey" -> Failed(d)
    [] OTHER -> Validated(package, d)

PackageJsonHasKey(package) == package \notin {"none", "broken", "noKey"}

Settle(outcome) ==
  /\ config' = outcome /\ configStep' = "done" /\ UNCHANGED <<disk, dir, changes, changedDirs>>

Start ==
  /\ configStep = "start"
  /\ IF disk.explicit THEN Settle(LoadFromFile(disk.given, -1))
     ELSE configStep' = "walk" /\ UNCHANGED <<disk, dir, config, changes, changedDirs>>

(* findConfigDirectory: one directory of the walk.                         *)
Walk_PastGit ==
  /\ configStep = "walk"
  /\ LET here == disk.dirs[dir] IN
     IF here.file # NoFile \/ PackageJsonHasKey(here.package)
     THEN configStep' = "pick" /\ UNCHANGED <<disk, dir, config, changes, changedDirs>>
     ELSE IF dir = Top THEN Settle(Defaults)
     ELSE dir' = dir + 1 /\ UNCHANGED <<disk, configStep, config, changes, changedDirs>>
Walk ==
  /\ configStep = "walk"
  /\ LET here == disk.dirs[dir] IN
     IF here.file # NoFile \/ PackageJsonHasKey(here.package)
     THEN configStep' = "pick" /\ UNCHANGED <<disk, dir, config, changes, changedDirs>>
     ELSE IF here.git \/ dir = Top THEN Settle(Defaults)
     ELSE dir' = dir + 1 /\ UNCHANGED <<disk, configStep, config, changes, changedDirs>>

(* loadConfig looks again: a file is used before the key.                  *)
Pick ==
  /\ configStep = "pick"
  /\ LET here == disk.dirs[dir] IN
     Settle(IF here.file # NoFile THEN LoadFromFile(here.file, dir)
            ELSE LoadFromPackageJson(here.package, dir))

(* Somebody removes a file meanwhile, or writes a sound one.               *)
ChangeDirectory ==
  /\ changes < MaxChanges /\ configStep \in {"walk", "pick"}
  /\ \E d \in Directories, file \in {NoFile, [kind |-> "json", value |-> "good"]},
        package \in {"none", "noKey", "good"} :
       /\ disk' = [disk EXCEPT !.dirs[d].file = file, !.dirs[d].package = package]
       /\ disk' # disk
       /\ changedDirs' = changedDirs \cup {d}
  /\ changes' = changes + 1
  /\ UNCHANGED <<configStep, dir, config>>

ConfigNext == Start \/ Walk \/ Pick \/ ChangeDirectory
ConfigSpec == ConfigInit /\ [][ConfigNext]_configVars

-----------------------------------------------------------------------------
(* The directories a configuration may come from: up to the first with a   *)
(* .git, that one included.                                                *)
Reach == {d \in Directories : \A e \in 0 .. d - 1 : ~disk.dirs[e].git}
GoodModule(e) == \/ e.default = "good"
                 \/ ~IsObject(e.default) /\ e.config = "good"
                 \/ ~IsObject(e.default) /\ ~IsObject(e.config) /\ ~e.esModule /\ e.whole = "good"
IsGood(d) ==
  LET file == disk.dirs[d].file IN
  CASE file.kind = "none"   -> disk.dirs[d].package = "good"
    [] file.kind = "json"   -> file.value = "good"
    [] file.kind = "module" -> GoodModule(file.exports)
    [] OTHER -> FALSE
HasConfig(d) == disk.dirs[d].file # NoFile \/ disk.dirs[d].package \in Value

(* The nearest configuration within the repository is the one that counts: *)
(* loaded if it is good, and otherwise an error, never the defaults or one *)
(* from farther away.  Directories that change meanwhile are excepted, and *)
(* only they can end the walk with an exception.                           *)
ConfigIsNearest ==
  configStep = "done" /\ ~disk.explicit =>
    /\ config.is = "exception" => config.from \in changedDirs
    /\ changedDirs = {} =>
         LET with == {d \in Reach : HasConfig(d)} IN
         IF with = {} THEN config = Defaults
         ELSE config = IF IsGood(Min(with)) THEN Loaded(Min(with)) ELSE Failed(Min(with))
    /\ \A d \in Directories :
         /\ config.is = "config" /\ config.from = d /\ d \notin changedDirs
         => IsGood(d)
    /\ config.is = "defaults" =>
         \A d \in 0 .. dir : HasConfig(d) => d \in changedDirs
=============================================================================
