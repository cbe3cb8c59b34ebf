--------------------------- MODULE MCScanPipeline ---------------------------
(* Three files a, b and c, and the projects made of them that matter.      *)
EXTENDS ScanPipeline, TLC

CONSTANTS a, b, c

NoRules      == [r \in Rules |-> Unset]
NoCategories == [k \in {Category[r] : r \in Rules} |-> Unset]

(* A sound project: a is its main file and imports b, which imports c.     *)
Plain == [
  imports |-> (a :> {b} @@ b :> {c} @@ c :> {}),
  ignored |-> {}, broken |-> {}, opaque |-> {}, tsconfig |-> TRUE,
  package |-> "ok", main |-> {a}, conventional |-> {}, nest |-> TRUE,
  extracts |-> TRUE, bootstrap |-> {a}, pipe |-> {b},
  evals |-> (a :> {1} @@ b :> {1, 2} @@ c :> {2}),
  loops |-> {b, c}, crashes |-> {}, blocked |-> {c},
  rules |-> NoRules, categories |-> NoCategories, off |-> {},
  mode |-> "full", files |-> {}, hunks |-> <<>>]

(* Import graphs with anything missing: what unused-file may conclude.     *)
Graphs ==
  {[Plain EXCEPT !.imports = (a :> ia @@ b :> ib @@ c :> ic), !.ignored = ign,
                 !.broken = brk, !.opaque = opq, !.tsconfig = ts,
                 !.package = IF m = {} THEN "absent" ELSE "ok",
                 !.main = m, !.conventional = conv] :
     ia \in SUBSET {b, c}, ib \in {{}, {c}}, ic \in {{}, {b}},
     ign \in {{}, {c}}, brk \in {{}, {b}, {c}}, opq \in {{}, {a}, {b}},
     ts \in BOOLEAN, m \in {{}, {a}}, conv \in {{}, {b}}}

(* Scopes, failures, configurations and crashes.                           *)
Scopes ==
  {[mode |-> "full", files |-> {}, hunks |-> <<>>],
   [mode |-> "files", files |-> {b}, hunks |-> <<>>],
   [mode |-> "changed", files |-> {a, c}, hunks |-> <<>>],
   [mode |-> "lines", files |-> {a, b}, hunks |-> (a :> {2} @@ b :> {1})],
   [mode |-> "lines", files |-> {a, b}, hunks |-> (a :> {})]}

Configs ==
  {[NoRules EXCEPT ![NoEval] = x, ![Cycle] = y] :
     x \in {Unset, "off", "warn", "error"}, y \in {Unset, "error"}}

Scans ==
  {[Plain EXCEPT !.mode = s.mode, !.files = s.files, !.hunks = s.hunks,
                 !.ignored = ign, !.broken = brk, !.pipe = pipe,
                 !.nest = nest, !.extracts = ext, !.crashes = crash,
                 !.rules = rules, !.categories = [NoCategories EXCEPT !["Security"] = sec]] :
     s \in Scopes, ign \in {{}, {c}}, brk \in {{}, {b}}, pipe \in {{}, {b}},
     nest \in BOOLEAN, ext \in BOOLEAN,
     crash \in {{}, {<<NoEval, a>>}, {<<NoPipe, a>>, <<Cycle, Root>>}, {<<Unused, Root>>}},
     rules \in Configs, sec \in {Unset, "error"}}

MCWorlds == Graphs \cup Scans \cup {[Plain EXCEPT !.off = {NoEval, Cycle}]}

ASSUME EntriesKnown
=============================================================================
