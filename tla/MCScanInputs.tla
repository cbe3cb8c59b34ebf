---------------------------- MODULE MCScanInputs -----------------------------
(* Two files, the name of the first a pattern that matches the second; two *)
(* directories; and every kind of trace.  Each request is difficult in one *)
(* of its inputs.                                                          *)
EXTENDS ScanInputs, TLC

CONSTANTS f1, f2

MCFiles    == {f1, f2}
MCAdmitted == {f1, f2}
MCMatches  == [f \in MCFiles |-> IF f = f1 THEN {f1, f2} ELSE {f2}]

Clean    == [exists |-> TRUE, indexed |-> TRUE, ignored |-> FALSE, differs |-> FALSE, lines |-> {}]
FileStates ==
  {Clean,
   [Clean EXCEPT !.differs = TRUE, !.lines = {1}],
   [Clean EXCEPT !.differs = TRUE],                  \* lines were only deleted
   [Clean EXCEPT !.indexed = FALSE, !.lines = {1, 2}, !.differs = TRUE],
   [Clean EXCEPT !.indexed = FALSE, !.ignored = TRUE],
   [Clean EXCEPT !.exists = FALSE, !.differs = TRUE]}

Sound == [mode |-> "lines", git |-> TRUE, repository |-> TRUE, head |-> TRUE,
          base |-> "ref", related |-> TRUE, tree |-> [f \in MCFiles |-> Clean]]
MCScopeCases ==
  {[Sound EXCEPT !.tree = t, !.mode = m, !.head = h, !.base = b] :
     t \in [MCFiles -> FileStates], m \in {"changed", "lines"}, h \in BOOLEAN,
     b \in {"HEAD", "ref"}}
  \cup {[Sound EXCEPT !.git = FALSE], [Sound EXCEPT !.repository = FALSE],
        [Sound EXCEPT !.base = "unknown"], [Sound EXCEPT !.related = FALSE]}

Good(e) == [kind |-> "module", exports |-> e]
Modules == {Good([default |-> d, config |-> c, whole |-> "good", esModule |-> m]) :
              d \in {"absent", "notObject", "good"}, c \in {"absent", "badField"}, m \in BOOLEAN}
Jsons   == {[kind |-> "json", value |-> v] : v \in {"good", "badField"}}
Dirs    == {[file |-> f, package |-> p, git |-> g] :
              f \in {NoFile, Broken} \cup Jsons
                    \cup {Good([default |-> "good", config |-> "badField", whole |-> "good",
                                esModule |-> TRUE])},
              p \in {"none", "broken", "noKey", "badField", "good"}, g \in BOOLEAN}
Empty   == [file |-> NoFile, package |-> "none", git |-> FALSE]
MCConfigCases ==
  {[dirs |-> (0 :> d @@ 1 :> e), explicit |-> FALSE, given |-> NoFile] : d \in Dirs, e \in Dirs}
  \cup {[dirs |-> [d \in 0 .. 1 |-> Empty], explicit |-> TRUE, given |-> f] :
          f \in Modules \cup Jsons \cup {NoFile, Broken}}

NoTrace == [dir |-> "absent", session |-> "absent", findings |-> "absent", writing |-> FALSE]
Running == [NoTrace EXCEPT !.dir = "directory", !.writing = TRUE]
MCTraceCases ==
  {NoTrace, Running, [NoTrace EXCEPT !.dir = "file"], [Running EXCEPT !.session = "good"]}
  \cup {[NoTrace EXCEPT !.dir = "directory", !.session = s, !.findings = f] :
          s \in {"absent", "garbage", "null", "otherVersion", "noCwd", "good"},
          f \in {"absent", "garbage", "null", "otherVersion", "good"}}

Plain == [dirs |-> [d \in 0 .. 1 |-> Empty], explicit |-> TRUE,
          given |-> [kind |-> "json", value |-> "good"]]
Easy  == [config |-> Plain, scoped |-> FALSE, scope |-> Sound, traced |-> FALSE, trace |-> NoTrace]
MCRequests ==
  {[Easy EXCEPT !.config = c] : c \in MCConfigCases}
  \cup {[Easy EXCEPT !.scoped = TRUE, !.scope = s] : s \in MCScopeCases}
  \cup {[Easy EXCEPT !.traced = TRUE, !.trace = t] : t \in MCTraceCases}
=============================================================================
