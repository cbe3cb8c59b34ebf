------------------------------ MODULE TraceLoad ------------------------------
(***************************************************************************)
(* Loading a probe session for scan --trace (src/runtime/load.ts), perhaps *)
(* while the probe is still writing it (src/probe/runner.ts: session.json, *)
(* then findings.json) or somebody clears it away.                         *)
(***************************************************************************)
EXTENDS Naturals

CONSTANTS
  TraceCases \* the session directory when the load begins: a subset of TraceCase

(* A document is not there, does not parse (half written, or garbage), is  *)
(* null, has another version, lacks the cwd a session needs, or is good.   *)
Document  == {"absent", "garbage", "null", "otherVersion", "noCwd", "good"}
TraceCase == [dir : {"absent", "file", "directory"},
              session : Document, findings : Document \ {"noCwd"},
              writing : BOOLEAN] \* is a probe still writing it?

(* A probe that still writes has yet to complete its findings, the last it *)
(* writes (runner.ts:83).                                                  *)
ASSUME TraceAssumption ==
  /\ TraceCases \subseteq TraceCase
  /\ \A t \in TraceCases : t.writing => t.findings \in {"absent", "garbage"}

VARIABLES
  traceDir,  \* the session directory
  traceStep, \* the next look at it
  trace,     \* "pending", "ok", "error" or "exception"
  cleared    \* was the directory removed meanwhile?

traceVars == <<traceDir, traceStep, trace, cleared>>

TraceInit ==
  /\ traceDir \in TraceCases /\ traceStep = "exists" /\ trace = "pending" /\ cleared = FALSE

Look(next) == traceStep' = next /\ UNCHANGED <<traceDir, trace, cleared>>
Answer(outcome) == trace' = outcome /\ traceStep' = "done" /\ UNCHANGED <<traceDir, cleared>>

DirExists ==
  /\ traceStep = "exists"
  /\ IF traceDir.dir = "absent" THEN Answer("error") ELSE Look("isDirectory")

(* statSync of a directory that has just gone throws.                      *)
IsDirectory ==
  /\ traceStep = "isDirectory"
  /\ CASE traceDir.dir = "absent" -> Answer("exception")
       [] traceDir.dir = "file"   -> Answer("error")
       [] OTHER -> Look("findings?")

There(document) == traceDir.dir = "directory" /\ document # "absent"

HasFindings ==
  /\ traceStep = "findings?"
  /\ IF There(traceDir.findings) THEN Look("session?") ELSE Answer("error")

HasSession ==
  /\ traceStep = "session?"
  /\ IF There(traceDir.session) THEN Look("findings") ELSE Answer("error")

(* null parses, and has no traceSchemaVersion to read.                     *)
ReadDocument(document, next) ==
  CASE ~There(document) \/ document = "garbage" -> Answer("error")
    [] There(document) /\ document = "null" -> Answer("exception")
    [] There(document) /\ document = "otherVersion" -> Answer("error")
    [] OTHER -> next

ReadFindings == traceStep = "findings" /\ ReadDocument(traceDir.findings, Look("session"))

(* A session without a cwd cannot place the blocking calls.                *)
ReadSession ==
  /\ traceStep = "session"
  /\ ReadDocument(traceDir.session,
                  Answer(IF traceDir.session = "noCwd" THEN "error" ELSE "ok"))

(* The probe writes on: each file is there before its text is complete.    *)
WriteOn ==
  /\ traceDir.writing /\ traceDir.dir = "directory" /\ trace = "pending"
  /\ LET s == traceDir.session
         f == traceDir.findings
     IN traceDir' = CASE s = "absent"  -> [traceDir EXCEPT !.session = "garbage"]
                      [] s = "garbage" -> [traceDir EXCEPT !.session = "good"]
                      [] s \notin {"absent", "garbage"} /\ f = "absent" ->
                           [traceDir EXCEPT !.findings = "garbage"]
                      [] OTHER -> [traceDir EXCEPT !.findings = "good", !.writing = FALSE]
  /\ UNCHANGED <<traceStep, trace, cleared>>

ClearAway ==
  /\ traceDir.dir = "directory" /\ trace = "pending"
  /\ traceDir' = [traceDir EXCEPT !.dir = "absent", !.writing = FALSE]
  /\ cleared' = TRUE
  /\ UNCHANGED <<traceStep, trace>>

TraceNext == \/ DirExists \/ IsDirectory \/ HasFindings \/ HasSession
             \/ ReadFindings \/ ReadSession \/ WriteOn \/ ClearAway
TraceSpec == TraceInit /\ [][TraceNext]_traceVars

-----------------------------------------------------------------------------
(* A trace that is merged is a whole one: the probe has finished both of   *)
(* its files, and they are of a version and shape the merge understands    *)
(* (spec 021 AC-2).  An exception is owed to null or to a removal.         *)
TraceIsWhole ==
  /\ trace = "ok" => traceDir.findings = "good" /\ traceDir.session = "good" /\ ~traceDir.writing
  /\ trace = "exception" =>
       cleared \/ "null" \in {traceDir.findings, traceDir.session}
=============================================================================
