----------------------------- MODULE ScanInputs ------------------------------
(***************************************************************************)
(* What scanCommand (src/cli/commands/scan.ts) does before it scans: the   *)
(* configuration, then the scope, then the trace, each as its module says; *)
(* the first that fails ends the command. The checks of the options, a dump*)
(* of the configuration and whether the target exists are ScanCommand's.   *)
(***************************************************************************)
EXTENDS ConfigLoad, ScopeResolve, TraceLoad

CONSTANTS Requests \* which inputs are asked for, and on what disk

Request == [config : ConfigCases, scoped : BOOLEAN, scope : ScopeCases,
            traced : BOOLEAN, trace : TraceCases]

ASSUME InputsAssumption == Requests \subseteq Request

NoExit == 9

VARIABLES
  asked, \* [scoped, traced]: is --scope changed or lines, is --trace given?
  place, \* "config", "scope", "trace", "scan" or "ended"
  exit

inputVars == <<asked, place, exit, configVars, scopeVars, traceVars>>

Init ==
  /\ \E r \in Requests :
       /\ asked = [scoped |-> r.scoped, traced |-> r.traced]
       /\ disk = r.config /\ case = r.scope /\ traceDir = r.trace
  /\ ConfigInit /\ ScopeInit /\ TraceInit
  /\ place = "config" /\ exit = NoExit

GoOn(next) == place' = next /\ UNCHANGED <<asked, exit, configVars, scopeVars, traceVars>>
End(code)  == place' = "ended" /\ exit' = code
              /\ UNCHANGED <<asked, configVars, scopeVars, traceVars>>

ConfigSteps ==
  /\ place = "config" /\ ConfigNext /\ UNCHANGED <<asked, place, exit, scopeVars, traceVars>>

(* The target goes away between existsSync and statSync (scan.ts:68).      *)
StartDirThrows ==
  /\ place = "config" /\ configStep = "start" /\ TakeAway
  /\ place' = "ended" /\ exit' = 1
  /\ UNCHANGED <<asked, configVars, traceVars>>

(* A ConfigError is answered 2; anything else leaves the process with 1.   *)
ConfigEnds ==
  /\ place = "config" /\ configStep = "done"
  /\ CASE config.is = "ConfigError" -> End(2)
       [] config.is = "exception"   -> End(1)
       [] OTHER -> GoOn("scope")

ScopeSteps ==
  /\ place = "scope" /\ asked.scoped /\ ScopeNext
  /\ UNCHANGED <<asked, place, exit, configVars, traceVars>>

ScopeOver == asked.scoped => gitStep \in {"done", "thrown"}
ScopeEnds_Anyway ==
  place = "scope" /\ ScopeOver /\ GoOn("trace")
ScopeEnds ==
  /\ place = "scope" /\ ScopeOver
  /\ CASE asked.scoped /\ gitStep = "thrown" -> End(1)
       [] asked.scoped /\ gitStep = "done" /\ ~scope.ok -> End(2)
       [] OTHER -> GoOn("trace")

TraceSteps ==
  /\ place = "trace" /\ asked.traced /\ TraceNext
  /\ UNCHANGED <<asked, place, exit, configVars, scopeVars>>

TraceEnds ==
  /\ place = "trace" /\ (asked.traced => traceStep = "done")
  /\ CASE asked.traced /\ trace = "error"     -> End(2)
       [] asked.traced /\ trace = "exception" -> End(1)
       [] OTHER -> GoOn("scan")

Next == \/ ConfigSteps \/ StartDirThrows \/ ConfigEnds \/ ScopeSteps \/ ScopeEnds
        \/ TraceSteps \/ TraceEnds

Spec == Init /\ [][Next]_inputVars

-----------------------------------------------------------------------------
(* The scan starts only with everything it was asked to use; what fails is *)
(* answered 2, and only what goes away under the command (a configuration, *)
(* the target or its work tree, the trace), or a trace of JSON null, ends  *)
(* it with an exception instead (specs 002, 015 AC-7 and 021 AC-2).  That  *)
(* git has failed the scan learns except as OnlyRevParseFailsUnseen says.  *)
BadInputsAreAnswered ==
  /\ place = "scan" =>
       /\ config.is \in {"config", "defaults"}
       /\ asked.scoped => OnlyRevParseFailsUnseen /\ scope.ok
       /\ asked.traced => TraceIsWhole /\ trace = "ok"
  /\ exit = 1 => \/ config.is = "exception" /\ config.from \in changedDirs
                 \/ gone # "nothing" /\ configStep = "start"
                 \/ gone # "nothing" /\ asked.scoped /\ gitStep = "thrown"
                 \/ trace = "exception" /\ TraceIsWhole
=============================================================================
