---------------------------- MODULE ProbeAnalysis ----------------------------
(***************************************************************************)
(* What `backend-doctor probe` makes of the lines the instrumented         *)
(* processes wrote (src/probe/analysis.ts), and what `scan --trace` makes  *)
(* of the result (src/runtime/merge.ts).                                   *)
(*                                                                         *)
(* The processes of a session append to one file in any interleaving; the  *)
(* analysis is a function of the lines, so that every state is one file    *)
(* and the properties compare Findings with the lines themselves.          *)
(*                                                                         *)
(* A call site with its async root, a route with its method, a model with  *)
(* its action are numbers: what matters of them is that they are equal or  *)
(* ordered.  Milliseconds and megabytes are whole numbers, and averages    *)
(* keep their numerator, so that rounding to three decimals is left out.   *)
(***************************************************************************)
EXTENDS Integers, Sequences, FiniteSets, FiniteSetsExt, SequencesExt, Functions

CONSTANTS
  Topics,        \* what a session has written before, and the lines it may write
  Pids,          \* the processes that write
  n1Threshold,   \* queries of one request that look like N+1
  CALLS_CAP, ENDPOINTS_CAP, MODELS_CAP,
  MaxLines       \* bound: lines written after those

Names == Nat   \* call sites, routes, models

(* The shapes the analysis recognises.  "other" is a record of another type *)
(* or with a field of the wrong type, "garbage" no record at all.           *)
AttachLine == [type : {"probe.attach"}, pid : Pids]
BlockLine  == [type : {"block.call"}, pid : Pids, site : Names, ms : Nat]
LagLine    == [type : {"loop.lag"}, pid : Pids, count : Nat, p99 : Nat, max : Nat,
               final : BOOLEAN]
HttpLine   == [type : {"http.request"}, pid : Pids, route : Names, status : Nat,
               ms : Nat, dbQueries : Nat]
DbLine     == [type : {"db.query"}, pid : Pids, model : Names, ms : Nat,
               attributed : BOOLEAN]
MemLine    == [type : {"mem.sample"}, pid : Pids, rss : Nat]
GcLine     == [type : {"gc.pause"}, pid : Pids, ms : Nat]
OtherLine  == [type : {"other", "garbage"}, pid : Pids]
Line == AttachLine \cup BlockLine \cup LagLine \cup HttpLine \cup DbLine \cup MemLine
          \cup GcLine \cup OtherLine

(* The lines of a kind, by their places in the file.                       *)
Of(type, lines) == {i \in DOMAIN lines : lines[i].type = type}

(* A process's histogram only grows, and its final flush is its last lag   *)
(* line (module ProbeHook).                                                *)
LagsGrow(lines) ==
  \A i, j \in Of("loop.lag", lines) :
    i < j /\ lines[i].pid = lines[j].pid =>
      ~lines[i].final /\ lines[i].count <= lines[j].count /\ lines[i].max <= lines[j].max

ASSUME AnalysisAssumption ==
  /\ \A t \in Topics : /\ DOMAIN t = {"before", "lines"}
                        /\ t.before \in Seq(Line) /\ LagsGrow(t.before)
                        /\ IsFiniteSet(t.lines) /\ t.lines \subseteq Line
  /\ n1Threshold \in Nat \ {0}
  /\ CALLS_CAP \in Nat \ {0} /\ ENDPOINTS_CAP \in Nat \ {0} /\ MODELS_CAP \in Nat \ {0}
  /\ MaxLines \in Nat

VARIABLES
  topic,   \* fixed for the session
  events   \* the lines of events.ndjson

eventsVars == <<topic, events>>

-----------------------------------------------------------------------------
(* Helpers. *)

Greatest(numbers) == Max({0} \cup numbers)
Capped(rows, cap) == SubSeq(rows, 1, Min({cap, Len(rows)}))

(* What sort makes of elements no two of which compare equal.              *)
Sorted(S, Before(_, _)) ==
  [k \in 1 .. Cardinality(S) |->
     CHOOSE x \in S : Cardinality({y \in S : Before(y, x)}) = k - 1]

(* A numeric sort is stable: of equal numbers the earlier comes first.     *)
Ascending(ms) ==
  LET order == Sorted(DOMAIN ms, LAMBDA i, j : ms[i] < ms[j] \/ (ms[i] = ms[j] /\ i < j))
  IN [k \in DOMAIN order |-> ms[order[k]]]

(* Operators with a suffix, here and below, are plausible mistakes in the  *)
(* operator they precede; PROJECT.json names the property each one breaks. *)
-----------------------------------------------------------------------------
(* buildFindings, one section after the other. *)

(* blocking: one row per site, by total time.                              *)
CallsOf(site, lines) == {i \in Of("block.call", lines) : lines[i].site = site}

CallRow(site, lines) ==
  LET calls == CallsOf(site, lines) IN
  [site |-> site, count |-> Cardinality(calls),
   totalMs |-> SumFunction([i \in calls |-> lines[i].ms]),
   maxMs |-> Greatest({lines[i].ms : i \in calls})]

compareCalls_BySite(a, b) == a.site < b.site
compareCalls(a, b) == a.totalMs > b.totalMs \/ (a.totalMs = b.totalMs /\ a.site < b.site)

AllCalls(lines) ==
  LET sites == {lines[i].site : i \in Of("block.call", lines)}
  IN Sorted({CallRow(site, lines) : site \in sites}, compareCalls)

(* loopLag: the last total of each process.                                *)
Totals_Final(lines) == {i \in Of("loop.lag", lines) : lines[i].final}
Totals(lines) ==
  {i \in Of("loop.lag", lines) :
     \A k \in Of("loop.lag", lines) : k > i => lines[k].pid # lines[i].pid}

loopLag(lines) ==
  [windows |-> Cardinality({i \in Of("loop.lag", lines) : ~lines[i].final}),
   count   |-> SumFunction([i \in Totals(lines) |-> lines[i].count]),
   p99     |-> SumFunction([i \in Totals(lines) |-> lines[i].p99 * lines[i].count]),
   maxMs   |-> Greatest({lines[i].max : i \in Totals(lines)})]

(* http: one row per endpoint, the slowest first.                          *)
Rank_Floor(n, p) == (p * n) \div 100
Rank(n, p) == (p * n + 99) \div 100
nearestRank(sorted, n, p) == sorted[Min({Max({Rank(n, p), 1}), n})]

RequestsOf(route, lines) == {i \in Of("http.request", lines) : lines[i].route = route}

(* dbMax of the group.                                                     *)
WorstRequest(requests, lines) == Greatest({lines[i].dbQueries : i \in requests})

EndpointRow(route, lines) ==
  LET requests  == RequestsOf(route, lines)
      n         == Cardinality(requests)
      durations == Ascending([i \in requests |-> lines[i].ms])
  IN [route    |-> route,
      count    |-> n,
      p50Ms    |-> nearestRank(durations, n, 50),
      p99Ms    |-> nearestRank(durations, n, 99),
      maxMs    |-> durations[n],
      statuses |-> [code \in {lines[i].status : i \in requests} |->
                      Cardinality({i \in requests : lines[i].status = code})],
      dbTotal  |-> SumFunction([i \in requests |-> lines[i].dbQueries]),
      dbMax    |-> WorstRequest(requests, lines)]

compareEndpoints(a, b) == a.p99Ms > b.p99Ms \/ (a.p99Ms = b.p99Ms /\ a.route < b.route)

AllEndpoints(lines) ==
  LET routes == {lines[i].route : i \in Of("http.request", lines)}
  IN Sorted({EndpointRow(route, lines) : route \in routes}, compareEndpoints)

PossibleN1(endpoint) == endpoint.dbMax >= n1Threshold

(* The places of the suspected rows, and those rows in their order.        *)
Suspects(rows) ==
  LET places == Sorted({i \in DOMAIN rows : PossibleN1(rows[i])}, <)
  IN [k \in DOMAIN places |-> rows[places[k]]]

(* The warnings come from the full list, whatever the cap keeps.           *)
N1Source_Shown(lines) == Capped(AllEndpoints(lines), ENDPOINTS_CAP)
N1Source(lines) == AllEndpoints(lines)
N1Warnings(lines) ==
  LET suspects == Suspects(N1Source(lines)) IN
  [i \in DOMAIN suspects |-> <<"possible-N+1", suspects[i].route, suspects[i].dbMax>>]

(* db: one row per model and action, by count.                             *)
ModelRow(model, lines) ==
  [model |-> model,
   count |-> Cardinality({i \in Of("db.query", lines) : lines[i].model = model})]

compareModels(a, b) == a.count > b.count \/ (a.count = b.count /\ a.model < b.model)

AllModels(lines) ==
  LET models == {lines[i].model : i \in Of("db.query", lines)}
  IN Sorted({ModelRow(model, lines) : model \in models}, compareModels)

Db(lines) ==
  LET queries == Of("db.query", lines) IN
  [queries |-> Cardinality(queries), totalMs |-> SumFunction([i \in queries |-> lines[i].ms]),
   unattributed |-> Cardinality({i \in queries : ~lines[i].attributed}),
   models |-> Capped(AllModels(lines), MODELS_CAP)]

Memory(lines) ==
  LET samples == Of("mem.sample", lines)
      pauses  == Of("gc.pause", lines) IN
  [samples |-> Cardinality(samples),
   peakRssMb |-> Greatest({lines[i].rss : i \in samples}),
   gcCount |-> Cardinality(pauses), gcTotalMs |-> SumFunction([i \in pauses |-> lines[i].ms]),
   gcMaxMs |-> Greatest({lines[i].ms : i \in pauses})]

AttachPids(lines) == {lines[i].pid : i \in Of("probe.attach", lines)}

Warning(condition, text) == IF condition THEN <<text>> ELSE <<>>

Warnings(lines) ==
  Warning(AttachPids(lines) = {}, <<"no-attach">>)
    \o Warning(Len(AllEndpoints(lines)) > ENDPOINTS_CAP, <<"endpoints-capped">>)
    \o N1Warnings(lines)
    \o Warning(Len(AllModels(lines)) > MODELS_CAP, <<"models-capped">>)
    \o Warning(Len(AllCalls(lines)) > CALLS_CAP, <<"calls-capped">>)

Findings(lines) ==
  [loopLag  |-> loopLag(lines),
   blocking |-> [count   |-> Cardinality(Of("block.call", lines)),
                 totalMs |-> SumFunction([i \in Of("block.call", lines) |-> lines[i].ms]),
                 calls   |-> Capped(AllCalls(lines), CALLS_CAP)],
   http     |-> [requests  |-> Cardinality(Of("http.request", lines)),
                 endpoints |-> Capped(AllEndpoints(lines), ENDPOINTS_CAP)],
   db       |-> Db(lines),
   memory   |-> Memory(lines),
   events   |-> [lines |-> Len(lines),
                 malformedLines  |-> Cardinality(Of("garbage", lines)),
                 attachProcesses |-> Cardinality(AttachPids(lines))],
   warnings |-> Warnings(lines)]

(* buildRuntimeDiagnostics: the rows that are there, in their order.       *)
RuntimeDiagnostics(findings) ==
  LET calls    == findings.blocking.calls
      suspects == Suspects(findings.http.endpoints)
  IN [i \in DOMAIN calls |-> <<"runtime-blocking-call", calls[i].site>>]
       \o [i \in DOMAIN suspects |-> <<"runtime-possible-n1", suspects[i].route>>]

-----------------------------------------------------------------------------
(* The file grows. *)

EventsInit == topic \in Topics /\ events = topic.before

AppendLine ==
  /\ Len(events) < Len(topic.before) + MaxLines
  /\ \E line \in topic.lines :
       /\ events' = Append(events, line)
       /\ LagsGrow(events')
  /\ UNCHANGED topic

EventsNext == AppendLine

EventsSpec == EventsInit /\ [][EventsNext]_eventsVars

-----------------------------------------------------------------------------
(* Properties. *)

(* p50Ms and p99Ms of every endpoint are the least recorded duration that  *)
(* at least half, respectively 99 of 100, of its requests do not exceed.   *)
(* It is about the rank, its rounding and its clamping for a few requests. *)
PercentilesAreNearestRank ==
  \A row \in ToSet(AllEndpoints(events)) :
    LET requests == RequestsOf(row.route, events)
        Within(ms) == Cardinality({i \in requests : events[i].ms <= ms})
        Least(p) == Min({ms \in {events[i].ms : i \in requests} :
                           100 * Within(ms) >= p * Cardinality(requests)})
    IN row.p50Ms = Least(50) /\ row.p99Ms = Least(99)

(* The rows that a cap drops are the lightest ones and a warning says that *)
(* rows are missing; what is shown and what is dropped adds up to the      *)
(* totals, which cover every line.  It is about the grouping, the order of *)
(* the rows and the caps.                                                  *)
CapsDropTheLightest ==
  LET findings == Findings(events)
      all      == AllCalls(events)
      calls    == findings.blocking.calls
      Shown    == {calls[i].site : i \in DOMAIN calls}
      Dropped  == {events[i].site : i \in Of("block.call", events)} \ Shown
      Time(site) == SumFunction([i \in CallsOf(site, events) |-> events[i].ms])
  IN /\ \A i \in DOMAIN calls :
          /\ calls[i].totalMs = Time(calls[i].site)
          /\ \A site \in Dropped : Time(site) <= calls[i].totalMs
     /\ (Dropped # {}) <=> Contains(findings.warnings, <<"calls-capped">>)
     /\ SumFunction([i \in DOMAIN all |-> all[i].totalMs]) = findings.blocking.totalMs

(* A request that made as many queries as the threshold has its endpoint   *)
(* in exactly one warning, also when the cap drops the endpoint's row; and *)
(* a scan with this trace reports each warned endpoint that has a row, and *)
(* nothing else.  It is about the cap, the per-request maximum and the two *)
(* places that compare it with the threshold.                              *)
NoN1IsHidden ==
  LET findings == Findings(events)
      Warned   == {i \in DOMAIN findings.warnings : findings.warnings[i][1] = "possible-N+1"}
      Guilty   == {events[i].route : i \in {j \in Of("http.request", events) :
                                              events[j].dbQueries >= n1Threshold}}
      Shown    == {row.route : row \in ToSet(findings.http.endpoints)}
  IN /\ {findings.warnings[i][2] : i \in Warned} = Guilty
     /\ Cardinality(Warned) = Cardinality(Guilty)
     /\ {d[2] : d \in {x \in ToSet(RuntimeDiagnostics(findings)) :
                         x[1] = "runtime-possible-n1"}} = Guilty \cap Shown

Swapped(i) == [events EXCEPT ![i] = events[i + 1], ![i + 1] = events[i]]

(* The lag count is the sum, over the processes, of the largest cumulative *)
(* count each reported, whether it ended with a final flush, was killed    *)
(* after its last window, or never closed a second one; and no section of  *)
(* the findings depends on how the lines of different processes were       *)
(* interleaved in the file.  It is about the one total kept per process,   *)
(* the groups, and the ties in the order of their rows.                    *)
EachProcessCountsOnce ==
  LET lags == Of("loop.lag", events)
      Counts(pid) == {events[i].count : i \in {j \in lags : events[j].pid = pid}}
  IN /\ loopLag(events).count =
          SumFunction([pid \in {events[i].pid : i \in lags} |-> Max(Counts(pid))])
     /\ \A i \in 1 .. Len(events) - 1 :
          events[i].pid # events[i + 1].pid => Findings(Swapped(i)) = Findings(events)
=============================================================================
