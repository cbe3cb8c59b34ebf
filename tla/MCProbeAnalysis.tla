--------------------------- MODULE MCProbeAnalysis ---------------------------
(* Two processes; each topic fills one part of the findings.  The last one *)
(* begins with 98 requests, so that the 99th percentile of a hundred and a *)
(* few requests need not be their maximum.                                 *)
EXTENDS ProbeAnalysis

MCPids == {1, 2}

Block(pid, site, ms) == [type |-> "block.call", pid |-> pid, site |-> site, ms |-> ms]
Http(pid, route, ms, n) == [type |-> "http.request", pid |-> pid, route |-> route,
                            status |-> 200, ms |-> ms, dbQueries |-> n]
LagOf(pid, n, final) == [type |-> "loop.lag", pid |-> pid, count |-> n, p99 |-> n, max |-> n,
                       final |-> final]
Query(pid, model, known) == [type |-> "db.query", pid |-> pid, model |-> model, ms |-> 1,
                          attributed |-> known]
Attached(pid) == [type |-> "probe.attach", pid |-> pid]

Fresh == {
  {Block(1, 1, 1), Block(2, 1, 2), Block(1, 2, 2), Block(2, 2, 1), Block(1, 3, 3)},
  {Http(1, 1, 1, 0), Http(2, 1, 3, 2), Http(1, 2, 3, 0), Http(2, 2, 2, 2), Http(1, 1, 2, 0)},
  {LagOf(pid, n, final) : pid \in MCPids, n \in {1, 2}, final \in BOOLEAN},
  {Query(1, 1, TRUE), Query(2, 1, FALSE), Query(2, 2, TRUE), Attached(1), Attached(2)},
  {Attached(1), Http(2, 1, 1, 2), Block(1, 1, 1), LagOf(2, 1, FALSE),
   [type |-> "garbage", pid |-> 1], [type |-> "other", pid |-> 2],
   [type |-> "mem.sample", pid |-> 1, rss |-> 1], [type |-> "gc.pause", pid |-> 2, ms |-> 1]}}

MCTopics ==
  {[before |-> <<>>, lines |-> lines] : lines \in Fresh}
  \cup {[before |-> [i \in 1 .. 98 |-> Http(1, 1, 1, 0)],
         lines |-> {Http(1, 1, 2, 0), Http(2, 1, 3, 0)}]}
=============================================================================
