----------------------------- MODULE MCProbeHook -----------------------------
(* A process with two requests and two queries, each fault at its points.  *)
EXTENDS ProbeHook, TLC
CONSTANTS r1, r2, q1, q2
MCRequests == {r1, r2}
MCQueries  == {q1, q2}
MCSymmetry == Permutations(MCRequests) \cup Permutations(MCQueries)
=============================================================================
