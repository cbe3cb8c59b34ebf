--------------------------- MODULE MCProbeSession ---------------------------
(* Small instances of ProbeSession for TLC.                                *)
EXTENDS ProbeSession

CONSTANTS c, d

MCDescendants == {d}
MCAppCodes    == {0, 3}

(* One tick of grace; the last escalation step of both durations fits.     *)
MCDurations   == {0, 1}

(* Faults the code answers as documented.                                  *)
MCHandledFaults == {"spawn error", "findings.json", "append"}
=============================================================================
