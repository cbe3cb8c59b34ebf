---------------------------- MODULE MCConsoleView ----------------------------
(* Small instances of ConsoleView for TLC. *)
EXTENDS ConsoleView

(* No issues; one group; two groups of different sizes.                    *)
MCReports == {<<>>, <<2>>, <<3, 1>>}
=============================================================================
