---------------------------- MODULE MCConsoleCopy ----------------------------
(* A report with one group on a platform with two tools.                   *)
EXTENDS ConsoleCopy

MCReports == {<<1>>}
=============================================================================
