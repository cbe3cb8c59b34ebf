---------------------------- MODULE MCScanCommand ----------------------------
(* Every command line, and for the runs about the console the ones that    *)
(* open it.                                                                *)
EXTENDS ScanCommand

MCRequests == Request
=============================================================================
