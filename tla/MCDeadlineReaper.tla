--------------------------- MODULE MCDeadlineReaper ---------------------------
(* A small instance of DeadlineReaper.                                     *)
EXTENDS DeadlineReaper

CONSTANTS t1, t2, r1, r2
=============================================================================
