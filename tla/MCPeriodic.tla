------------------------------ MODULE MCPeriodic ------------------------------
(***************************************************************************)
(* The two goroutines with the intervals and timeouts that are the         *)
(* defaults, for the scanner in units of five minutes, for the monitor of  *)
(* half a minute.                                                          *)
(***************************************************************************)
EXTENDS Periodic

DefaultJobs == {[interval |-> 4, timeout |-> 4], [interval |-> 2, timeout |-> 12]}
===============================================================================
