-------------------------- MODULE MC_ShellSession --------------------------
(* Instantiates ShellSession for TLC.  The ping sequence is a small       *)
(* number standing for 12345; the reply loop bound of 100000 is cut to    *)
(* PingLines, enough to let it run out when stale lines are queued.       *)
EXTENDS ShellSession
=============================================================================
