---------------------------- MODULE MCAutomation ----------------------------
(* The daemon, one command beside it, a backup and a snapshot schedule.    *)
EXTENDS Automation, TLC

CONSTANTS u1, s1, s2, b1, b2

MCKind == (s1 :> "backup") @@ (s2 :> "snapshot")
=============================================================================
