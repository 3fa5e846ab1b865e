------------------------- MODULE MCAutomationRunner -------------------------
(* Instances of AutomationRunner for TLC. *)
EXTENDS AutomationRunner, TLC
=============================================================================
