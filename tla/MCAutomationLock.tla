-------------------------- MODULE MCAutomationLock --------------------------
(* Instances of AutomationLock for TLC. *)
EXTENDS AutomationLock, TLC

\* Sound for safety: processes differ in nothing but their name.
Symmetry == Permutations(Proc)
=============================================================================
