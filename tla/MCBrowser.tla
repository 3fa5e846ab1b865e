----------------------------- MODULE MCBrowser -----------------------------
(* Instances of BrowserTool for TLC. *)
EXTENDS BrowserTool, TLC

Symmetry == Permutations(Chrome) \cup Permutations(Tab)
=============================================================================
