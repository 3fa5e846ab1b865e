----------------------------- MODULE BoundedRun -----------------------------
(***************************************************************************)
(* What an automation run promises whoever started it: it sends native     *)
(* input at most MaxSends times, never while the effect of the input sent  *)
(* before is unresolved, and when it stops with an unresolved effect it    *)
(* says so.                                                                *)
(***************************************************************************)
EXTENDS Naturals

CONSTANT MaxSends

VARIABLES
    sent,           \* actions whose input reached the desktop
    open,           \* the effect of the last one is not known
    status          \* "running", or how the run stopped

runVars == <<sent, open, status>>

Alarming == {"error", "needs_attention"}
Status == Alarming \cup {"running", "completed", "waiting", "failed_safely", "budget_exceeded"}

RunInit == sent = 0 /\ open = FALSE /\ status = "running"

\* The executor sends input; if it then fails, the run stops there.
Send ==
    /\ status = "running" /\ ~open /\ sent < MaxSends
    /\ sent' = sent + 1 /\ open' = TRUE
    /\ status' \in {"running", "error"}

\* The effect, or that there was none, has been established.
Resolve ==
    /\ status = "running" /\ open' = FALSE
    /\ status' \in {"running", "needs_attention"}
    /\ UNCHANGED sent

Stop ==
    /\ status = "running" /\ status' \in Status \ {"running"}
    /\ open => status' \in Alarming
    /\ UNCHANGED <<sent, open>>

RunNext == Send \/ Resolve \/ Stop

RunSpec == RunInit /\ [][RunNext]_runVars
=============================================================================
