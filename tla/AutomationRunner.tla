-------------------------- MODULE AutomationRunner --------------------------
(***************************************************************************)
(* AutomationRunner::run (crates/desktop-api/src/semantic/runner.rs), the  *)
(* bounded loop of observe, decide, act and verify.  One step is one await *)
(* on the observer, decider, executor or verifier, which are traits: each  *)
(* may answer anything its type allows, or fail.  The user interface is    *)
(* left out: all the loop learns of it is whether two reads agree.         *)
(***************************************************************************)
EXTENDS Naturals

CONSTANTS
    HardSteps,      \* RunLimits.hard_max_steps
    MaxStalls       \* RunLimits.max_stall_count

ASSUME LimitsAssumption == HardSteps \in Nat /\ MaxStalls \in Nat

VARIABLES
    pc,             \* the call the loop makes next
    decider,        \* "normal", "jev", or enhanced mode without a provider
    steps,          \* executed_steps
    stalls,         \* stall_count
    late,           \* hard_max_elapsed_ms has passed
    status,         \* "running", the status of the outcome, or "error"
    sent,           \* history: actions whose input reached the desktop
    open            \* history: the effect of the last one has not been established

vars == <<pc, decider, steps, stalls, late, status, sent, open>>
counts == <<steps, stalls>>
history == <<sent, open>>

Bounded == INSTANCE BoundedRun WITH MaxSends <- HardSteps

Verdict == {"achieved", "progress", "no_change", "unexpected", "unknown"}
Awaits == {"observe", "decide", "recheck", "execute", "after", "reconcile"}

Init ==
    /\ pc = "top"
    /\ decider \in {"normal", "jev", "missing"}
    /\ steps = 0 /\ stalls = 0
    /\ late = FALSE
    /\ status = "running"
    /\ sent = 0 /\ open = FALSE

Goto(label) == pc' = label /\ UNCHANGED status
Ends(how) == pc' = "ended" /\ status' = how

\* Mutant: the time limit is forgotten.
OverStepsOnly == steps >= HardSteps

\* Mutant: the limit is checked for equality with the next step.
OneStepMore == steps > HardSteps \/ late

OverBudget == steps >= HardSteps \/ late

\* The head of the loop.
Top ==
    /\ pc = "top"
    /\ IF OverBudget THEN Ends("budget_exceeded") ELSE Goto("observe")
    /\ UNCHANGED <<decider, late, counts, history>>

Observe ==
    /\ pc = "observe"
    /\ Goto("decide")
    /\ UNCHANGED <<decider, late, counts, history>>

\* The candidate the decider chooses, and the policy's word on it.
Decide ==
    /\ pc = "decide" /\ decider # "missing"
    /\ \/ Ends(IF decider = "jev" THEN "needs_attention" ELSE "completed")
       \/ Ends("waiting")
       \/ Ends("failed_safely")
       \/ Goto("recheck")
    /\ UNCHANGED <<decider, late, counts, history>>

\* Another read before dispatch: if the interface has changed the loop starts over.
Recheck ==
    /\ pc = "recheck"
    /\ \E label \in {"top", "execute"} : Goto(label)
    /\ UNCHANGED <<decider, late, counts, history>>

SendsInput == sent' = sent + 1 /\ open' = TRUE

\* Mutant: a step counts when it is verified.
CountStepLate == UNCHANGED steps

CountStep == steps' = steps + 1

\* The executor sends input, or finds that there is nothing to do.
Execute ==
    /\ pc = "execute"
    /\ SendsInput \/ UNCHANGED history
    /\ Goto("after")
    /\ CountStep
    /\ UNCHANGED <<decider, stalls, late>>

\* It fails, or returns another action's receipt, and may have sent input before.
ExecuteFails ==
    /\ pc = "execute"
    /\ SendsInput \/ UNCHANGED history
    /\ Ends("error")
    /\ UNCHANGED <<decider, late, counts>>

\* Mutant: an unknown outcome counts as a stall.
JudgeLeniently(verdict) ==
    \/ /\ verdict \in {"achieved", "progress"}
       /\ stalls' = 0 /\ open' = FALSE
       /\ Goto("top")
    \/ /\ verdict \in {"no_change", "unknown"}
       /\ stalls' = stalls + 1 /\ open' = (open /\ verdict = "unknown")
       /\ IF stalls + 1 >= MaxStalls THEN Ends("needs_attention") ELSE Goto("top")
    \/ /\ verdict = "unexpected"
       /\ Ends("needs_attention")
       /\ UNCHANGED <<stalls, open>>

\* What the loop makes of a verdict.
Judge(verdict) ==
    \/ /\ verdict \in {"achieved", "progress"}
       /\ stalls' = 0 /\ open' = FALSE
       /\ Goto("top")
    \/ /\ verdict = "no_change"
       /\ stalls' = stalls + 1 /\ open' = FALSE
       /\ IF stalls + 1 >= MaxStalls THEN Ends("needs_attention") ELSE Goto("top")
    \/ /\ verdict \in {"unexpected", "unknown"}
       /\ Ends("needs_attention")
       /\ UNCHANGED <<stalls, open>>

\* Read and verify; an unknown effect is looked at a second time.
After ==
    /\ pc = "after"
    /\ \/ Goto("reconcile") /\ UNCHANGED <<stalls, open>>
       \/ \E verdict \in Verdict \ {"unknown"} : Judge(verdict)
    /\ UNCHANGED <<decider, steps, late, sent>>

Reconcile ==
    /\ pc = "reconcile"
    /\ \E verdict \in Verdict : Judge(verdict)
    /\ UNCHANGED <<decider, steps, late, sent>>

\* The observer, the candidate builder, the decider or the verifier fails, or the
\* decider names no candidate: run returns the error.
CallFails ==
    /\ pc \in Awaits \ {"execute"}
    /\ Ends("error")
    /\ UNCHANGED <<decider, late, counts, history>>

TimePasses ==
    /\ pc # "ended" /\ ~late
    /\ late' = TRUE
    /\ UNCHANGED <<pc, decider, status, counts, history>>

RunStep ==
    Top \/ Observe \/ Decide \/ Recheck \/ Execute \/ ExecuteFails \/ After \/ Reconcile \/ CallFails

Next == RunStep \/ TimePasses

Spec == Init /\ [][Next]_vars

\* Every call returns, and time passes.
FairSpec == Spec /\ WF_vars(RunStep) /\ WF_vars(TimePasses)

-----------------------------------------------------------------------------
TypeOK ==
    /\ pc \in Awaits \cup {"top", "ended"}
    /\ decider \in {"normal", "jev", "missing"}
    /\ steps \in 0 .. HardSteps /\ stalls \in Nat
    /\ late \in BOOLEAN
    /\ status \in Bounded!Status /\ (status = "running") = (pc # "ended")
    /\ sent \in Nat /\ open \in BOOLEAN

\* The loop keeps the promise of BoundedRun: at most HardSteps actions, none while
\* the effect of another is unresolved, and no unresolved effect behind a status
\* that sounds safe (runner.rs lines 399 to 408).
IsBoundedRun == Bounded!RunSpec

\* An outcome accounts for every action that reached the desktop; only an error
\* loses count (runner.rs lines 346 and 353).
OutcomeCountsSent == status # "error" => sent <= steps

\* A run ends, however often the interface changes right before dispatch.
RunEnds == <>(pc = "ended")
=============================================================================
