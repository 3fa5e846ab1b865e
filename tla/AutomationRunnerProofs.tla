----------------------- MODULE AutomationRunnerProofs -----------------------
(* Theorems about AutomationRunner, for all limits. *)
EXTENDS AutomationRunner, TLAPS

USE LimitsAssumption DEF LimitsAssumption

\* The labels at which the loop has passed the check of its limits.
InBudget == {"observe", "decide", "recheck", "execute"}

\* Why the promise is kept: between the check and the dispatch there is room for
\* one more step, and nothing is unresolved.
RunInv ==
    /\ TypeOK
    /\ OutcomeCountsSent
    /\ pc \in InBudget => steps < HardSteps
    /\ pc \in InBudget \cup {"top"} => ~open

\* A verdict only moves the loop to its head, or stops it.
LEMMA JudgeFact ==
    ASSUME TypeOK, pc \in {"after", "reconcile"}, NEW verdict \in Verdict, Judge(verdict)
    PROVE  /\ stalls' \in Nat /\ open' \in BOOLEAN
           /\ \/ pc' = "top" /\ status' = status /\ ~open'
              \/ pc' = "ended" /\ status' = "needs_attention" /\ (open' => open)
<1>1. stalls' \in Nat
  BY DEF Judge, TypeOK
<1>2. /\ open' \in BOOLEAN
      /\ \/ pc' = "top" /\ status' = status /\ ~open'
         \/ pc' = "ended" /\ status' = "needs_attention" /\ (open' => open)
  <2>1. CASE Goto("top") /\ open' = FALSE
    BY <2>1 DEF Goto
  <2>2. CASE Ends("needs_attention") /\ open' = FALSE
    BY <2>2 DEF Ends
  <2>3. CASE Ends("needs_attention") /\ open' = open
    BY <2>3 DEF Ends, TypeOK
  <2>. QED
    BY <2>1, <2>2, <2>3 DEF Judge
<1>. QED
  BY <1>1, <1>2

\* Every step of the loop keeps the invariant.
LEMMA InvStep == ASSUME RunInv, [Next]_vars PROVE RunInv'
<1>. USE DEF RunInv, OutcomeCountsSent, InBudget, counts, history
<1>a. /\ "error" \in Bounded!Status /\ "needs_attention" \in Bounded!Status
      /\ {"completed", "waiting", "failed_safely", "budget_exceeded"} \subseteq Bounded!Status
  BY DEF Bounded!Status, Bounded!Alarming
<1>1. CASE Top
  BY <1>1, <1>a DEF Top, OverBudget, TypeOK, Goto, Ends, Awaits
<1>2. CASE Observe
  BY <1>2 DEF Observe, TypeOK, Goto, Awaits
<1>3. CASE Decide
  BY <1>3, <1>a DEF Decide, TypeOK, Goto, Ends, Awaits
<1>4. CASE Recheck
  BY <1>4 DEF Recheck, TypeOK, Goto, Awaits
<1>b. ASSUME SendsInput \/ UNCHANGED history
      PROVE  sent' \in {sent, sent + 1} /\ open' \in BOOLEAN
  BY <1>b DEF SendsInput, TypeOK
<1>5. CASE Execute
  BY <1>5, <1>b DEF Execute, CountStep, TypeOK, Goto, Awaits
<1>6. CASE ExecuteFails
  BY <1>6, <1>a, <1>b DEF ExecuteFails, TypeOK, Ends, Awaits
<1>7. ASSUME pc \in {"after", "reconcile"}, NEW verdict \in Verdict, Judge(verdict),
             UNCHANGED <<decider, steps, late, sent>>
      PROVE  RunInv'
  BY <1>7, <1>a, JudgeFact DEF TypeOK, Awaits
<1>8. CASE After
  <2>1. CASE Goto("reconcile") /\ UNCHANGED <<stalls, open>>
    BY <1>8, <2>1 DEF After, TypeOK, Goto, Awaits
  <2>2. CASE \E verdict \in Verdict \ {"unknown"} : Judge(verdict)
    BY <1>7, <1>8, <2>2 DEF After
  <2>. QED
    BY <1>8, <2>1, <2>2 DEF After
<1>9. CASE Reconcile
  BY <1>7, <1>9 DEF Reconcile
<1>10. CASE CallFails
  BY <1>10, <1>a DEF CallFails, TypeOK, Ends, Awaits
<1>11. CASE TimePasses
  BY <1>11 DEF TimePasses, TypeOK
<1>12. CASE UNCHANGED vars
  BY <1>12 DEF vars, TypeOK
<1>. QED
  BY <1>1, <1>2, <1>3, <1>4, <1>5, <1>6, <1>8, <1>9, <1>10, <1>11, <1>12 DEF Next, RunStep

LEMMA InvInit == Init => RunInv
<1>. SUFFICES ASSUME Init PROVE RunInv
  OBVIOUS
<1>1. TypeOK
  <2>1. open \in BOOLEAN /\ late \in BOOLEAN
    BY DEF Init
  <2>2. (status = "running") = (pc # "ended")
    BY DEF Init
  <2>. QED
    BY <2>1, <2>2 DEF Init, TypeOK, Bounded!Status
<1>2. OutcomeCountsSent
  BY DEF Init, OutcomeCountsSent
<1>3. ~open /\ pc = "top"
  BY DEF Init
<1>. QED
  BY <1>1, <1>2, <1>3 DEF RunInv, InBudget

LEMMA Invariance == Spec => []RunInv
BY InvInit, InvStep, PTL DEF Spec

\* The variables of the runner keep their types (runner.rs lines 167 to 411).
THEOREM TypeCorrect == Spec => []TypeOK
BY Invariance, PTL DEF RunInv

\* An outcome accounts for every action that reached the desktop (runner.rs lines
\* 346 and 353).
THEOREM Accounting == Spec => []OutcomeCountsSent
BY Invariance, PTL DEF RunInv

\* Every step of the loop is a step of BoundedRun, or invisible there.
LEMMA StepRefines == ASSUME RunInv, [Next]_vars PROVE [Bounded!RunNext]_(Bounded!runVars)
<1>. USE DEF Bounded!RunNext, Bounded!runVars, RunInv, counts, history
<1>a. UNCHANGED <<status, history>> => UNCHANGED Bounded!runVars
  OBVIOUS
<1>b. ASSUME NEW how \in Bounded!Status \ {"running"}, Ends(how), pc # "ended",
             open => how \in Bounded!Alarming, UNCHANGED history
      PROVE  Bounded!Stop
  BY <1>b DEF Ends, Bounded!Stop, TypeOK
<1>c. /\ {"error", "needs_attention"} \subseteq Bounded!Status \cap Bounded!Alarming
      /\ {"completed", "waiting", "failed_safely", "budget_exceeded"} \subseteq Bounded!Status
  BY DEF Bounded!Status, Bounded!Alarming
<1>1. CASE Top
  BY <1>1, <1>a, <1>b, <1>c DEF Top, Goto, InBudget
<1>2. CASE Observe
  BY <1>2 DEF Observe, Goto
<1>3. CASE Decide
  BY <1>3, <1>a, <1>b, <1>c DEF Decide, Goto, InBudget
<1>4. CASE Recheck
  BY <1>4 DEF Recheck, Goto
<1>5. ASSUME pc = "execute", SendsInput, status' \in {status, "error"}
      PROVE  Bounded!Send
  BY <1>5 DEF SendsInput, Bounded!Send, TypeOK, OutcomeCountsSent, InBudget
<1>6. CASE Execute
  BY <1>5, <1>6, <1>a DEF Execute, Goto
<1>7. CASE ExecuteFails
  <2>1. CASE SendsInput
    BY <1>5, <1>7, <2>1 DEF ExecuteFails, Ends
  <2>2. CASE UNCHANGED history
    BY <1>7, <2>2, <1>b, <1>c DEF ExecuteFails
  <2>. QED
    BY <1>7, <2>1, <2>2 DEF ExecuteFails
<1>8. ASSUME pc \in {"after", "reconcile"}, NEW verdict \in Verdict, Judge(verdict),
             UNCHANGED <<decider, steps, late, sent>>
      PROVE  Bounded!Resolve \/ Bounded!Stop
  <2>1. status = "running"
    BY <1>8 DEF TypeOK
  <2>2. CASE ~open'
    BY <1>8, <2>1, <2>2, JudgeFact DEF Bounded!Resolve
  <2>3. CASE open'
    BY <1>8, <1>c, <2>1, <2>3, JudgeFact DEF Bounded!Stop
  <2>. QED
    BY <2>2, <2>3
<1>9. CASE After
  <2>1. CASE Goto("reconcile") /\ UNCHANGED <<stalls, open>>
    BY <1>9, <2>1 DEF After, Goto
  <2>2. CASE \E verdict \in Verdict \ {"unknown"} : Judge(verdict)
    BY <1>8, <1>9, <2>2 DEF After
  <2>. QED
    BY <1>9, <2>1, <2>2 DEF After
<1>10. CASE Reconcile
  BY <1>8, <1>10 DEF Reconcile
<1>11. CASE CallFails
  BY <1>11, <1>b, <1>c DEF CallFails, Awaits
<1>12. CASE TimePasses
  BY <1>12 DEF TimePasses
<1>13. CASE UNCHANGED vars
  BY <1>13 DEF vars
<1>. QED
  BY <1>1, <1>2, <1>3, <1>4, <1>6, <1>7, <1>9, <1>10, <1>11, <1>12, <1>13 DEF Next, RunStep

LEMMA InitRefines == Init => Bounded!RunInit
BY DEF Init, Bounded!RunInit

\* For all limits the loop implements BoundedRun: at most HardSteps actions reach
\* the desktop, none while another is unresolved, and no unresolved one is hidden
\* behind a harmless status (runner.rs lines 178 to 185 and 386 to 409).
THEOREM Implementation == Spec => IsBoundedRun
<1>. USE DEF IsBoundedRun
<1>. QED
  BY InitRefines, Invariance, StepRefines, PTL DEF Spec, Bounded!RunSpec
=============================================================================
