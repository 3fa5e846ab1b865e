---------------------------- MODULE DesktopVerify ----------------------------
(***************************************************************************)
(* desktop_verify_state: verify_expected_state (crates/nuphus-mcp/src/     *)
(* tools/semantic.rs) samples the desktop, read-only, until its condition  *)
(* has held in enough samples running or its deadline has passed.  A       *)
(* sample finds the window (verification_scope, targets.rs), then observes *)
(* it, and then judges (DesktopExpectation::evaluate, verification.rs).    *)
(*                                                                         *)
(* The windows are those of the expected application.  A control is what   *)
(* fits the locator's control part in a window: "match" and "mismatch" say *)
(* whether it has the expected state, "unread" that it does not tell it.   *)
(***************************************************************************)
EXTENDS Naturals, FiniteSets

CONSTANTS
    Pane,           \* windows of the application
    Origin,         \* the window whose id the saved locator holds
    NoPane,
    MaxSamples,     \* stable_samples is 1 .. MaxSamples (5 in the code)
    MaxChanges      \* bound: changes of the desktop and readings that fail

ASSUME PaneAssumption == Origin \in Pane /\ NoPane \notin Pane
ASSUME SamplesAssumption == MaxSamples \in Nat \ {0}

VARIABLES
    panes,          \* of each window: its controls, or Gone
    titled,         \* the windows that bear the saved title
    bearers,        \* the windows that bear the saved id: a live id one at most, a stable
                    \* id all windows of a class (windows_uia.rs) or all twins (native.rs)
    expected,       \* [condition, byId, byTitle, samples], or NoPane between calls
    place,          \* "idle", "resolve", "read"
    scope,          \* the window to be observed
    stable,         \* stable samples running
    late,           \* the deadline has passed
    status,         \* answered
    trueFor,           \* history: samples running in which the condition was true, or
                    \* as many as asked for
    failed,         \* history: the condition was false in the latest sample
    missed,         \* history: a window was missing from an enumeration of the call
    changes

verifyVars == <<panes, titled, bearers, expected, place, scope, stable, late, status,
                trueFor, failed, missed, changes>>
worldVars == <<panes, titled, bearers>>

Conditions == {"exists", "absent", "window_exists", "window_absent", "state"}
Controls == {{}, {"match"}, {"mismatch"}, {"unread"}, {"match", "mismatch"}}
Gone == {"gone"}
There == {w \in Pane : panes[w] # Gone}

Change == changes < MaxChanges /\ changes' = changes + 1
NoChange == UNCHANGED changes

-----------------------------------------------------------------------------
(* What is true of the desktop. *)

\* The windows the locator means: those of its id, else of its title, else all of
\* the application.  Of these the one that is observed, if one is.
Meant(e) == There \cap (IF e.byId THEN bearers ELSE IF e.byTitle THEN titled ELSE Pane)
                  \cap (IF place = "read" THEN {scope} ELSE Pane)

True(e) ==
    CASE e.condition = "window_exists" -> Meant(e) # {}
      [] e.condition = "window_absent" -> Meant(e) = {}
      [] e.condition = "exists" -> \E w \in Meant(e) : panes[w] # {}
      [] e.condition = "absent" -> \E w \in Meant(e) : panes[w] = {}
      [] e.condition = "state" -> \E w \in Meant(e) : "match" \in panes[w]

\* Of two controls that fit, a tree that is cut off may show the one.
False(e) ==
    IF e.condition = "state" THEN \A w \in Meant(e) : panes[w] = {} \/ "mismatch" \in panes[w]
    ELSE ~True(e)

-----------------------------------------------------------------------------
(* One sample. *)

\* verification_scope looks at titles, unless there is none to look for, or one
\* window only and its id can be checked.
Resolved(e, ws) ==
    IF e.byTitle /\ ~(e.byId /\ Cardinality(ws) = 1) THEN ws \cap titled ELSE ws

\* Among the windows that answered: a title that fits none says nothing of a
\* window with an id.
Resolve(e, ws) ==
    CASE ws = {} \/ (Resolved(e, ws) = {} /\ ~e.byId) -> "missing"
      [] ws # {} /\ Cardinality(Resolved(e, ws)) = 1 -> "found"
      [] OTHER -> "unknown"

\* Mutant: a control that is not in a partial tree counts as absent.
EvaluatePartial(e, found, truncated) ==
    CASE e.condition = "window_exists" -> "satisfied"
      [] e.condition = "window_absent" -> "unknown"
      [] e.condition \notin {"window_exists", "window_absent"} /\ found = {} ->
            IF e.condition = "absent" THEN "satisfied" ELSE "unsatisfied"
      [] e.condition = "exists" /\ Cardinality(found) = 1 -> "satisfied"
      [] e.condition = "absent" /\ Cardinality(found) = 1 -> "unsatisfied"
      [] e.condition = "state" /\ found = {"match"} -> "satisfied"
      [] e.condition = "state" /\ found = {"mismatch"} -> "unsatisfied"
      [] OTHER -> "unknown"

\* evaluate
Evaluate(e, found, truncated) ==
    CASE e.condition = "window_exists" -> "satisfied"
      [] e.condition = "window_absent" -> "unknown"
      [] e.condition \notin {"window_exists", "window_absent"} /\ found = {} ->
            IF truncated THEN "unknown"
            ELSE IF e.condition = "absent" THEN "satisfied" ELSE "unsatisfied"
      [] e.condition = "exists" /\ Cardinality(found) = 1 -> "satisfied"
      [] e.condition = "absent" /\ Cardinality(found) = 1 -> "unsatisfied"
      [] e.condition = "state" /\ found = {"match"} -> "satisfied"
      [] e.condition = "state" /\ found = {"mismatch"} -> "unsatisfied"
      [] OTHER -> "unknown"

\* Mutant: the window that was observed is not looked at.
AnyWindow(e, w) == TRUE

\* matches_window, of the window that was observed: an equal id, else an equal title
\* if one is asked for.
IsMeant(e, w) == IF e.byId THEN w \in bearers ELSE e.byTitle => w \in titled

Count(s) == IF s = "satisfied" THEN stable + 1 ELSE 0

\* Mutant: the deadline is not looked at.
NeverUp == FALSE

TimeIsUp == late

\* The sample's status is s: enough of them, out of time, or the next one.
Sampled(s) ==
    /\ stable' = Count(s)
    /\ trueFor' = IF ~True(expected) THEN 0
               ELSE IF trueFor = expected.samples THEN trueFor ELSE trueFor + 1
    /\ failed' = False(expected)
    /\ scope' = NoPane
    /\ IF Count(s) >= expected.samples \/ TimeIsUp
       THEN /\ place' = "idle" /\ expected' = NoPane
            /\ status' = IF Count(s) >= expected.samples THEN "satisfied"
                         ELSE IF s = "satisfied" THEN "unknown" ELSE s
       ELSE place' = "resolve" /\ UNCHANGED <<expected, status>>

\* verification_scope's enumeration; a process that does not answer is left out.
FindWindow ==
    /\ place = "resolve"
    /\ UNCHANGED <<worldVars, late>>
    /\ \E ws \in SUBSET There :
          /\ IF ws = There THEN NoChange /\ UNCHANGED missed ELSE Change /\ missed' = TRUE
          /\ \/ /\ Resolve(expected, ws) = "missing"
                /\ Sampled(IF expected.condition = "window_absent" THEN "satisfied" ELSE "unsatisfied")
             \/ Resolve(expected, ws) = "unknown" /\ Sampled("unknown")
             \/ /\ Resolve(expected, ws) = "found"
                /\ place' = "read" /\ scope' \in Resolved(expected, ws)
                /\ UNCHANGED <<expected, stable, status, trueFor, failed>>

\* The enumeration fails.
FindFails ==
    /\ place = "resolve" /\ Change
    /\ Sampled("unknown")
    /\ UNCHANGED <<worldVars, late, missed>>

\* The tree may be cut off: some of the controls may not be in it.
Observe ==
    /\ place = "read" /\ scope \in There
    /\ UNCHANGED <<worldVars, late, missed>>
    /\ \/ /\ NoChange
          /\ Sampled(IF IsMeant(expected, scope) THEN Evaluate(expected, panes[scope], FALSE)
                     ELSE "unknown")
       \/ /\ Change
          /\ \E seen \in SUBSET panes[scope] :
                Sampled(IF IsMeant(expected, scope) THEN Evaluate(expected, seen, TRUE)
                        ELSE "unknown")

\* The window is gone, the adapter refuses, or the deadline cuts the reading.
ObserveFails ==
    /\ place = "read"
    /\ IF scope \in There THEN Change ELSE NoChange
    /\ Sampled("unknown")
    /\ UNCHANGED <<worldVars, late, missed>>

-----------------------------------------------------------------------------
\* validate, and timeout_ms = 0: the deadline has passed when the call begins.
Expect(c, byId, byTitle, n, patient) ==
    /\ place = "idle"
    /\ expected' = [condition |-> c, byId |-> byId, byTitle |-> byTitle, samples |-> n]
    /\ place' = "resolve" /\ late' = ~patient
    /\ stable' = 0 /\ status' = "none"
    /\ trueFor' = 0 /\ failed' = FALSE /\ missed' = FALSE
    /\ UNCHANGED <<worldVars, scope, changes>>

DeadlinePasses ==
    /\ place # "idle" /\ ~late
    /\ late' = TRUE
    /\ UNCHANGED <<worldVars, expected, place, scope, stable, status, trueFor, failed, missed, changes>>

WindowChanges(w, c) ==
    /\ panes[w] # c /\ Change
    /\ panes' = [panes EXCEPT ![w] = c]
    /\ UNCHANGED <<titled, bearers, expected, place, scope, stable, late, status, trueFor, failed, missed>>

TitleChanges(w) ==
    /\ Change
    /\ titled' = IF w \in titled THEN titled \ {w} ELSE titled \cup {w}
    /\ UNCHANGED <<panes, bearers, expected, place, scope, stable, late, status, trueFor, failed, missed>>

\* A macOS id is made of the title when siblings share the identifier, and so
\* changes with it and with them; and a window that opens may have the id.
IdChanges(w) ==
    /\ Change
    /\ bearers' = IF w \in bearers THEN bearers \ {w} ELSE bearers \cup {w}
    /\ UNCHANGED <<panes, titled, expected, place, scope, stable, late, status, trueFor, failed, missed>>

VerifyInit ==
    /\ panes \in [Pane -> Controls \cup {Gone}]
    /\ titled \in SUBSET Pane /\ bearers \in SUBSET Pane
    /\ expected = NoPane /\ place = "idle" /\ scope = NoPane
    /\ stable = 0 /\ late = FALSE /\ status = "none"
    /\ trueFor = 0 /\ failed = FALSE /\ missed = FALSE /\ changes = 0

Sample == FindWindow \/ FindFails \/ Observe \/ ObserveFails

VerifyNext ==
    \/ \E c \in Conditions, byId, byTitle, patient \in BOOLEAN, n \in 1 .. MaxSamples :
          Expect(c, byId, byTitle, n, patient)
    \/ Sample \/ DeadlinePasses
    \/ \E w \in Pane, c \in Controls \cup {Gone} : WindowChanges(w, c)
    \/ \E w \in Pane : TitleChanges(w) \/ IdChanges(w)

\* Enumerations and observations end, and time passes.
VerifyFair == WF_verifyVars(Sample) /\ WF_verifyVars(DeadlinePasses)

VerifySpec == VerifyInit /\ [][VerifyNext]_verifyVars /\ VerifyFair

-----------------------------------------------------------------------------
VerifyTypeOK ==
    /\ panes \in [Pane -> Controls \cup {Gone}] /\ titled \subseteq Pane /\ bearers \subseteq Pane
    /\ expected = NoPane \/ expected \in [condition : Conditions, byId : BOOLEAN, byTitle : BOOLEAN,
                                          samples : 1 .. MaxSamples]
    /\ place \in {"idle", "resolve", "read"} /\ scope \in Pane \cup {NoPane}
    /\ stable \in Nat /\ trueFor \in Nat
    /\ status \in {"none", "satisfied", "unsatisfied", "unknown"}

\* "satisfied" means that the condition was true in as many samples running as
\* the caller asked for, "unsatisfied" that it was false in the last one, each of a
\* window that the locator's id or title fitted then: neither another window, nor one
\* that could not be observed, nor a partial tree, nor a sample whose deadline cut it
\* counts for or against (semantic.rs 812-951, evaluate, matches_window).  Unless a
\* window that is there was missing from an enumeration: that is taken for its absence.
VerdictsAreTrue ==
    [][place # "idle" /\ place' = "idle" /\ ~missed' =>
          /\ status' = "satisfied" => trueFor' >= expected.samples
          /\ status' = "unsatisfied" => failed']_verifyVars

\* "Stable, locally-derived window identity" (types.rs 144): a verdict on what was
\* read is about the window whose id the locator holds, and not about another one that
\* bears it, when the first has closed or has lost its title.  Not so: see README.
VerdictsAreOfItsWindow ==
    [][place = "read" /\ place' = "idle" /\ expected.byId /\ ~missed' /\ status' # "unknown" =>
          scope = Origin]_verifyVars

\* Every verification ends, also of a desktop that never settles (semantic.rs 818-944).
VerifyEnds == place # "idle" ~> place = "idle"
=============================================================================
