---------------------------- MODULE ActionSpace ----------------------------
(***************************************************************************)
(* The semantic desktop tools (crates/nuphus-mcp/src/tools/semantic.rs) on *)
(* top of the Windows UI Automation adapter (crates/desktop-api/src/       *)
(* semantic/windows_uia.rs).                                               *)
(*                                                                         *)
(* A client observes a window, gets a token for the action space found     *)
(* there, and later executes one of its candidates.  Calls are serialised, *)
(* but the desktop is not: the foreground and the controls change between  *)
(* any two reads of a call.  One step is one read of the desktop, or one   *)
(* native call, with the code up to the next one.                          *)
(*                                                                         *)
(* Of the desktop only the foreground window is kept, and the control the  *)
(* call under way is about, in the window that call is about; what another *)
(* window shows is any control.  No call relies on what the desktop was    *)
(* before it, so every call begins with any desktop.                       *)
(***************************************************************************)
EXTENDS Naturals, FiniteSets

CONSTANTS
    Window,         \* top-level windows
    AppOf,          \* the application of each window
    NoSpace,        \* last_space is None
    NoCall,         \* no call is under way
    SettleReads,    \* ATTEMPTS of verify_with_settle (6 in the code)
    MaxObs          \* bound: how many observations are ever stored

\* What a read of a window finds of the control: nothing, two controls with the
\* same public semantics, or one with its toggle state ("mixed" reads as None).
Control == {"absent", "twin", "off", "on", "mixed"}
Unique(c) == c \in {"off", "on", "mixed"}

\* Candidate kinds: Invoke by risk class, SetChecked(true), and the two kinds of
\* control candidates ("ask" stands for AskUser and CannotProceed).
Native == {"press", "commit", "critical", "check"}
Kind == Native \cup {"done", "ask"}

Dispatch == {"none", "not_sent", "sent", "unknown"}

Space == [token : 1 .. MaxObs, win : Window, bound : BOOLEAN,
          control : BOOLEAN, expired : BOOLEAN]
Call == [via : {"execute", "action"}, token : 1 .. MaxObs, kind : Native, win : Window,
         bound : BOOLEAN, before : Control, dispatch : Dispatch]

ASSUME SpaceAssumption ==
    /\ MaxObs \in Nat /\ SettleReads \in Nat \ {0}
    /\ NoSpace \notin Space /\ NoCall \notin Call

VARIABLES
    front,          \* the foreground window
    ctl,            \* the control in the window the call is about
    space,          \* last_space: the action space a token is valid for
    issued,         \* tokens handed out so far are 1 .. issued
    told,           \* those the client has been told
    served,         \* the token whose candidates the adapter can execute, or 0
    pc,             \* where the call under way stands
    cur,            \* its candidate, the fresh read, and its dispatch state
    seen,           \* toggle states SetChecked has met
    reads,          \* reads of the settle loop so far
    reply,          \* the last answer to the client
    touched,        \* history: the last call sent native input
    happened,       \* history: its control has shown the effect the candidate is for
    dispatches      \* history: native dispatches made under each token

vars == <<front, ctl, space, issued, told, served, pc, cur, seen, reads, reply,
          touched, happened, dispatches>>
desktop == <<front, ctl>>
tokens == <<issued, told>>
loop == <<seen, reads>>
history == <<touched, happened, dispatches>>

Answer == [form : {"none", "ok", "error", "encoded"}, dispatch : Dispatch,
           status : {"none", "space", "done", "ask", "already_satisfied", "executed",
                     "needs_observation", "dispatched_unverified"}]
Label == {"idle", "fresh", "adapter", "press", "toggle", "flip", "settle", "post"}

Nothing == [form |-> "none", dispatch |-> "none", status |-> "none"]
Error == [form |-> "error", dispatch |-> "none", status |-> "none"]
Encoded(dispatch) == [form |-> "encoded", dispatch |-> dispatch, status |-> "none"]
Ok(status, dispatch) == [form |-> "ok", dispatch |-> dispatch, status |-> status]

Init ==
    /\ front \in Window /\ ctl = "absent"
    /\ space = NoSpace
    /\ issued = 0 /\ told = {} /\ served = 0
    /\ pc = "idle" /\ cur = NoCall
    /\ seen = {} /\ reads = 0
    /\ reply = Nothing
    /\ touched = FALSE /\ happened = FALSE
    /\ dispatches = [t \in 1 .. MaxObs |-> 0]

Answers(answer) ==
    reply' = answer /\ pc' = "idle" /\ cur' = NoCall /\ seen' = {} /\ reads' = 0

\* A call that reads nothing of the desktop after its first observation.
AnswersAtOnce(answer) ==
    /\ pc = "idle"
    /\ Answers(answer)
    /\ touched' = FALSE /\ happened' = FALSE
    /\ UNCHANGED <<desktop, dispatches>>

-----------------------------------------------------------------------------
(* Observing *)

\* store_observation of a window with control c: the adapter learns the new
\* candidates, and the new action space replaces the previous one.
Store(win, bound, c) ==
    /\ issued < MaxObs
    /\ issued' = issued + 1
    /\ served' = issued + 1
    /\ space' = [token |-> issued + 1, win |-> win, bound |-> bound,
                 control |-> Unique(c), expired |-> FALSE]

\* The read fails and nothing changes; or it has more candidates than
\* validate_action_space accepts, and the adapter alone has forgotten the old ones.
StoreFails == served' \in {served, 0} /\ UNCHANGED <<space, tokens>>

\* desktop_semantic_observe, of the foreground or of a bound target.
Observe ==
    \/ \E win \in Window, bound \in BOOLEAN, c \in Control :
          /\ Store(win, bound, c)
          /\ told' = told \cup {issued + 1}
          /\ AnswersAtOnce(Ok("space", "none"))
    \/ StoreFails /\ AnswersAtOnce(Error)

\* desktop_target_bind and desktop_verify_state drop the action space; the second
\* builds candidates of its own.
Invalidate ==
    /\ AnswersAtOnce(Ok("none", "none"))
    /\ space' = NoSpace
    /\ served' \in {served, 0}
    /\ UNCHANGED tokens

-----------------------------------------------------------------------------
(* desktop_semantic_execute: arguments and policy *)

\* validate_space_token, and the candidate must be one of the space's.
Valid(t, kind) ==
    /\ space # NoSpace
    /\ space.token = t
    /\ ~space.expired
    /\ kind \in Native => space.control

\* A stale token or a foreign candidate, or parameters that contradict it.
ExecuteRejected(t, kind) ==
    /\ Valid(t, kind) => kind = "check"
    /\ AnswersAtOnce(Error)
    /\ UNCHANGED <<space, tokens, served>>

\* Done drops the action space, AskUser and CannotProceed keep it.
ExecuteControl(t, kind) ==
    /\ Valid(t, kind) /\ kind \in {"done", "ask"}
    /\ AnswersAtOnce(Ok(kind, "none"))
    /\ space' = IF kind = "done" THEN NoSpace ELSE space
    /\ UNCHANGED <<tokens, served>>

\* A critical action is refused: there is nobody to confirm it.
ExecuteCritical(t) ==
    /\ Valid(t, "critical")
    /\ AnswersAtOnce(Encoded("not_sent"))
    /\ UNCHANGED <<space, tokens, served>>

Begin(via, token, kind, win, bound) ==
    /\ cur' = [via |-> via, token |-> token, kind |-> kind, win |-> win, bound |-> bound,
               before |-> "absent", dispatch |-> "none"]
    /\ pc' = "fresh" /\ reply' = Nothing
    /\ touched' = FALSE /\ happened' = FALSE
    /\ UNCHANGED <<loop, dispatches>>

ExecuteBegin(t, kind) ==
    /\ pc = "idle" /\ Valid(t, kind) /\ kind \in Native \ {"critical"}
    /\ front' \in Window /\ ctl' \in Control
    /\ Begin("execute", t, kind, space.win, space.bound)
    /\ UNCHANGED <<space, tokens, served>>

\* desktop_semantic_action: observe the saved target's window, store the space
\* (its token is not told), rebuild the candidate from the saved locator.
ActionBegin(kind) ==
    /\ pc = "idle" /\ kind \in Native \ {"critical"}
    /\ front' \in Window /\ ctl' \in {c \in Control : Unique(c)}
    /\ \E win \in Window :
          /\ Store(win, TRUE, ctl')
          /\ Begin("action", issued + 1, kind, win, TRUE)
    /\ UNCHANGED told

\* The observation is stored, but its control is missing or ambiguous, or what it
\* asks for is critical.
ActionRefused ==
    /\ \E win \in Window, c \in Control :
          /\ Store(win, TRUE, c)
          /\ AnswersAtOnce(IF Unique(c) THEN Encoded("not_sent") ELSE Error)
    /\ UNCHANGED told

ActionFails == StoreFails /\ AnswersAtOnce(Error)

-----------------------------------------------------------------------------
(* execute_candidate *)

\* What becomes of execute_candidate's result: a candidate's execution returns
\* it, a saved action turns it into an answer its workflow can act on, by the
\* completion policy or by an explicit postcondition.
Unverified(dispatch, verification, completion) ==
    IF /\ dispatch = "sent" /\ cur.kind # "commit"
       /\ completion = "auto" => verification = "unknown"
       /\ completion # "verified"
    THEN Ok("dispatched_unverified", "sent")
    ELSE Encoded(IF dispatch = "sent" THEN "sent" ELSE "unknown")

Outcome(status, dispatch, verification) ==
    \/ /\ cur.via = "execute" \/ verification = "achieved"
       /\ Answers(Ok(status, dispatch))
    \/ /\ cur.via = "action" /\ verification # "achieved"
       /\ \E completion \in {"auto", "verified", "dispatched"} :
             Answers(Unverified(dispatch, verification, completion))
    \/ /\ cur.via = "action"
       /\ pc' = "post" /\ cur' = [cur EXCEPT !.dispatch = dispatch]
       /\ seen' = {} /\ reads' = 0
       /\ UNCHANGED reply

\* Mutant: an error of the adapter is taken to mean that nothing was sent.
NotSentOnError == "not_sent"

\* An error of the adapter says nothing about whether input has been sent.
ErrorDispatch == "unknown"

NeedsObservation == Outcome("needs_observation", ErrorDispatch, "unknown")

\* What a read through the call's scope looks at.
Looks == IF cur.bound THEN cur.win ELSE front

\* The read right before dispatch fails, shows another window, or no longer shows
\* the control exactly once.
FreshRejected ==
    /\ pc = "fresh"
    /\ space' \in {space} \cup (IF Looks = cur.win THEN {} ELSE {NoSpace})
    /\ Answers(Error)
    /\ UNCHANGED <<desktop, tokens, served, history>>

FreshSatisfied ==
    /\ pc = "fresh" /\ Looks = cur.win
    /\ cur.kind = "check" /\ ctl = "on"
    /\ space' = NoSpace
    /\ Outcome("already_satisfied", "not_sent", "achieved")
    /\ UNCHANGED <<desktop, tokens, served, history>>

\* Mutant: the action space outlives the dispatch.
KeepToken == space' = space

\* The action space is consumed before the adapter is asked to act.
ConsumeToken == space' = NoSpace

FreshAccepted ==
    /\ pc = "fresh" /\ Looks = cur.win
    /\ Unique(ctl)
    /\ cur.kind = "check" => ctl # "on"
    /\ ConsumeToken
    /\ cur' = [cur EXCEPT !.before = ctl]
    /\ pc' = "adapter"
    /\ UNCHANGED <<desktop, tokens, served, loop, reply, history>>

\* execute_candidate of the adapter: it does not know the candidate, its own read
\* of the window fails, or the window does not stay in the foreground.
AdapterFails ==
    /\ pc = "adapter"
    /\ front' \in {front, cur.win}
    /\ NeedsObservation
    /\ UNCHANGED <<ctl, space, tokens, served, history>>

\* A provider that needs the foreground refuses background delivery.
AdapterRefuses ==
    /\ pc = "adapter"
    /\ served = cur.token /\ Unique(ctl)
    /\ Answers(Encoded("not_sent"))
    /\ UNCHANGED <<desktop, space, tokens, served, history>>

\* A receipt comes back: the observation is dropped again, and verified.
Receipt(dispatch) ==
    /\ cur' = [cur EXCEPT !.dispatch = dispatch]
    /\ space' = NoSpace
    /\ pc' = "settle" /\ seen' = {}
    /\ UNCHANGED <<reply, reads>>

\* The control reached the wanted state since the fresh read.
AdapterSatisfied ==
    /\ pc = "adapter"
    /\ served = cur.token /\ cur.kind = "check" /\ ctl = "on"
    /\ Receipt("not_sent")
    /\ UNCHANGED <<desktop, tokens, served, history>>

AdapterReady ==
    /\ pc = "adapter"
    /\ served = cur.token /\ Unique(ctl)
    /\ cur.kind = "check" => ctl # "on"
    /\ front' \in {front, cur.win}
    /\ pc' = IF cur.kind = "check" THEN "toggle" ELSE "press"
    /\ dispatches' = [dispatches EXCEPT ![cur.token] = @ + 1]
    /\ UNCHANGED <<ctl, space, tokens, served, cur, loop, reply, touched, happened>>

-----------------------------------------------------------------------------
(* dispatch *)

\* The effect of setting a checkbox is that it is on, of an Invoke that the control
\* is no longer as it was in the fresh read.
Effect(c) == IF cur.kind = "check" THEN c = "on" ELSE c # cur.before
Watch == happened' = (happened \/ (pc # "fresh" /\ Effect(ctl')))

\* Invoke: the application does what it likes to the control and the foreground,
\* and the call may time out although it arrived.
Press ==
    /\ pc = "press"
    /\ touched' = TRUE
    /\ front' \in Window /\ ctl' \in Control
    /\ Watch
    /\ Receipt("sent") \/ (NeedsObservation /\ UNCHANGED space)
    /\ UNCHANGED <<tokens, served, dispatches>>

\* The native call fails without an effect.
PressFails ==
    /\ pc = "press"
    /\ NeedsObservation
    /\ UNCHANGED <<desktop, space, tokens, served, history>>

\* Mutant: SetChecked has no bound on its toggles.
ToggleForever == ~Unique(ctl)

\* SetChecked toggles at most twice, and reads the state before each toggle and
\* after the last: a state met before means that the control did not settle.
ToggleGivesUp == ~Unique(ctl) \/ ctl \in seen \/ Cardinality(seen) = 2

Toggle ==
    /\ pc = "toggle"
    /\ \/ ctl = "on" /\ Receipt("sent")
       \/ ctl # "on" /\ ToggleGivesUp /\ NeedsObservation /\ UNCHANGED space
       \/ /\ ~(ctl = "on" \/ ToggleGivesUp)
          /\ seen' = seen \cup {ctl} /\ pc' = "flip"
          /\ UNCHANGED <<space, cur, reads, reply>>
    /\ UNCHANGED <<desktop, tokens, served, history>>

\* A two-state control changes over, a three-state one goes on to its next state.
Successor(c) ==
    CASE c = "off" -> {"on"}
      [] c = "on" -> {"off", "mixed"}
      [] c = "mixed" -> {"off"}
      [] OTHER -> {c}

Flip ==
    /\ pc = "flip"
    /\ \/ touched' = TRUE /\ ctl' \in Successor(ctl)
       \/ UNCHANGED <<ctl, touched>>
    /\ Watch
    /\ \/ pc' = "toggle" /\ UNCHANGED <<cur, loop, reply>>
       \/ NeedsObservation
    /\ UNCHANGED <<front, space, tokens, served, dispatches>>

-----------------------------------------------------------------------------
(* verify_with_settle *)

\* Mutant: Verify (below) without the comparison of applications and windows.
VerifyAnyWindow(w, c, conclusive) ==
    IF cur.kind = "check"
    THEN IF c = "on" THEN "achieved" ELSE "unknown"
    ELSE IF c # cur.before THEN "achieved" ELSE "unknown"

\* verify_observation_with_value, for a read that shows window w with control c.
\* What an Invoke changed counts if the candidate has expected effects, and that
\* its control is gone only in a complete tree: the read is conclusive then.
Verify(w, c, conclusive) ==
    IF w # cur.win
    THEN IF AppOf[w] = AppOf[cur.win] THEN "unknown" ELSE "unexpected"
    ELSE IF cur.kind = "check"
    THEN CASE c = "on" -> "achieved" [] c = "off" -> "nochange" [] OTHER -> "unknown"
    ELSE IF conclusive /\ c # "twin" /\ c # cur.before THEN "achieved" ELSE "unknown"

\* Mutant: the loop reads once too often.
LastReadLate == reads = SettleReads

\* The last of the loop's ATTEMPTS.
LastRead == reads + 1 = SettleReads

Settle ==
    /\ pc = "settle"
    /\ \E conclusive \in BOOLEAN, c \in Control :
          LET verification == Verify(Looks, c, conclusive)
              again == verification \in {"nochange", "unknown"} /\ ~LastRead
          IN  /\ Looks = cur.win => c = ctl
              /\ \/ again /\ reads' = reads + 1 /\ UNCHANGED <<pc, cur, seen, reply>>
                 \/ ~again /\ Outcome(IF verification = "achieved" THEN "executed"
                                      ELSE "needs_observation", cur.dispatch, verification)
    /\ UNCHANGED <<desktop, space, tokens, served, history>>

SettleFails ==
    /\ pc = "settle"
    /\ Outcome("needs_observation", cur.dispatch, "unknown")
    /\ UNCHANGED <<desktop, space, tokens, served, history>>

\* A saved action's explicit postcondition decides, whatever the loop saw.
Postcondition ==
    /\ pc = "post"
    /\ Answers(Ok("executed", cur.dispatch)) \/ Answers(Encoded(cur.dispatch))
    /\ served' \in {served, 0}
    /\ UNCHANGED <<desktop, space, tokens, history>>

-----------------------------------------------------------------------------
(* The desktop and the clock *)

UiChanges ==
    /\ pc # "idle"
    /\ \/ front' \in Window /\ UNCHANGED ctl
       \/ ctl' \in Control /\ UNCHANGED front
    /\ Watch
    /\ UNCHANGED <<space, tokens, served, pc, cur, loop, reply, touched, dispatches>>

\* ACTION_SPACE_TTL passes.
Expire ==
    /\ pc = "idle" /\ space # NoSpace /\ ~space.expired
    /\ space' = [space EXCEPT !.expired = TRUE]
    /\ UNCHANGED <<desktop, tokens, served, pc, cur, loop, reply, history>>

-----------------------------------------------------------------------------
Execute(t, kind) ==
    \/ ExecuteRejected(t, kind) \/ ExecuteControl(t, kind) \/ ExecuteBegin(t, kind)

ClientCall ==
    \/ Observe \/ Invalidate
    \/ \E t \in told : ExecuteCritical(t) \/ \E kind \in Kind : Execute(t, kind)
    \/ \E kind \in Native : ActionBegin(kind)
    \/ ActionRefused \/ ActionFails

CallStep ==
    \/ FreshRejected \/ FreshSatisfied \/ FreshAccepted
    \/ AdapterFails \/ AdapterRefuses \/ AdapterSatisfied \/ AdapterReady
    \/ Press \/ PressFails \/ Toggle \/ Flip
    \/ Settle \/ SettleFails \/ Postcondition

Next == ClientCall \/ CallStep \/ UiChanges \/ Expire

Spec == Init /\ [][Next]_vars

\* The server runs a call it has started, whatever the desktop does.
FairSpec == Spec /\ WF_vars(CallStep)

-----------------------------------------------------------------------------
TypeOK ==
    /\ front \in Window /\ ctl \in Control
    /\ space \in Space \cup {NoSpace}
    /\ issued \in 0 .. MaxObs /\ told \subseteq 1 .. issued /\ served \in 0 .. issued
    /\ pc \in Label
    /\ cur \in Call \cup {NoCall} /\ (cur = NoCall) = (pc = "idle")
    /\ seen \subseteq {"off", "mixed"} /\ reads \in 0 .. SettleReads - 1
    /\ reply \in Answer
    /\ touched \in BOOLEAN /\ happened \in BOOLEAN
    /\ dispatches \in [1 .. MaxObs -> Nat]

\* An observation token is good for one native dispatch: once one may have
\* happened, no error, timeout or failed read leaves the candidate replayable
\* (semantic.rs lines 626-628 and 650-652).
OneDispatchPerObservation == \A t \in 1 .. MaxObs : dispatches[t] <= 1

\* What the client may repeat without looking again: plain errors, and answers
\* that say that nothing was sent.
Retryable(answer) == answer.form = "error" \/ answer.dispatch = "not_sent"

\* Such an answer is never given once native input has been sent, however the
\* adapter, the settle loop or the postcondition failed afterwards.
RetryableMeansNotSent == Retryable(reply) => ~touched

\* An action is only reported as executed, on the evidence of the read-back, when
\* its effect has been there at some moment since the read right before dispatch, in
\* the window that was observed: a foreground that moved on is no evidence.
ConfirmedMeansHappened ==
    [][(pc = "settle" /\ reply'.status = "executed") => happened]_vars

\* Every call is answered, even when the desktop never settles.
CallReturns == pc # "idle" ~> pc = "idle"
=============================================================================
