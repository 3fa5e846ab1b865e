------------------------- MODULE ActionSpaceProofs -------------------------
(***************************************************************************)
(* Proofs about ActionSpace, for every set of windows, every number of     *)
(* observations and every length of the settle loop.                       *)
(***************************************************************************)
EXTENDS ActionSpace, TLAPS

Status == {"none", "space", "done", "ask", "already_satisfied", "executed",
           "needs_observation", "dispatched_unverified"}

\* The proper subset of dispatch states an outcome may report: those its caller
\* passes on, and those that warn against a retry.
LEMMA OutcomeFact ==
    ASSUME TypeOK, pc # "idle",
           NEW status \in Status, NEW dispatch \in Dispatch, NEW verification,
           Outcome(status, dispatch, verification)
    PROVE  /\ seen' = {} /\ reads' = 0
           /\ \/ /\ pc' = "idle" /\ cur' = NoCall
                 /\ reply' \in Answer /\ reply'.form # "error"
                 /\ reply'.dispatch \in {dispatch, "sent", "unknown"}
              \/ /\ pc' = "post" /\ cur' \in Call /\ reply' = reply
                 /\ cur'.token = cur.token /\ cur'.dispatch = dispatch
<1>1. cur \in Call
  BY DEF TypeOK
<1>2. CASE Answers(Ok(status, dispatch))
  BY <1>2 DEF Answers, Ok, Answer, Status
<1>3. ASSUME NEW completion \in {"auto", "verified", "dispatched"},
             Answers(Unverified(dispatch, verification, completion))
      PROVE  /\ seen' = {} /\ reads' = 0 /\ pc' = "idle" /\ cur' = NoCall
             /\ reply' \in Answer /\ reply'.form # "error"
             /\ reply'.dispatch \in {dispatch, "sent", "unknown"}
  BY <1>3 DEF Answers, Unverified, Ok, Encoded, Answer, Dispatch
<1>4. CASE /\ pc' = "post" /\ cur' = [cur EXCEPT !.dispatch = dispatch]
           /\ seen' = {} /\ reads' = 0 /\ UNCHANGED reply
  BY <1>1, <1>4 DEF Call
<1>. QED
  BY <1>2, <1>3, <1>4 DEF Outcome

-----------------------------------------------------------------------------
(* Type correctness *)

\* Every action keeps every variable in its type; in particular the settle loop
\* stops in time and SetChecked never remembers "on".
LEMMA TypeStep == TypeOK /\ [Next]_vars => TypeOK'
<1>. SUFFICES ASSUME TypeOK, [Next]_vars PROVE TypeOK'
  OBVIOUS
<1>. USE SpaceAssumption
<1>1. ASSUME NEW win \in Window, NEW bound \in BOOLEAN, NEW c, Store(win, bound, c)
      PROVE  /\ issued' = issued + 1 /\ issued' \in 0 .. MaxObs /\ served' = issued'
             /\ space' \in Space
             /\ told \cup {issued'} \subseteq 1 .. issued' /\ told \subseteq 1 .. issued'
  <2>1. issued' = issued + 1 /\ issued' \in 1 .. MaxObs /\ served' = issued'
    BY <1>1 DEF Store, TypeOK
  <2>2. Unique(c) \in BOOLEAN
    BY DEF Unique
  <2>3. space' \in Space
    BY <1>1, <2>1, <2>2 DEF Store, Space
  <2>. QED
    BY <2>1, <2>3 DEF TypeOK
<1>2. ASSUME NEW answer \in Answer, AnswersAtOnce(answer)
      PROVE  /\ reply' \in Answer /\ pc' = "idle" /\ cur' = NoCall
             /\ seen' = {} /\ reads' = 0 /\ touched' \in BOOLEAN /\ happened' \in BOOLEAN
             /\ front' = front /\ ctl' = ctl /\ dispatches' = dispatches
  BY <1>2 DEF AnswersAtOnce, Answers, desktop
<1>3. /\ Error \in Answer /\ Nothing \in Answer
      /\ \A d \in Dispatch : Encoded(d) \in Answer
      /\ \A st \in Status, d \in Dispatch : Ok(st, d) \in Answer
  BY DEF Error, Nothing, Encoded, Ok, Answer, Dispatch, Status
<1>4. CASE Observe
  <2>1. ASSUME NEW win \in Window, NEW bound \in BOOLEAN, NEW c \in Control,
               Store(win, bound, c), told' = told \cup {issued + 1},
               AnswersAtOnce(Ok("space", "none"))
        PROVE  TypeOK'
    <3>1. Ok("space", "none") \in Answer
      BY <1>3 DEF Status, Dispatch
    <3>. QED
      BY <1>1, <1>2, <2>1, <3>1 DEF TypeOK, Label
  <2>2. CASE StoreFails /\ AnswersAtOnce(Error)
    BY <1>2, <1>3, <2>2 DEF StoreFails, TypeOK, Label, tokens
  <2>. QED
    BY <1>4, <2>1, <2>2 DEF Observe
<1>5. CASE Invalidate
  <2>1. Ok("none", "none") \in Answer
    BY <1>3 DEF Status, Dispatch
  <2>. QED
    BY <1>2, <1>5, <2>1 DEF Invalidate, TypeOK, Label, tokens
<1>6. ASSUME NEW t \in told, NEW kind \in Kind, ExecuteRejected(t, kind) PROVE TypeOK'
  BY <1>2, <1>3, <1>6 DEF ExecuteRejected, TypeOK, Label, tokens
<1>7. ASSUME NEW t \in told, NEW kind \in Kind, ExecuteControl(t, kind) PROVE TypeOK'
  <2>1. kind \in {"done", "ask"} /\ Ok(kind, "none") \in Answer
    BY <1>3, <1>7 DEF ExecuteControl, Status, Dispatch
  <2>. QED
    BY <1>2, <1>7, <2>1 DEF ExecuteControl, TypeOK, Label, tokens
<1>8. ASSUME NEW t \in told, ExecuteCritical(t) PROVE TypeOK'
  <2>1. Encoded("not_sent") \in Answer
    BY <1>3 DEF Dispatch
  <2>. QED
    BY <1>2, <1>8, <2>1 DEF ExecuteCritical, TypeOK, Label, tokens
<1>9. ASSUME NEW via \in {"execute", "action"}, NEW token \in 1 .. MaxObs, NEW kind \in Native,
             NEW win \in Window, NEW bound \in BOOLEAN, Begin(via, token, kind, win, bound)
      PROVE  /\ cur' \in Call /\ pc' = "fresh" /\ reply' \in Answer
             /\ touched' \in BOOLEAN /\ happened' \in BOOLEAN
             /\ seen' = seen /\ reads' = reads /\ dispatches' = dispatches
  BY <1>3, <1>9 DEF Begin, Call, Control, Dispatch, loop
<1>10. ASSUME NEW t \in told, NEW kind \in Kind, ExecuteBegin(t, kind) PROVE TypeOK'
  <2>1. space \in Space /\ kind \in Native
    BY <1>10 DEF ExecuteBegin, Valid, TypeOK
  <2>2. t \in 1 .. MaxObs /\ space.win \in Window /\ space.bound \in BOOLEAN
    BY <2>1 DEF Space, TypeOK
  <2>3. Begin("execute", t, kind, space.win, space.bound)
    BY <1>10 DEF ExecuteBegin
  <2>4. /\ cur' \in Call /\ pc' = "fresh" /\ reply' \in Answer
        /\ touched' \in BOOLEAN /\ happened' \in BOOLEAN
        /\ seen' = seen /\ reads' = reads /\ dispatches' = dispatches
    BY <1>9, <2>1, <2>2, <2>3
  <2>. QED
    BY <1>10, <2>4 DEF ExecuteBegin, TypeOK, Label, tokens
<1>11. ASSUME NEW kind \in Native, ActionBegin(kind) PROVE TypeOK'
  <2>1. PICK win \in Window : Store(win, TRUE, ctl') /\ Begin("action", issued + 1, kind, win, TRUE)
    BY <1>11 DEF ActionBegin
  <2>2. issued + 1 \in 1 .. MaxObs
    BY <2>1 DEF Store, TypeOK
  <2>3. /\ cur' \in Call /\ pc' = "fresh" /\ reply' \in Answer
        /\ touched' \in BOOLEAN /\ happened' \in BOOLEAN
        /\ seen' = seen /\ reads' = reads /\ dispatches' = dispatches
    BY <1>9, <2>1, <2>2
  <2>4. /\ issued' \in 0 .. MaxObs /\ served' = issued' /\ space' \in Space
        /\ told \subseteq 1 .. issued'
    BY <1>1, <2>1
  <2>. QED
    BY <1>11, <2>3, <2>4 DEF ActionBegin, TypeOK, Label
<1>12. CASE ActionRefused
  <2>1. PICK win \in Window, c \in Control :
           /\ Store(win, TRUE, c)
           /\ AnswersAtOnce(IF Unique(c) THEN Encoded("not_sent") ELSE Error)
    BY <1>12 DEF ActionRefused
  <2>2. (IF Unique(c) THEN Encoded("not_sent") ELSE Error) \in Answer
    BY <1>3 DEF Dispatch
  <2>3. /\ reply' \in Answer /\ pc' = "idle" /\ cur' = NoCall
        /\ seen' = {} /\ reads' = 0 /\ touched' \in BOOLEAN /\ happened' \in BOOLEAN
        /\ front' = front /\ ctl' = ctl /\ dispatches' = dispatches
    BY <1>2, <2>1, <2>2
  <2>4. /\ issued' \in 0 .. MaxObs /\ served' = issued' /\ space' \in Space
        /\ told \subseteq 1 .. issued'
    BY <1>1, <2>1
  <2>. QED
    BY <1>12, <2>3, <2>4 DEF ActionRefused, TypeOK, Label
<1>13. CASE ActionFails
  BY <1>2, <1>3, <1>13 DEF ActionFails, StoreFails, TypeOK, Label, tokens
<1>14. CASE CallStep
  <2>1. pc # "idle" /\ cur \in Call
    BY <1>14 DEF CallStep, TypeOK, FreshRejected, FreshSatisfied, FreshAccepted, AdapterFails,
                 AdapterRefuses, AdapterSatisfied, AdapterReady, Press, PressFails, Toggle, Flip,
                 Settle, SettleFails, Postcondition
  <2>2. cur.dispatch \in Dispatch /\ cur.token \in 1 .. MaxObs /\ cur.win \in Window
    BY <2>1 DEF Call
  <2>3. ASSUME NEW answer \in Answer, Answers(answer)
        PROVE  /\ reply' \in Answer /\ pc' = "idle" /\ cur' = NoCall
               /\ seen' = {} /\ reads' = 0
    BY <2>3 DEF Answers
  <2>4. ASSUME NEW status \in Status, NEW dispatch \in Dispatch, NEW verification,
               Outcome(status, dispatch, verification)
        PROVE  /\ seen' = {} /\ reads' = 0 /\ reply' \in Answer /\ pc' \in Label
               /\ cur' \in Call \cup {NoCall} /\ (cur' = NoCall) = (pc' = "idle")
    BY <2>1, <2>4, OutcomeFact DEF TypeOK, Label
  <2>5. NeedsObservation => /\ seen' = {} /\ reads' = 0 /\ reply' \in Answer /\ pc' \in Label
                            /\ cur' \in Call \cup {NoCall} /\ (cur' = NoCall) = (pc' = "idle")
    BY <2>4 DEF NeedsObservation, ErrorDispatch, Dispatch, Status
  <2>6. ASSUME NEW dispatch \in Dispatch, Receipt(dispatch)
        PROVE  /\ cur' \in Call /\ space' = NoSpace /\ pc' = "settle"
               /\ seen' = {} /\ reply' = reply /\ reads' = reads
    BY <2>1, <2>6 DEF Receipt, Call
  <2>7. CASE FreshRejected
    BY <1>3, <2>3, <2>7 DEF FreshRejected, TypeOK, Label, desktop, tokens, history
  <2>8. CASE FreshSatisfied
    BY <2>4, <2>8 DEF FreshSatisfied, TypeOK, desktop, tokens, history, Dispatch, Status
  <2>9. CASE FreshAccepted
    <3>1. cur' \in Call
      BY <2>1, <2>9 DEF FreshAccepted, Call, TypeOK
    <3>. QED
      BY <2>9, <3>1 DEF FreshAccepted, ConsumeToken, TypeOK, Label, desktop, tokens, loop, history
  <2>10. CASE AdapterFails
    BY <2>2, <2>5, <2>10 DEF AdapterFails, TypeOK, tokens, history
  <2>11. CASE AdapterRefuses
    <3>1. Encoded("not_sent") \in Answer
      BY <1>3 DEF Dispatch
    <3>. QED
      BY <2>3, <2>11, <3>1 DEF AdapterRefuses, TypeOK, Label, desktop, tokens, history
  <2>12. CASE AdapterSatisfied
    BY <2>6, <2>12 DEF AdapterSatisfied, TypeOK, Label, desktop, tokens, history, Dispatch
  <2>13. CASE AdapterReady
    <3>1. dispatches' \in [1 .. MaxObs -> Nat]
      BY <2>2, <2>13 DEF AdapterReady, TypeOK
    <3>. QED
      BY <2>1, <2>2, <2>13, <3>1 DEF AdapterReady, TypeOK, Label, tokens, loop
  <2>14. CASE Press
    <3>1. happened' \in BOOLEAN
      BY <2>14 DEF Press, Watch
    <3>. QED
      BY <2>5, <2>6, <2>14, <3>1 DEF Press, TypeOK, Label, tokens, Dispatch
  <2>15. CASE PressFails
    BY <2>5, <2>15 DEF PressFails, TypeOK, desktop, tokens, history
  <2>16. CASE Toggle
    <3>1. CASE ctl = "on" /\ Receipt("sent")
      BY <2>6, <2>16, <3>1 DEF Toggle, TypeOK, Label, desktop, tokens, history, Dispatch
    <3>2. CASE NeedsObservation /\ UNCHANGED space
      BY <2>5, <2>16, <3>2 DEF Toggle, TypeOK, desktop, tokens, history
    <3>3. CASE /\ ~(ctl = "on" \/ ToggleGivesUp)
               /\ seen' = seen \cup {ctl} /\ pc' = "flip"
               /\ UNCHANGED <<space, cur, reads, reply>>
      <4>1. ctl \in {"off", "mixed"}
        BY <3>3 DEF ToggleGivesUp, Unique
      <4>. QED
        BY <2>1, <2>16, <3>3, <4>1 DEF Toggle, TypeOK, Label, desktop, tokens, history
    <3>. QED
      BY <2>16, <3>1, <3>2, <3>3 DEF Toggle
  <2>17. CASE Flip
    <3>1. happened' \in BOOLEAN /\ touched' \in BOOLEAN /\ ctl' \in Control
      BY <2>17 DEF Flip, Watch, Successor, Control, TypeOK
    <3>2. CASE pc' = "toggle" /\ UNCHANGED <<cur, loop, reply>>
      BY <2>1, <2>17, <3>1, <3>2 DEF Flip, TypeOK, Label, tokens, loop
    <3>3. CASE NeedsObservation
      BY <2>5, <2>17, <3>1, <3>3 DEF Flip, TypeOK, tokens
    <3>. QED
      BY <2>17, <3>2, <3>3 DEF Flip
  <2>18. CASE Settle
    <3>1. ASSUME ~LastRead, reads' = reads + 1, UNCHANGED <<pc, cur, seen, reply>> PROVE TypeOK'
      <4>1. reads' \in 0 .. SettleReads - 1
        BY <3>1 DEF LastRead, TypeOK
      <4>. QED
        BY <2>18, <3>1, <4>1 DEF Settle, TypeOK, desktop, tokens, history
    <3>2. ASSUME NEW status \in Status, NEW verification, Outcome(status, cur.dispatch, verification)
          PROVE  TypeOK'
      BY <2>2, <2>4, <2>18, <3>2 DEF Settle, TypeOK, desktop, tokens, history
    <3>. QED
      BY <2>18, <3>1, <3>2 DEF Settle, Status
  <2>19. CASE SettleFails
    BY <2>2, <2>4, <2>19 DEF SettleFails, TypeOK, desktop, tokens, history, Status
  <2>20. CASE Postcondition
    <3>1. Ok("executed", cur.dispatch) \in Answer /\ Encoded(cur.dispatch) \in Answer
      BY <1>3, <2>2 DEF Status
    <3>. QED
      BY <2>3, <2>20, <3>1 DEF Postcondition, TypeOK, Label, desktop, tokens, history
  <2>. QED
    BY <1>14, <2>7, <2>8, <2>9, <2>10, <2>11, <2>12, <2>13, <2>14, <2>15, <2>16, <2>17, <2>18,
       <2>19, <2>20 DEF CallStep
<1>15. CASE UiChanges
  <2>1. happened' \in BOOLEAN
    BY <1>15 DEF UiChanges, Watch
  <2>. QED
    BY <1>15, <2>1 DEF UiChanges, TypeOK, tokens, loop
<1>16. CASE Expire
  <2>1. space' \in Space
    BY <1>16 DEF Expire, TypeOK, Space
  <2>. QED
    BY <1>16, <2>1 DEF Expire, TypeOK, desktop, tokens, loop, history
<1>17. CASE UNCHANGED vars
  BY <1>17 DEF vars, TypeOK
<1>. QED
  BY <1>4, <1>5, <1>6, <1>7, <1>8, <1>10, <1>11, <1>12, <1>13, <1>14, <1>15, <1>16, <1>17
     DEF Next, ClientCall, Execute

\* Type correctness of the action space, for any windows and bounds.
THEOREM TypeCorrect == Spec => []TypeOK
<1>1. Init => TypeOK
  <2>. SUFFICES ASSUME Init PROVE TypeOK
    OBVIOUS
  <2>1. touched \in BOOLEAN /\ happened \in BOOLEAN
    BY DEF Init
  <2>2. reply \in Answer
    BY DEF Init, Answer, Nothing, Dispatch
  <2>. QED
    BY <2>1, <2>2, SpaceAssumption DEF Init, TypeOK, Control, Label
<1>. QED
  BY <1>1, TypeStep, PTL DEF Spec
-----------------------------------------------------------------------------
(* One dispatch per observation *)

\* Where the one dispatch of a token can still happen: a cached space's token has
\* not been dispatched, a call that has consumed the space is the only one that may
\* dispatch its token, and it does so leaving no space behind.
TokenInv ==
    /\ \A t \in 1 .. MaxObs : dispatches[t] <= 1 /\ (t > issued => dispatches[t] = 0)
    /\ space # NoSpace => space.token <= issued /\ dispatches[space.token] = 0
    /\ pc = "fresh" => space # NoSpace /\ space.token = cur.token
    /\ pc \notin {"idle", "fresh"} => space = NoSpace
    /\ pc = "adapter" => dispatches[cur.token] = 0

\* A step that dispatches nothing and leaves the space alone or drops it, in a call
\* that goes on behind the fresh read, or ends.
LEMMA TokenFrame ==
    ASSUME TypeOK, TokenInv, issued' = issued, dispatches' = dispatches,
           space' = space \/ space' = NoSpace,
           \/ pc' = "idle"
           \/ pc' \notin {"idle", "fresh", "adapter"} /\ space' = NoSpace
    PROVE  TokenInv'
  BY DEF TokenInv

\* A new observation gets a token that no call has dispatched.
LEMMA TokenStored ==
    ASSUME TypeOK, TokenInv, NEW win \in Window, NEW bound \in BOOLEAN, NEW c,
           Store(win, bound, c), dispatches' = dispatches,
           pc' = "idle" \/ (pc' = "fresh" /\ cur'.token = issued + 1)
    PROVE  TokenInv'
<1>1. issued' = issued + 1 /\ issued \in Nat /\ issued + 1 \in 1 .. MaxObs
  BY SpaceAssumption DEF Store, TypeOK
<1>2. space'.token = issued + 1 /\ dispatches[issued + 1] = 0
  BY <1>1 DEF Store, TokenInv
<1>3. space' # NoSpace
  <2>1. Unique(c) \in BOOLEAN
    BY DEF Unique
  <2>2. space' \in Space
    BY <1>1, <2>1 DEF Store, Space
  <2>. QED
    BY <2>2, SpaceAssumption
<1>. QED
  BY <1>1, <1>2, <1>3 DEF TokenInv

LEMMA TokenStep == TypeOK /\ TokenInv /\ [Next]_vars => TokenInv'
<1>. SUFFICES ASSUME TypeOK, TokenInv, [Next]_vars PROVE TokenInv'
  OBVIOUS
<1>1. CASE Observe
  <2>1. ASSUME NEW win \in Window, NEW bound \in BOOLEAN, NEW c \in Control,
               Store(win, bound, c), AnswersAtOnce(Ok("space", "none"))
        PROVE  TokenInv'
    BY <2>1, TokenStored DEF AnswersAtOnce, Answers
  <2>2. CASE StoreFails /\ AnswersAtOnce(Error)
    BY <2>2, TokenFrame DEF StoreFails, AnswersAtOnce, Answers, tokens
  <2>. QED
    BY <1>1, <2>1, <2>2 DEF Observe
<1>2. CASE Invalidate
  BY <1>2, TokenFrame DEF Invalidate, AnswersAtOnce, Answers, tokens
<1>3. ASSUME NEW t \in told, NEW kind \in Kind, ExecuteRejected(t, kind) PROVE TokenInv'
  BY <1>3, TokenFrame DEF ExecuteRejected, AnswersAtOnce, Answers, tokens
<1>4. ASSUME NEW t \in told, NEW kind \in Kind, ExecuteControl(t, kind) PROVE TokenInv'
  BY <1>4, TokenFrame DEF ExecuteControl, AnswersAtOnce, Answers, tokens
<1>5. ASSUME NEW t \in told, ExecuteCritical(t) PROVE TokenInv'
  BY <1>5, TokenFrame DEF ExecuteCritical, AnswersAtOnce, Answers, tokens
<1>6. ASSUME NEW t \in told, NEW kind \in Kind, ExecuteBegin(t, kind) PROVE TokenInv'
  <2>1. /\ space # NoSpace /\ space.token = t /\ pc' = "fresh" /\ cur'.token = t
        /\ dispatches' = dispatches /\ space' = space /\ issued' = issued
    BY <1>6 DEF ExecuteBegin, Valid, Begin, tokens
  <2>. QED
    BY <2>1 DEF TokenInv
<1>7. ASSUME NEW kind \in Native, ActionBegin(kind) PROVE TokenInv'
  <2>1. PICK win \in Window : Store(win, TRUE, ctl') /\ Begin("action", issued + 1, kind, win, TRUE)
    BY <1>7 DEF ActionBegin
  <2>2. pc' = "fresh" /\ cur'.token = issued + 1 /\ dispatches' = dispatches
    BY <2>1 DEF Begin
  <2>. QED
    BY <2>1, <2>2, TokenStored
<1>8. CASE ActionRefused
  <2>1. PICK win \in Window, c \in Control :
           /\ Store(win, TRUE, c)
           /\ AnswersAtOnce(IF Unique(c) THEN Encoded("not_sent") ELSE Error)
    BY <1>8 DEF ActionRefused
  <2>2. pc' = "idle" /\ dispatches' = dispatches
    BY <2>1 DEF AnswersAtOnce, Answers
  <2>. QED
    BY <2>1, <2>2, TokenStored
<1>9. CASE ActionFails
  BY <1>9, TokenFrame DEF ActionFails, StoreFails, AnswersAtOnce, Answers, tokens
<1>10. CASE CallStep
  <2>1. ASSUME pc # "idle", NEW status \in Status, NEW dispatch \in Dispatch, NEW verification,
               Outcome(status, dispatch, verification)
        PROVE  pc' \in {"idle", "post"}
    BY <2>1, OutcomeFact
  <2>2. pc # "idle" /\ NeedsObservation => pc' \in {"idle", "post"}
    BY <2>1 DEF NeedsObservation, ErrorDispatch, Dispatch, Status
  <2>3. pc \notin {"idle", "fresh"} => space = NoSpace
    BY DEF TokenInv
  <2>4. cur = NoCall \/ (cur.dispatch \in Dispatch /\ cur.token \in 1 .. MaxObs)
    BY DEF TypeOK, Call
  <2>5. CASE FreshRejected
    BY <2>5, TokenFrame DEF FreshRejected, Answers, tokens, history
  <2>6. CASE FreshSatisfied
    <3>1. pc' \in {"idle", "post"}
      BY <2>1, <2>6 DEF FreshSatisfied, Dispatch, Status
    <3>. QED
      BY <2>6, <3>1, TokenFrame DEF FreshSatisfied, tokens, history
  <2>7. CASE FreshAccepted
    <3>1. cur'.token = cur.token
      BY <2>7, <2>4 DEF FreshAccepted, TypeOK, Call
    <3>2. dispatches[cur.token] = 0
      BY <2>7 DEF FreshAccepted, TokenInv
    <3>. QED
      BY <2>7, <3>1, <3>2 DEF FreshAccepted, ConsumeToken, TokenInv, tokens, history
  <2>8. CASE AdapterFails
    <3>1. pc' \in {"idle", "post"}
      BY <2>2, <2>8 DEF AdapterFails
    <3>. QED
      BY <2>3, <2>8, <3>1, TokenFrame DEF AdapterFails, tokens, history
  <2>9. CASE AdapterRefuses
    BY <2>9, TokenFrame DEF AdapterRefuses, Answers, tokens, history
  <2>10. CASE AdapterSatisfied
    BY <2>10, TokenFrame DEF AdapterSatisfied, Receipt, tokens, history
  <2>11. CASE AdapterReady
    <3>1. /\ space' = NoSpace /\ issued' = issued /\ pc' \in {"press", "toggle"}
          /\ dispatches' = [dispatches EXCEPT ![cur.token] = @ + 1]
      BY <2>3, <2>11 DEF AdapterReady, tokens
    <3>2. cur.token \in 1 .. issued /\ dispatches[cur.token] = 0
      BY <2>11, SpaceAssumption DEF AdapterReady, TokenInv, TypeOK, Call
    <3>3. \A t \in 1 .. MaxObs : dispatches'[t] = IF t = cur.token THEN 1 ELSE dispatches[t]
      BY <3>1, <3>2 DEF TypeOK
    <3>. QED
      BY <3>1, <3>2, <3>3 DEF TokenInv, TypeOK
  <2>12. CASE Press
    <3>1. space' = NoSpace /\ pc' \in {"idle", "post", "settle"}
      BY <2>2, <2>3, <2>12 DEF Press, Receipt
    <3>. QED
      BY <2>12, <3>1, TokenFrame DEF Press, tokens
  <2>13. CASE PressFails
    <3>1. pc' \in {"idle", "post"}
      BY <2>2, <2>13 DEF PressFails
    <3>. QED
      BY <2>3, <2>13, <3>1, TokenFrame DEF PressFails, tokens, history
  <2>14. CASE Toggle
    <3>1. space' = NoSpace /\ pc' \in {"idle", "post", "settle", "flip"}
      BY <2>2, <2>3, <2>14 DEF Toggle, Receipt
    <3>. QED
      BY <2>14, <3>1, TokenFrame DEF Toggle, tokens, history
  <2>15. CASE Flip
    <3>1. space' = NoSpace /\ pc' \in {"idle", "post", "toggle"}
      BY <2>2, <2>3, <2>15 DEF Flip
    <3>. QED
      BY <2>15, <3>1, TokenFrame DEF Flip, tokens
  <2>16. CASE Settle
    <3>1. cur.dispatch \in Dispatch
      BY <2>16 DEF Settle, TypeOK, Call
    <3>2. pc' \in {"idle", "post", "settle"}
      BY <2>1, <2>16, <3>1 DEF Settle, Status
    <3>. QED
      BY <2>3, <2>16, <3>2, TokenFrame DEF Settle, tokens, history
  <2>17. CASE SettleFails
    <3>1. cur.dispatch \in Dispatch
      BY <2>17 DEF SettleFails, TypeOK, Call
    <3>2. pc' \in {"idle", "post"}
      BY <2>1, <2>17, <3>1 DEF SettleFails, Status
    <3>. QED
      BY <2>3, <2>17, <3>2, TokenFrame DEF SettleFails, tokens, history
  <2>18. CASE Postcondition
    BY <2>18, TokenFrame DEF Postcondition, Answers, tokens, history
  <2>. QED
    BY <1>10, <2>5, <2>6, <2>7, <2>8, <2>9, <2>10, <2>11, <2>12, <2>13, <2>14, <2>15, <2>16,
       <2>17, <2>18 DEF CallStep
<1>11. CASE UiChanges
  BY <1>11 DEF UiChanges, TokenInv, tokens
<1>12. CASE Expire
  <2>1. space' # NoSpace /\ space'.token = space.token
    BY <1>12, SpaceAssumption DEF Expire, TypeOK, Space
  <2>. QED
    BY <1>12, <2>1 DEF Expire, TokenInv, tokens, history
<1>13. CASE UNCHANGED vars
  BY <1>13 DEF vars, TokenInv
<1>. QED
  BY <1>1, <1>2, <1>3, <1>4, <1>5, <1>6, <1>7, <1>8, <1>9, <1>10, <1>11, <1>12, <1>13
     DEF Next, ClientCall, Execute

\* An observation token is good for at most one native dispatch, however calls,
\* failures, expiry and the changing desktop interleave.
THEOREM OneDispatch == Spec => []OneDispatchPerObservation
<1>1. Init => TokenInv
  <2>. SUFFICES ASSUME Init PROVE TokenInv
    OBVIOUS
  <2>1. \A t \in 1 .. MaxObs : dispatches[t] = 0
    BY DEF Init
  <2>. QED
    BY <2>1 DEF Init, TokenInv
<1>2. TokenInv => OneDispatchPerObservation
  BY DEF TokenInv, OneDispatchPerObservation
<1>. QED
  BY <1>1, <1>2, TokenStep, TypeCorrect, PTL DEF Spec
-----------------------------------------------------------------------------
(* What may be retried has not been sent *)

\* While a call is under way nothing has been answered; nothing is sent before the
\* native call; and a receipt that says so is never one of a call that sent input.
RetryInv ==
    /\ pc # "idle" => ~Retryable(reply)
    /\ pc \in {"fresh", "adapter", "press"} => ~touched
    /\ pc \in {"settle", "post"} /\ cur.dispatch = "not_sent" => ~touched
    /\ RetryableMeansNotSent

\* A call that ends at once has not touched the desktop.
LEMMA RetryAtOnce ==
    ASSUME NEW answer, AnswersAtOnce(answer)
    PROVE  RetryInv'
  BY DEF AnswersAtOnce, Answers, RetryInv, RetryableMeansNotSent

LEMMA RetryBegin ==
    ASSUME NEW via, NEW token, NEW kind, NEW win, NEW bound, Begin(via, token, kind, win, bound)
    PROVE  RetryInv'
  BY DEF Begin, Nothing, Retryable, RetryInv, RetryableMeansNotSent

\* An outcome that is not to be retried, or comes before anything was sent.
LEMMA RetryOutcome ==
    ASSUME TypeOK, RetryInv, pc # "idle",
           NEW status \in Status, NEW dispatch \in Dispatch, NEW verification,
           Outcome(status, dispatch, verification),
           touched' \in BOOLEAN, dispatch = "not_sent" => ~touched'
    PROVE  RetryInv'
<1>1. CASE /\ pc' = "idle" /\ reply'.form # "error"
           /\ reply'.dispatch \in {dispatch, "sent", "unknown"}
  BY <1>1 DEF RetryInv, RetryableMeansNotSent, Retryable
<1>2. CASE pc' = "post" /\ reply' = reply /\ cur'.dispatch = dispatch
  BY <1>2 DEF RetryInv, RetryableMeansNotSent, Retryable
<1>. QED
  BY <1>1, <1>2, OutcomeFact

LEMMA RetryUnknown ==
    ASSUME TypeOK, RetryInv, pc # "idle", NeedsObservation, touched' \in BOOLEAN
    PROVE  RetryInv'
  BY RetryOutcome DEF NeedsObservation, ErrorDispatch, Dispatch, Status

LEMMA RetryStep == TypeOK /\ RetryInv /\ [Next]_vars => RetryInv'
<1>. SUFFICES ASSUME TypeOK, RetryInv, [Next]_vars PROVE RetryInv'
  OBVIOUS
<1>1. CASE \/ Observe \/ Invalidate \/ ActionRefused \/ ActionFails
           \/ \E t \in told : \/ ExecuteCritical(t)
                             \/ \E kind \in Kind : ExecuteRejected(t, kind) \/ ExecuteControl(t, kind)
  BY <1>1, RetryAtOnce
     DEF Observe, Invalidate, ActionRefused, ActionFails, ExecuteCritical, ExecuteRejected, ExecuteControl
<1>2. ASSUME NEW t \in told, NEW kind \in Kind, ExecuteBegin(t, kind) PROVE RetryInv'
  BY <1>2, RetryBegin DEF ExecuteBegin
<1>3. ASSUME NEW kind \in Native, ActionBegin(kind) PROVE RetryInv'
  BY <1>3, RetryBegin DEF ActionBegin
<1>4. CASE CallStep
  <2>. touched \in BOOLEAN
    BY DEF TypeOK
  <2>1. CASE FreshRejected
    BY <2>1 DEF FreshRejected, Answers, history, RetryInv, RetryableMeansNotSent
  <2>2. CASE FreshSatisfied
    <3>1. ~touched' /\ touched' \in BOOLEAN
      BY <2>2 DEF FreshSatisfied, history, RetryInv
    <3>. QED
      BY <2>2, <3>1, RetryOutcome DEF FreshSatisfied, Dispatch, Status
  <2>3. CASE FreshAccepted
    BY <2>3 DEF FreshAccepted, history, RetryInv, RetryableMeansNotSent
  <2>4. CASE AdapterFails
    BY <2>4, RetryUnknown DEF AdapterFails, history
  <2>5. CASE AdapterRefuses
    BY <2>5 DEF AdapterRefuses, Answers, history, RetryInv, RetryableMeansNotSent
  <2>6. CASE AdapterSatisfied
    BY <2>6 DEF AdapterSatisfied, Receipt, history, RetryInv, RetryableMeansNotSent
  <2>7. CASE AdapterReady
    BY <2>7 DEF AdapterReady, RetryInv, RetryableMeansNotSent
  <2>8. ASSUME Receipt("sent"), pc # "idle" PROVE RetryInv'
    <3>1. cur'.dispatch = "sent" /\ pc' = "settle" /\ reply' = reply
      BY <2>8 DEF Receipt, TypeOK, Call
    <3>. QED
      BY <2>8, <3>1 DEF RetryInv, RetryableMeansNotSent, Retryable
  <2>9. CASE Press
    BY <2>8, <2>9, RetryUnknown DEF Press
  <2>10. CASE PressFails
    BY <2>10, RetryUnknown DEF PressFails, history
  <2>11. CASE Toggle
    <3>1. CASE pc' = "flip" /\ reply' = reply
      BY <2>11, <3>1 DEF Toggle, history, RetryInv, RetryableMeansNotSent, Retryable
    <3>2. pc # "idle" /\ touched' \in BOOLEAN
      BY <2>11 DEF Toggle, history
    <3>. QED
      BY <2>8, <2>11, <3>1, <3>2, RetryUnknown DEF Toggle
  <2>12. CASE Flip
    <3>1. pc # "idle" /\ touched' \in BOOLEAN
      BY <2>12 DEF Flip
    <3>2. CASE pc' = "toggle" /\ reply' = reply
      BY <2>12, <3>2 DEF Flip, RetryInv, RetryableMeansNotSent, Retryable
    <3>. QED
      BY <2>12, <3>1, <3>2, RetryUnknown DEF Flip
  <2>13. CASE Settle \/ SettleFails
    <3>1. /\ pc = "settle" /\ cur.dispatch \in Dispatch /\ touched' = touched
      BY <2>13 DEF Settle, SettleFails, history, TypeOK, Call
    <3>2. cur.dispatch = "not_sent" => ~touched'
      BY <3>1 DEF RetryInv
    <3>3. CASE UNCHANGED <<pc, cur, reply>>
      BY <3>1, <3>3 DEF RetryInv, RetryableMeansNotSent
    <3>4. ASSUME NEW status \in Status, NEW verification, Outcome(status, cur.dispatch, verification)
          PROVE  RetryInv'
      BY <3>1, <3>2, <3>4, RetryOutcome
    <3>. QED
      BY <2>13, <3>3, <3>4 DEF Settle, SettleFails, Status
  <2>14. CASE Postcondition
    <3>1. pc' = "idle" /\ touched' = touched /\ (cur.dispatch = "not_sent" => ~touched)
      BY <2>14 DEF Postcondition, Answers, history, RetryInv
    <3>2. reply'.form # "error" /\ reply'.dispatch = cur.dispatch
      BY <2>14 DEF Postcondition, Answers, Ok, Encoded
    <3>. QED
      BY <3>1, <3>2 DEF RetryInv, RetryableMeansNotSent, Retryable
  <2>. QED
    BY <1>4, <2>1, <2>2, <2>3, <2>4, <2>5, <2>6, <2>7, <2>9, <2>10, <2>11, <2>12, <2>13, <2>14
       DEF CallStep
<1>5. CASE UiChanges \/ Expire
  BY <1>5 DEF UiChanges, Expire, history, RetryInv, RetryableMeansNotSent
<1>6. CASE UNCHANGED vars
  BY <1>6 DEF vars, RetryInv, RetryableMeansNotSent
<1>. QED
  BY <1>1, <1>2, <1>3, <1>4, <1>5, <1>6 DEF Next, ClientCall, Execute

\* No answer that invites a retry is given once native input has been sent,
\* whatever failed afterwards.
THEOREM RetryIsSafe == Spec => []RetryableMeansNotSent
<1>1. Init => RetryInv
  BY DEF Init, Nothing, Retryable, RetryInv, RetryableMeansNotSent
<1>2. RetryInv => RetryableMeansNotSent
  BY DEF RetryInv
<1>. QED
  BY <1>1, <1>2, RetryStep, TypeCorrect, PTL DEF Spec

-----------------------------------------------------------------------------
(* What is reported as executed has happened *)

\* From the read right before dispatch on, an effect that is there has been seen
\* to be there; and while a call is under way nothing is answered.
Dispatching == {"adapter", "press", "toggle", "flip", "settle"}
WatchInv ==
    /\ pc \in Dispatching /\ Effect(ctl) => happened
    /\ pc # "idle" => reply = Nothing

\* A step that goes on with the same candidate keeps it, if it watches the control
\* or leaves it alone.
LEMMA WatchKept ==
    ASSUME TypeOK, WatchInv, pc \in Dispatching, reply' = reply,
           cur'.kind = cur.kind, cur'.before = cur.before,
           Watch \/ UNCHANGED <<ctl, happened>>
    PROVE  WatchInv'
<1>1. reply' = Nothing
  BY DEF WatchInv, Dispatching
<1>2. Effect(ctl)' <=> (IF cur.kind = "check" THEN ctl' = "on" ELSE ctl' # cur.before)
  BY DEF Effect
<1>3. CASE Watch
  <2>1. Effect(ctl') <=> (IF cur.kind = "check" THEN ctl' = "on" ELSE ctl' # cur.before)
    BY DEF Effect
  <2>2. happened' = (happened \/ (pc # "fresh" /\ Effect(ctl')))
    BY <1>3 DEF Watch
  <2>3. Effect(ctl)' => happened'
    BY <1>2, <2>1, <2>2 DEF Dispatching
  <2>. QED
    BY <1>1, <2>3 DEF WatchInv
<1>4. CASE UNCHANGED <<ctl, happened>>
  BY <1>1, <1>2, <1>4 DEF WatchInv, Effect
<1>. QED
  BY <1>3, <1>4

\* An outcome leaves nothing to watch.
LEMMA WatchOutcome ==
    ASSUME TypeOK, WatchInv, pc # "idle",
           NEW status \in Status, NEW dispatch \in Dispatch, NEW verification,
           Outcome(status, dispatch, verification)
    PROVE  WatchInv'
BY OutcomeFact DEF WatchInv, Dispatching

LEMMA WatchUnknown == ASSUME TypeOK, WatchInv, pc # "idle", NeedsObservation PROVE WatchInv'
BY WatchOutcome DEF NeedsObservation, ErrorDispatch, Dispatch, Status

LEMMA WatchReceipt ==
    ASSUME TypeOK, WatchInv, pc \in Dispatching, NEW dispatch \in Dispatch, Receipt(dispatch),
           Watch \/ UNCHANGED <<ctl, happened>>
    PROVE  WatchInv'
<1>1. cur \in Call
  BY DEF TypeOK, Dispatching
<1>2. cur'.kind = cur.kind /\ cur'.before = cur.before /\ reply' = reply
  BY <1>1 DEF Receipt, Call
<1>. QED
  BY <1>2, WatchKept

LEMMA WatchStep == TypeOK /\ WatchInv /\ [Next]_vars => WatchInv'
<1>. SUFFICES ASSUME TypeOK, WatchInv, [Next]_vars PROVE WatchInv'
  OBVIOUS
<1>1. CASE \/ Observe \/ Invalidate \/ ActionRefused \/ ActionFails
           \/ \E t \in told : \/ ExecuteCritical(t)
                             \/ \E kind \in Kind : ExecuteRejected(t, kind) \/ ExecuteControl(t, kind)
  <2>1. pc' = "idle"
    BY <1>1 DEF Observe, Invalidate, ActionRefused, ActionFails, ExecuteCritical, ExecuteRejected,
       ExecuteControl, AnswersAtOnce, Answers
  <2>. QED
    BY <2>1 DEF WatchInv, Dispatching
<1>2. CASE \/ \E t \in told, kind \in Kind : ExecuteBegin(t, kind)
           \/ \E kind \in Native : ActionBegin(kind)
  <2>1. pc' = "fresh" /\ reply' = Nothing
    BY <1>2 DEF ExecuteBegin, ActionBegin, Begin
  <2>. QED
    BY <2>1 DEF WatchInv, Dispatching
<1>3. CASE CallStep
  <2>1. CASE FreshRejected \/ AdapterRefuses \/ Postcondition
    <3>1. pc' = "idle"
      BY <2>1 DEF FreshRejected, AdapterRefuses, Postcondition, Answers
    <3>. QED
      BY <3>1 DEF WatchInv, Dispatching
  <2>2. CASE FreshSatisfied
    BY <2>2, WatchOutcome DEF FreshSatisfied, Dispatch, Status
  <2>3. CASE FreshAccepted
    <3>1. cur \in Call /\ cur'.kind = cur.kind /\ cur'.before = ctl /\ ctl' = ctl /\ reply' = Nothing
      BY <2>3 DEF FreshAccepted, TypeOK, Call, WatchInv, desktop
    <3>2. ~Effect(ctl)'
      BY <2>3, <3>1 DEF FreshAccepted, Effect
    <3>. QED
      BY <3>1, <3>2 DEF WatchInv
  <2>4. CASE AdapterFails \/ PressFails
    BY <2>4, WatchUnknown DEF AdapterFails, PressFails
  <2>5. CASE AdapterSatisfied
    BY <2>5, WatchReceipt DEF AdapterSatisfied, Dispatch, Dispatching, desktop, history
  <2>6. CASE AdapterReady
    BY <2>6, WatchKept DEF AdapterReady, Dispatching
  <2>7. CASE Press
    BY <2>7, WatchReceipt, WatchUnknown DEF Press, Dispatch, Dispatching
  <2>8. CASE Toggle
    <3>1. pc \in Dispatching /\ UNCHANGED <<ctl, happened>>
      BY <2>8 DEF Toggle, Dispatching, desktop, history
    <3>2. CASE UNCHANGED <<cur, reply>>
      BY <3>1, <3>2, WatchKept
    <3>. QED
      BY <2>8, <3>1, <3>2, WatchReceipt, WatchUnknown DEF Toggle, Dispatch, Dispatching
  <2>9. CASE Flip
    <3>1. pc \in Dispatching /\ Watch
      BY <2>9 DEF Flip, Dispatching
    <3>2. CASE UNCHANGED <<cur, reply>>
      BY <3>1, <3>2, WatchKept
    <3>. QED
      BY <2>9, <3>1, <3>2, WatchUnknown DEF Flip, Dispatching
  <2>10. CASE Settle \/ SettleFails
    <3>1. pc = "settle" /\ cur.dispatch \in Dispatch /\ UNCHANGED <<ctl, happened>>
      BY <2>10 DEF Settle, SettleFails, history, desktop, TypeOK, Call
    <3>2. CASE UNCHANGED <<cur, reply>>
      BY <3>1, <3>2, WatchKept DEF Dispatching
    <3>3. ASSUME NEW status \in Status, NEW verification, Outcome(status, cur.dispatch, verification)
          PROVE  WatchInv'
      BY <3>1, <3>3, WatchOutcome
    <3>. QED
      BY <2>10, <3>2, <3>3 DEF Settle, SettleFails, Status
  <2>. QED
    BY <1>3, <2>1, <2>2, <2>3, <2>4, <2>5, <2>6, <2>7, <2>8, <2>9, <2>10 DEF CallStep
<1>4. CASE UiChanges
  <2>1. CASE pc \in Dispatching
    BY <1>4, <2>1, WatchKept DEF UiChanges
  <2>2. CASE pc \notin Dispatching
    BY <1>4, <2>2 DEF UiChanges, WatchInv
  <2>. QED
    BY <2>1, <2>2
<1>5. CASE Expire \/ UNCHANGED vars
  BY <1>5 DEF Expire, vars, desktop, history, loop, WatchInv, Dispatching, Effect
<1>. QED
  BY <1>1, <1>2, <1>3, <1>4, <1>5 DEF Next, ClientCall, Execute

\* Only the settle loop reports what it has read, and only of the observed window.
LEMMA ExecutedByEvidence ==
    ASSUME TypeOK, WatchInv, [Next]_vars, pc = "settle", reply'.status = "executed"
    PROVE  Effect(ctl)
<1>1. reply' # reply
  BY DEF WatchInv, Nothing
<1>2. Settle \/ SettleFails
  <2>1. pc # "idle" /\ pc = "settle"
    OBVIOUS
  <2>. QED
    BY <1>1, <2>1 DEF Next, ClientCall, Execute, Observe, Invalidate, ActionRefused, ActionFails, ExecuteCritical,
       ExecuteRejected, ExecuteControl, AnswersAtOnce, ExecuteBegin, ActionBegin, CallStep, FreshRejected,
       FreshSatisfied, FreshAccepted, AdapterFails, AdapterRefuses, AdapterSatisfied, AdapterReady, Press,
       PressFails, Toggle, Flip, Postcondition, UiChanges, Expire, vars
<1>3. ASSUME NEW dispatch, NEW verification, Outcome("needs_observation", dispatch, verification)
      PROVE  FALSE
  <2>1. \A completion : Unverified(dispatch, verification, completion).status # "executed"
    BY DEF Unverified, Ok, Encoded
  <2>2. Ok("needs_observation", dispatch).status # "executed"
    BY DEF Ok
  <2>. QED
    BY <1>1, <1>3, <2>1, <2>2 DEF Outcome, Answers
<1>4. ~SettleFails
  BY <1>3 DEF SettleFails
<1>5. PICK conclusive \in BOOLEAN, c \in Control :
         /\ Looks = cur.win => c = ctl
         /\ LET verification == Verify(Looks, c, conclusive)
            IN  \/ UNCHANGED reply
                \/ Outcome(IF verification = "achieved" THEN "executed"
                           ELSE "needs_observation", cur.dispatch, verification)
  BY <1>2, <1>4 DEF Settle
<1>6. Verify(Looks, c, conclusive) = "achieved"
  BY <1>1, <1>3, <1>5
<1>7. Looks = cur.win /\ Effect(c)
  BY <1>6 DEF Verify, Effect
<1>. QED
  BY <1>5, <1>7

\* An action is reported as executed, on the evidence of the read-back, only when
\* its effect has been there since the read right before dispatch, in the window
\* that was observed (ConfirmedMeansHappened).
THEOREM ExecutedHasHappened == Spec => ConfirmedMeansHappened
<1>1. Init => WatchInv
  BY DEF Init, WatchInv, Dispatching
<1>2. TypeOK /\ WatchInv /\ [Next]_vars => (pc = "settle" /\ reply'.status = "executed" => happened)
  BY ExecutedByEvidence DEF WatchInv, Dispatching
<1>. QED
  BY <1>1, <1>2, WatchStep, TypeCorrect, PTL DEF Spec, ConfirmedMeansHappened
=============================================================================
