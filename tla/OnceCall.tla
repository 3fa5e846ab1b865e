------------------------------ MODULE OnceCall ------------------------------
(***************************************************************************)
(* What a browser tool call promises, whatever happens to the browser: one *)
(* call at a time; a write reaches the page at most once, a read at most   *)
(* twice; and success is only answered for what was sent.                  *)
(***************************************************************************)
EXTENDS Naturals

VARIABLES
    kind,       \* "none" between calls, else "read" or "write"
    sent,       \* how often the operation of the call has been sent
    answer      \* of the last call: "none", "ok", "error"

onceVars == <<kind, sent, answer>>

Most(k) == IF k = "write" THEN 1 ELSE 2

OnceInit == kind = "none" /\ sent = 0 /\ answer = "none"

Begin(k) ==
    /\ kind = "none"
    /\ kind' = k /\ sent' = 0 /\ answer' = "none"

Send ==
    /\ kind # "none" /\ sent < Most(kind)
    /\ sent' = sent + 1
    /\ UNCHANGED <<kind, answer>>

\* A call may also fail before it has begun, when no browser can be had.
Answer(a) ==
    /\ a = "ok" => kind # "none" /\ sent > 0
    /\ answer' = a
    /\ kind' = "none" /\ sent' = 0

OnceNext ==
    \/ \E k \in {"read", "write"} : Begin(k)
    \/ Send
    \/ \E a \in {"ok", "error"} : Answer(a)

OnceSpec == OnceInit /\ [][OnceNext]_onceVars
=============================================================================
