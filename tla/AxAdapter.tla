------------------------------ MODULE AxAdapter ------------------------------
(***************************************************************************)
(* The macOS Accessibility adapter (crates/desktop-api/src/semantic/       *)
(* macos_accessibility.rs and its native.rs): one worker thread owns the   *)
(* native references, callers send it requests through a channel that      *)
(* holds one.  A request is good for five seconds, its caller waits six,   *)
(* and may be dropped at any moment by a timeout further out; what the     *)
(* worker does for it is only known to be unwanted where it looks.         *)
(*                                                                         *)
(* Windows are native references: a closed one does not come back.  Two    *)
(* windows of one key have the same persisted identity.  A window's        *)
(* controls are told apart only by how many fit the locator.               *)
(***************************************************************************)
EXTENDS Naturals, Sequences, FiniteSets

CONSTANTS
    AxWindow, Key,      \* windows, and the identities their titles give them
    Scopes,             \* what is observed: [handle, region], a window or NoWindow each
    NoWindow,
    MaxRetained,        \* windows a session retains (16)
    MaxRounds,          \* observations of a replay (32)
    MaxRequests,        \* bound: requests sent
    MaxAxEvents         \* bound: what the desktop does

ASSUME AxAssumption ==
    /\ NoWindow \notin AxWindow /\ Key # {}
    /\ Scopes \subseteq [handle : AxWindow \cup {NoWindow}, region : AxWindow \cup {NoWindow}]
    /\ {MaxRetained, MaxRounds} \subseteq Nat \ {0} /\ {MaxRequests, MaxAxEvents} \subseteq Nat

VARIABLES
    axWindows, front,   \* the windows there are; the one in the foreground
    keys,               \* of each window: its persisted identity
    fits,               \* of each window: how many of its controls fit the locator
    retained,           \* Session.windows: [token, window]
    nextToken,
    regions,            \* Session.regions, by their window
    observed,           \* State: [scope, token, unique, count, key, window], or NoWindow
    offered,            \* State.actions: [scope, token, unique, key, window]
    client,             \* the call under way: [op, rounds]
    inbox, request,     \* the request in the channel, the one the worker is at
    stage,              \* of the worker
    target,             \* the window an action is about to be done in
    acted,              \* history: what the last request did, [on, meant, gone, expired]
    sent, axEvents

axWorld == <<axWindows, front, keys, fits, axEvents>>
session == <<retained, nextToken, regions>>
axState == <<observed, offered>>
axVars == <<axWorld, session, axState, client, inbox, request, stage, target, acted, sent>>

\* A candidate or an observation is of a window, which it knows by its token only.
NoCall == [op |-> "none", rounds |-> 0]
NoAction == [on |-> NoWindow, meant |-> NoWindow, gone |-> "no", expired |-> "no"]
NoRequest == [op |-> "none"]
WindowOf(k) == {retained[i].window : i \in {j \in DOMAIN retained : retained[j].token = k}}

\* is_closed, and the request's own deadline: "no", or whether it came about
\* before the worker was about to act.
Unwanted(r) == r.gone # "no"
Expired(r) == r.expired # "no"

-----------------------------------------------------------------------------
(* Callers. *)

\* try_send: refused while a request waits.
Send(op, c) ==
    /\ sent < MaxRequests /\ sent' = sent + 1
    /\ inbox = NoRequest
    /\ inbox' = [op |-> op, scope |-> c.scope, bound |-> c, gone |-> "no", expired |-> "no"]

CallObserve(op, scope) ==
    /\ client = NoCall
    /\ op = "locate" => scope.region = NoWindow
    /\ Send(op, [scope |-> scope])
    /\ client' = [op |-> op, rounds |-> MaxRounds]
    /\ UNCHANGED <<axWorld, session, axState, request, stage, target, acted>>

\* bind
Bind(unique) == [scope |-> observed.scope, token |-> observed.token, unique |-> unique,
                 key |-> observed.key, window |-> observed.window]

\* build: what fits can be acted on, in the window the observation was made of.
Build ==
    /\ client = NoCall /\ observed # NoWindow
    /\ offered' = IF observed.count = 0 THEN {}
                  ELSE {Bind(FALSE)}
    /\ UNCHANGED <<axWorld, session, observed, client, inbox, request, stage, target, acted, sent>>

\* rebuild_semantic_candidate_with_input: a saved locator, in a window with no double.
Rebuild ==
    /\ client = NoCall /\ observed # NoWindow /\ observed.unique /\ observed.count = 1
    /\ offered' = offered \cup {Bind(TRUE)}
    /\ UNCHANGED <<axWorld, session, observed, client, inbox, request, stage, target, acted, sent>>

\* execute: check_window_binding.
CallExecute(c) ==
    /\ client = NoCall /\ observed # NoWindow /\ c.token = observed.token
    /\ Send("execute", c)
    /\ client' = [op |-> "execute", rounds |-> 0]
    /\ UNCHANGED <<axWorld, session, axState, request, stage, target, acted>>

\* The reply comes too late or the caller's future is dropped.
When(r) == IF r = request /\ stage = "dispatch" THEN "acting" ELSE "before"
Drop(r) == IF r.op # "none" /\ r.gone = "no" THEN [r EXCEPT !.gone = When(r)] ELSE r
GiveUp ==
    /\ client # NoCall
    /\ client' = NoCall
    /\ inbox' = Drop(inbox) /\ request' = Drop(request)
    /\ UNCHANGED <<axWorld, session, axState, stage, target, acted, sent>>

\* The caller waits a second longer than the request is good for.
TimesOut == \E r \in {inbox, request} : r.op # "none" /\ ~Unwanted(r) /\ Expired(r) /\ GiveUp

Lapse(r) == IF r.op # "none" /\ r.expired = "no" THEN [r EXCEPT !.expired = When(r)] ELSE r
DeadlineLapses ==
    /\ \/ inbox.op # "none" /\ ~Expired(inbox) /\ inbox' = Lapse(inbox) /\ UNCHANGED request
       \/ request.op # "none" /\ ~Expired(request) /\ request' = Lapse(request) /\ UNCHANGED inbox
    /\ UNCHANGED <<axWorld, session, axState, client, stage, target, acted, sent>>

-----------------------------------------------------------------------------
(* The worker. *)

Idles == request' = NoRequest /\ stage' = "idle" /\ target' = NoWindow

\* The caller, if it still waits, has its answer.
Reply(s) ==
    /\ Idles
    /\ client' = IF Unwanted(request) THEN client ELSE NoCall
    /\ observed' = IF Unwanted(request) THEN observed ELSE s
ReplyError == Reply(observed)

\* Mutant: a request nobody waits for ends the worker.
ServesWanted(r) == ~Unwanted(r)

Serves(r) == TRUE

Take ==
    /\ stage = "idle" /\ inbox.op # "none"
    /\ Serves(inbox)
    /\ inbox' = NoRequest
    /\ IF Unwanted(inbox) THEN UNCHANGED <<request, stage>> ELSE request' = inbox /\ stage' = "capture"
    /\ acted' = NoAction
    /\ UNCHANGED <<axWorld, session, axState, client, target, sent>>

\* target_elements: the bound window, or the one in the foreground.
TargetOf(s) == IF s.handle = NoWindow THEN front ELSE s.handle

\* window_unique: no other window of the application has the persisted identity.
Unique(w) == \A v \in axWindows \ {w} : keys[v] # keys[w]

\* capture_native reaches the root it is to read; the region's control may be gone.
Reaches(s, w) ==
    /\ w \in axWindows
    /\ s.region # NoWindow => s.region \in regions /\ s.region = w

FreshToken == nextToken + 1

\* Mutant: nothing is dropped.
Untrimmed(all) == all

Trimmed(all) == IF Len(all) > MaxRetained THEN Tail(all) ELSE all

\* Session.capture: the window has or gets its token, the oldest of too many is
\* dropped, and so are all regions when they become too many.
Retain(w) ==
    /\ IF \E i \in DOMAIN retained : retained[i].window = w
       THEN UNCHANGED <<retained, nextToken>>
       ELSE /\ nextToken' = FreshToken
            /\ retained' = Trimmed(Append(retained, [token |-> FreshToken, window |-> w]))
    /\ regions' \in {regions \cup {w}, {w}}

TokenOf(w) == CHOOSE k \in 1 .. nextToken' : \E i \in DOMAIN retained' : retained'[i] = [token |-> k, window |-> w]

Snapshot(w) == [scope |-> request.scope, token |-> TokenOf(w), unique |-> Unique(w),
                count |-> fits[w], key |-> keys[w], window |-> w]

Captures(w) ==
    /\ stage = "capture" /\ ~Expired(request)
    /\ w = TargetOf(request.scope) /\ Reaches(request.scope, w)

Capture(w) ==
    /\ Captures(w) /\ request.op = "observe"
    /\ Retain(w)
    /\ Reply(Snapshot(w))
    /\ UNCHANGED <<axWorld, offered, inbox, acted, sent>>

\* One round of observe_locator_scoped.  The control is there, or a region that
\* holds it, or it may be further down a tree too large for one observation.
LocateRound(w) ==
    /\ Captures(w) /\ request.op = "locate"
    /\ Retain(w)
    /\ \/ Reply(Snapshot(w)) /\ UNCHANGED <<inbox, sent>>
       \/ /\ ~Unwanted(request) /\ Unique(w) /\ client.rounds > 1
          /\ Idles /\ observed' = Snapshot(w)
          /\ client' = [client EXCEPT !.rounds = @ - 1]
          /\ \E s \in {request.scope, [request.scope EXCEPT !.region = w]} :
                Send("locate", [scope |-> s])
    /\ UNCHANGED <<axWorld, offered, acted>>

CaptureFails ==
    /\ stage = "capture" /\ ReplyError
    /\ UNCHANGED <<axWorld, session, offered, inbox, acted, sent>>

\* Mutant: the window that is there now will do if it bears the same identity.
SameIdentity(c, w) == keys[w] = c.key

\* execute: the window is the one the token was given to.
SameElement(c, w) == w \in WindowOf(c.token)

\* execute, up to the first look at the deadline and the caller.
Recapture(w) ==
    /\ Captures(w) /\ request.op = "execute" /\ ~Unwanted(request)
    /\ keys[w] = request.bound.key /\ SameElement(request.bound, w)
    /\ request.bound.unique => Unique(w)
    /\ fits[w] = 1
    /\ stage' = "foreground" /\ target' = w
    /\ UNCHANGED <<axWorld, session, axState, client, inbox, request, acted, sent>>

\* An action that needs the foreground has the window raised, if it is bound and
\* the delivery allows it; most actions are for their element wherever it is.
Raised ==
    /\ stage = "foreground" /\ request.scope.handle \in axWindows
    /\ front' = request.scope.handle /\ stage' = "target"
    /\ UNCHANGED <<axWindows, keys, fits, axEvents, session, axState, client, inbox, request, target, acted, sent>>

InPlace ==
    /\ stage = "foreground" /\ stage' = "target"
    /\ UNCHANGED <<axWorld, session, axState, client, inbox, request, target, acted, sent>>

\* Mutant: only the request's own deadline is looked at before the action.
DeadlineOnly(r) == Expired(r)

GivenUp(r) == Expired(r) \/ Unwanted(r)

\* The bound window is looked up once more, and the second look.
Recheck ==
    /\ stage = "target"
    /\ request.scope.handle # NoWindow => request.scope.handle \in axWindows
    /\ ~GivenUp(request)
    /\ stage' = "dispatch"
    /\ UNCHANGED <<axWorld, session, axState, client, inbox, request, target, acted, sent>>

\* The action, on an element of the window; its window may just have closed.
Dispatch ==
    /\ stage = "dispatch"
    /\ acted' = [on |-> target, meant |-> request.bound.window, gone |-> request.gone,
                 expired |-> request.expired]
    /\ ReplyError
    /\ UNCHANGED <<axWorld, session, offered, inbox, sent>>

ExecuteFails ==
    /\ stage \in {"foreground", "target"} /\ ReplyError
    /\ UNCHANGED <<axWorld, session, offered, inbox, acted, sent>>

Worker ==
    \/ Take \/ CaptureFails \/ Raised \/ InPlace \/ Recheck \/ Dispatch \/ ExecuteFails
    \/ \E w \in AxWindow : Capture(w) \/ LocateRound(w) \/ Recapture(w)

-----------------------------------------------------------------------------
(* The desktop. *)
AxHappens ==
    /\ axEvents < MaxAxEvents /\ axEvents' = axEvents + 1
    /\ UNCHANGED <<session, axState, client, inbox, request, stage, target, acted, sent>>

WindowCloses(w) ==
    /\ w \in axWindows /\ AxHappens
    /\ axWindows' = axWindows \ {w}
    /\ front' = IF front = w THEN NoWindow ELSE front
    /\ UNCHANGED <<keys, fits>>

ComesToFront(w) == w \in axWindows \ {front} /\ AxHappens /\ front' = w /\ UNCHANGED <<axWindows, keys, fits>>

ControlsChange(w, n) == fits[w] # n /\ AxHappens /\ fits' = [fits EXCEPT ![w] = n] /\ UNCHANGED <<axWindows, front, keys>>

IsRenamed(w, k) == keys[w] # k /\ AxHappens /\ keys' = [keys EXCEPT ![w] = k] /\ UNCHANGED <<axWindows, front, fits>>

AxDesktop ==
    \/ \E w \in AxWindow : WindowCloses(w) \/ ComesToFront(w) \/ \E k \in Key : IsRenamed(w, k)
    \/ \E w \in AxWindow, n \in 0 .. 2 : ControlsChange(w, n)

AxInit ==
    /\ axWindows = AxWindow /\ front \in AxWindow /\ keys = [w \in AxWindow |-> CHOOSE k \in Key : TRUE]
    /\ fits = [w \in AxWindow |-> 1]
    /\ retained = <<>> /\ nextToken = 0 /\ regions = {}
    /\ observed = NoWindow /\ offered = {} /\ client = NoCall
    /\ inbox = NoRequest /\ request = NoRequest /\ stage = "idle"
    /\ target = NoWindow /\ acted = NoAction /\ sent = 0 /\ axEvents = 0

AxNext ==
    \/ \E op \in {"observe", "locate"}, s \in Scopes : CallObserve(op, s)
    \/ Build \/ Rebuild \/ \E c \in offered : CallExecute(c)
    \/ GiveUp \/ DeadlineLapses \/ Worker \/ AxDesktop

\* The worker's messages time out, so each of its steps ends.
AxFair == WF_axVars(Worker) /\ WF_axVars(DeadlineLapses) /\ WF_axVars(TimesOut)

AxSpec == AxInit /\ [][AxNext]_axVars /\ AxFair

-----------------------------------------------------------------------------
Anywhere == [handle : AxWindow \cup {NoWindow}, region : AxWindow \cup {NoWindow}]
Candidates == [scope : Anywhere, token : Nat, unique : BOOLEAN, key : Key, window : AxWindow]

AxTypeOK ==
    /\ axWindows \subseteq AxWindow /\ front \in axWindows \cup {NoWindow}
    /\ regions \subseteq AxWindow /\ Len(retained) <= MaxRetained
    /\ offered \subseteq Candidates
    /\ stage \in {"idle", "capture", "foreground", "target", "dispatch"}
    /\ stage = "idle" <=> request = NoRequest

\* An action is done in the window its candidate was made of, never in a window
\* that has the same title or came by an old token: not when the foreground has
\* changed hands, nor when the session has dropped the window (Session::capture
\* 644-659, check_window_binding, execute 1158-1162).
ActsOnItsWindow == acted.on = acted.meant

\* A request that was given up, or ran out, while it waited, was captured or had
\* its window raised is not carried out: only after the last look can the action
\* overtake its caller (native.rs 1181-1238).
NothingAfterGivingUp == {acted.gone, acted.expired} \subseteq {"no", "acting"}

\* The worker takes every request, whoever has stopped waiting for an earlier one:
\* the adapter is not busy forever (macos_accessibility.rs 608-646).
AxWorkerServes == inbox # NoRequest ~> inbox = NoRequest
=============================================================================
