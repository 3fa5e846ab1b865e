------------------------- MODULE DesktopLayerProofs -------------------------
(* Theorems about layers of the desktop tools.  What works beside the caller's   *)
(* thread: the macOS adapter, the native window service and the hint overlay;    *)
(* and how the tools find and watch what they are asked for: the target          *)
(* catalogue, the verification of an expected state and the listings that are    *)
(* paged through.  For any number of windows, applications, requests, callers,   *)
(* jobs, handles, hints, tokens, saved locators, queries and samples.            *)
EXTENDS AxAdapter, WindowService, Hud, DesktopTargets, DesktopVerify, Listings, FiniteSetTheorems,
        SequenceTheorems, WellFoundedInduction, TLAPS

-----------------------------------------------------------------------------
(* The session: a token is given to one window and never again. *)

Retentions == [token : Nat, window : AxWindow]

SessionInv ==
    /\ retained \in Seq(Retentions) /\ nextToken \in Nat
    /\ \A i \in 1 .. Len(retained) : retained[i].token \in 1 .. nextToken
    /\ \A i, j \in 1 .. Len(retained) :
          retained[i].token = retained[j].token => retained[i].window = retained[j].window

\* Token k was given to w: if it denotes a window at all, it is that one.
BoundTo(k, w) ==
    /\ k \in 1 .. nextToken
    /\ \A i \in 1 .. Len(retained) : retained[i].token = k => retained[i].window = w

\* What Retain(w) does to the list.
RetainMoves(w) ==
    \/ /\ UNCHANGED <<retained, nextToken>>
       /\ \E i \in 1 .. Len(retained) : retained[i].window = w
    \/ /\ nextToken' = nextToken + 1
       /\ retained' \in Seq(Retentions)
       /\ \E i \in 1 .. Len(retained') : retained'[i] = [token |-> nextToken + 1, window |-> w]
       /\ \A i \in 1 .. Len(retained') :
             \/ retained'[i] = [token |-> nextToken + 1, window |-> w]
             \/ \E j \in 1 .. Len(retained) : retained'[i] = retained[j]

LEMMA RetainMovesList == ASSUME SessionInv, NEW w \in AxWindow, Retain(w) PROVE RetainMoves(w)
<1>. DEFINE new == [token |-> nextToken + 1, window |-> w]
<1>. DEFINE all == Append(retained, new)
<1>1. CASE \E i \in DOMAIN retained : retained[i].window = w
  <2>1. DOMAIN retained = 1 .. Len(retained)
    BY DEF SessionInv
  <2>. QED
    BY <1>1, <2>1 DEF Retain, RetainMoves
<1>2. CASE ~(\E i \in DOMAIN retained : retained[i].window = w)
  <2>1. nextToken' = nextToken + 1 /\ retained' = Trimmed(all)
    BY <1>2 DEF Retain, FreshToken
  <2>2. new \in Retentions
    BY DEF SessionInv, Retentions
  <2>. HIDE DEF new
  <2>3. /\ all \in Seq(Retentions) /\ Len(all) = Len(retained) + 1 /\ Len(retained) \in Nat
        /\ \A i \in 1 .. Len(retained) : all[i] = retained[i]
        /\ all[Len(retained) + 1] = new
    BY <2>2 DEF SessionInv
  <2>. HIDE DEF all
  <2>4. \A i \in 1 .. Len(all) : all[i] = new \/ \E j \in 1 .. Len(retained) : all[i] = retained[j]
    <3>. SUFFICES ASSUME NEW i \in 1 .. Len(all)
                  PROVE  all[i] = new \/ \E j \in 1 .. Len(retained) : all[i] = retained[j]
      OBVIOUS
    <3>1. CASE i = Len(retained) + 1
      BY <2>3, <3>1
    <3>2. CASE i # Len(retained) + 1
      <4>1. i \in 1 .. Len(retained)
        BY <2>3, <3>2
      <4>. QED
        BY <2>3, <4>1
    <3>. QED
      BY <3>1, <3>2
  <2>5. CASE Len(all) > MaxRetained
    <3>1. MaxRetained \in Nat \ {0}
      BY AxAssumption
    <3>2. retained' = Tail(all) /\ all # <<>> /\ Len(all) >= 2
      BY <2>1, <2>3, <2>5, <3>1 DEF Trimmed
    <3>3. /\ Tail(all) \in Seq(Retentions) /\ Len(Tail(all)) = Len(all) - 1
          /\ \A i \in 1 .. Len(Tail(all)) : Tail(all)[i] = all[i + 1]
      BY <2>3, <3>2, HeadTailProperties
    <3>4. \A i \in 1 .. Len(retained') : i + 1 \in 1 .. Len(all) /\ retained'[i] = all[i + 1]
      BY <2>3, <3>2, <3>3
    <3>5. retained'[Len(retained)] = new /\ Len(retained) \in 1 .. Len(retained')
      BY <2>3, <3>2, <3>3, <3>4
    <3>. QED
      BY <2>1, <2>4, <3>2, <3>3, <3>4, <3>5 DEF RetainMoves, new
  <2>6. CASE ~(Len(all) > MaxRetained)
    <3>1. retained' = all
      BY <2>1, <2>6 DEF Trimmed
    <3>2. Len(retained) + 1 \in 1 .. Len(retained') /\ retained'[Len(retained) + 1] = new
      BY <2>3, <3>1
    <3>. QED
      BY <2>1, <2>3, <2>4, <3>1, <3>2 DEF RetainMoves, new
  <2>. QED
    BY <2>5, <2>6
<1>. QED
  BY <1>1, <1>2

LEMMA RetainKeepsSession == ASSUME SessionInv, NEW w \in AxWindow, RetainMoves(w) PROVE SessionInv'
<1>1. CASE UNCHANGED <<retained, nextToken>>
  BY <1>1 DEF SessionInv
<1>2. CASE /\ nextToken' = nextToken + 1
           /\ retained' \in Seq(Retentions)
           /\ \A i \in 1 .. Len(retained') :
                 \/ retained'[i] = [token |-> nextToken + 1, window |-> w]
                 \/ \E j \in 1 .. Len(retained) : retained'[i] = retained[j]
  <2>1. /\ nextToken \in Nat
        /\ \A j \in 1 .. Len(retained) : retained[j].token \in 1 .. nextToken /\ retained[j].token # nextToken + 1
    BY DEF SessionInv
  <2>2. \A i \in 1 .. Len(retained') : retained'[i].token \in 1 .. nextToken'
    BY <1>2, <2>1
  <2>3. ASSUME NEW i \in 1 .. Len(retained'), NEW j \in 1 .. Len(retained'),
               retained'[i].token = retained'[j].token
        PROVE  retained'[i].window = retained'[j].window
    BY <1>2, <2>1, <2>3 DEF SessionInv
  <2>. QED
    BY <1>2, <2>1, <2>2, <2>3 DEF SessionInv
<1>. QED
  BY <1>1, <1>2 DEF RetainMoves

LEMMA RetainKeepsBound ==
    ASSUME SessionInv, NEW w \in AxWindow, RetainMoves(w), NEW k, NEW v, BoundTo(k, v)
    PROVE  BoundTo(k, v)'
<1>1. CASE UNCHANGED <<retained, nextToken>>
  BY <1>1 DEF BoundTo
<1>2. CASE /\ nextToken' = nextToken + 1
           /\ \A i \in 1 .. Len(retained') :
                 \/ retained'[i] = [token |-> nextToken + 1, window |-> w]
                 \/ \E j \in 1 .. Len(retained) : retained'[i] = retained[j]
  <2>1. nextToken \in Nat /\ k \in 1 .. nextToken' /\ k # nextToken + 1
    BY <1>2 DEF SessionInv, BoundTo
  <2>. QED
    BY <1>2, <2>1 DEF BoundTo
<1>. QED
  BY <1>1, <1>2 DEF RetainMoves

\* The token of the window just captured.
LEMMA TokenIsGiven ==
    ASSUME SessionInv, NEW w \in AxWindow, RetainMoves(w), SessionInv', NEW k, k = TokenOf(w)
    PROVE  BoundTo(k, w)'
<1>1. DOMAIN retained' = 1 .. Len(retained') /\ nextToken' \in Nat
  BY DEF SessionInv
<1>2. \E n \in 1 .. nextToken' : \E i \in DOMAIN retained' : retained'[i] = [token |-> n, window |-> w]
  <2>1. CASE /\ UNCHANGED <<retained, nextToken>>
             /\ \E i \in 1 .. Len(retained) : retained[i].window = w
    <3>1. PICK i \in 1 .. Len(retained) : retained[i].window = w
      BY <2>1
    <3>2. retained[i] \in Retentions /\ retained[i].token \in 1 .. nextToken
      BY DEF SessionInv
    <3>3. retained[i] = [token |-> retained[i].token, window |-> w]
      BY <3>1, <3>2 DEF Retentions
    <3>. QED
      BY <1>1, <2>1, <3>2, <3>3
  <2>2. CASE /\ nextToken' = nextToken + 1
             /\ \E i \in 1 .. Len(retained') : retained'[i] = [token |-> nextToken + 1, window |-> w]
    <3>1. nextToken + 1 \in 1 .. nextToken'
      BY <2>2 DEF SessionInv
    <3>. QED
      BY <1>1, <2>2, <3>1
  <2>. QED
    BY <2>1, <2>2 DEF RetainMoves
<1>3. k \in 1 .. nextToken' /\ \E i \in DOMAIN retained' : retained'[i] = [token |-> k, window |-> w]
  BY <1>2 DEF TokenOf
<1>4. \A i \in 1 .. Len(retained') : retained'[i].token = k => retained'[i].window = w
  BY <1>1, <1>3 DEF SessionInv
<1>. QED
  BY <1>3, <1>4 DEF BoundTo

-----------------------------------------------------------------------------
(* Requests. *)

Whens == {"no", "before", "acting"}
AxRequests == [op : {"observe", "locate", "execute"}, scope : Anywhere,
               bound : Candidates \cup [scope : Anywhere], gone : Whens, expired : Whens]
Snapshots == [scope : Anywhere, token : Nat, unique : BOOLEAN, count : 0 .. 2, key : Key, window : AxWindow]

\* What an action is for was given its token with its window.
Sound(r) == r.op = "execute" => r.bound \in Candidates /\ BoundTo(r.bound.token, r.bound.window)

\* The parts of the state that only know windows by their tokens.
KnownInv ==
    /\ observed \in Snapshots \cup {NoWindow}
    /\ observed # NoWindow => BoundTo(observed.token, observed.window)
    /\ offered \subseteq Candidates
    /\ \A c \in offered : BoundTo(c.token, c.window)

RequestInv ==
    /\ inbox \in AxRequests \cup {NoRequest} /\ Sound(inbox)
    /\ request \in AxRequests \cup {NoRequest} /\ Sound(request)

ControlsInv == keys \in [AxWindow -> Key] /\ fits \in [AxWindow -> 0 .. 2]

\* Behind the recapture the target is the window meant, and behind the last look
\* the request can only have been given up since.
TargetInv ==
    /\ stage \in {"foreground", "target", "dispatch"} =>
          request.op = "execute" /\ target = request.bound.window
    /\ stage = "dispatch" => {request.gone, request.expired} \subseteq {"no", "acting"}

ActedInv == ActsOnItsWindow /\ NothingAfterGivingUp

AxInv == SessionInv /\ KnownInv /\ RequestInv /\ ControlsInv /\ TargetInv /\ ActedInv

LEMMA NoRequestIsSound == Sound(NoRequest) /\ NoRequest.op = "none" /\ \A r \in AxRequests : r # NoRequest
<1>1. NoRequest.op = "none"
  BY DEF NoRequest
<1>2. \A r \in AxRequests : r.op # "none"
  BY DEF AxRequests
<1>. QED
  BY <1>1, <1>2 DEF Sound

\* The session as it is keeps what is bound.
LEMMA BoundKept == ASSUME UNCHANGED <<retained, nextToken>>, NEW k, NEW v, BoundTo(k, v) PROVE BoundTo(k, v)'
BY DEF BoundTo

LEMMA CallObserveKeeps ==
    ASSUME AxInv, NEW op \in {"observe", "locate"}, NEW s \in Scopes, CallObserve(op, s)
    PROVE  AxInv'
<1>1. s \in Anywhere
  BY AxAssumption DEF Anywhere
<1>2. /\ inbox' = [op |-> op, scope |-> s, bound |-> [scope |-> s], gone |-> "no", expired |-> "no"]
      /\ UNCHANGED <<axWorld, session, axState, request, stage, target, acted>>
  BY DEF CallObserve, Send
<1>3. inbox' \in AxRequests /\ inbox'.op # "execute"
  BY <1>1, <1>2 DEF AxRequests, Whens
<1>4. SessionInv' /\ KnownInv' /\ ControlsInv' /\ TargetInv' /\ ActedInv'
  BY <1>2 DEF AxInv, SessionInv, KnownInv, ControlsInv, TargetInv, ActedInv, ActsOnItsWindow, NothingAfterGivingUp,
              axWorld, session, axState, BoundTo
<1>5. RequestInv'
  BY <1>2, <1>3 DEF AxInv, RequestInv, Sound, session, BoundTo
<1>. QED
  BY <1>4, <1>5 DEF AxInv

LEMMA BuildKeeps == ASSUME AxInv, Build \/ Rebuild PROVE AxInv'
<1>1. /\ UNCHANGED <<axWorld, session, observed, client, inbox, request, stage, target, acted, sent>>
      /\ observed # NoWindow
      /\ \E u \in BOOLEAN : offered' \subseteq offered \cup {Bind(u)}
  BY DEF Build, Rebuild
<1>2. PICK u \in BOOLEAN : offered' \subseteq offered \cup {Bind(u)}
  BY <1>1
<1>3. Bind(u) \in Candidates /\ Bind(u).token = observed.token /\ Bind(u).window = observed.window
  BY <1>1 DEF AxInv, KnownInv, Snapshots, Candidates, Bind
<1>4. KnownInv'
  <2>1. \A c \in offered' : c \in Candidates /\ BoundTo(c.token, c.window)
    BY <1>1, <1>2, <1>3 DEF AxInv, KnownInv
  <2>. QED
    BY <1>1, <2>1 DEF AxInv, KnownInv, session, BoundTo
<1>5. SessionInv' /\ RequestInv' /\ ControlsInv' /\ TargetInv' /\ ActedInv'
  BY <1>1 DEF AxInv, SessionInv, RequestInv, ControlsInv, TargetInv, ActedInv, ActsOnItsWindow, NothingAfterGivingUp,
              axWorld, session, Sound, BoundTo
<1>. QED
  BY <1>4, <1>5 DEF AxInv

LEMMA CallExecuteKeeps == ASSUME AxInv, NEW c \in offered, CallExecute(c) PROVE AxInv'
<1>1. c \in Candidates /\ c.scope \in Anywhere /\ BoundTo(c.token, c.window)
  BY DEF AxInv, KnownInv, Candidates
<1>2. /\ inbox' = [op |-> "execute", scope |-> c.scope, bound |-> c, gone |-> "no", expired |-> "no"]
      /\ UNCHANGED <<axWorld, session, axState, request, stage, target, acted>>
  BY DEF CallExecute, Send
<1>3. inbox' \in AxRequests /\ inbox'.bound = c
  BY <1>1, <1>2 DEF AxRequests, Whens
<1>4. SessionInv' /\ KnownInv' /\ ControlsInv' /\ TargetInv' /\ ActedInv'
  BY <1>2 DEF AxInv, SessionInv, KnownInv, ControlsInv, TargetInv, ActedInv, ActsOnItsWindow, NothingAfterGivingUp,
              axWorld, session, axState, BoundTo
<1>5. RequestInv'
  BY <1>1, <1>2, <1>3 DEF AxInv, RequestInv, Sound, session, BoundTo
<1>. QED
  BY <1>4, <1>5 DEF AxInv

\* A request that is marked, in its inbox or at the worker, is the same request.
Marked(r, q) ==
    \/ q = r
    \/ r \in AxRequests /\ q = [r EXCEPT !.gone = When(r)]
    \/ r \in AxRequests /\ q = [r EXCEPT !.expired = When(r)]

LEMMA MarkedIsSame ==
    ASSUME NEW r \in AxRequests \cup {NoRequest}, NEW q, Marked(r, q)
    PROVE  /\ q \in AxRequests \cup {NoRequest} /\ q.op = r.op
           /\ r \in AxRequests => q.bound = r.bound
           /\ r = request /\ stage = "dispatch" /\ {r.gone, r.expired} \subseteq {"no", "acting"} =>
                 {q.gone, q.expired} \subseteq {"no", "acting"}
<1>1. When(r) \in Whens /\ (r = request /\ stage = "dispatch" => When(r) = "acting")
  BY DEF When, Whens
<1>2. CASE q = r
  BY <1>2
<1>3. CASE r \in AxRequests /\ q = [r EXCEPT !.gone = When(r)]
  <2>1. q \in AxRequests /\ q.op = r.op /\ q.bound = r.bound /\ q.gone = When(r) /\ q.expired = r.expired
    BY <1>1, <1>3 DEF AxRequests
  <2>. QED
    BY <1>1, <2>1
<1>4. CASE r \in AxRequests /\ q = [r EXCEPT !.expired = When(r)]
  <2>1. q \in AxRequests /\ q.op = r.op /\ q.bound = r.bound /\ q.expired = When(r) /\ q.gone = r.gone
    BY <1>1, <1>4 DEF AxRequests
  <2>. QED
    BY <1>1, <2>1
<1>. QED
  BY <1>2, <1>3, <1>4 DEF Marked

LEMMA MarkingKeeps == ASSUME AxInv, GiveUp \/ DeadlineLapses PROVE AxInv'
<1>1. /\ Marked(inbox, inbox') /\ Marked(request, request')
      /\ UNCHANGED <<axWorld, session, axState, stage, target, acted>>
  <2>1. \A r \in AxRequests \cup {NoRequest} : r.op # "none" => r \in AxRequests
    BY NoRequestIsSound
  <2>2. CASE GiveUp
    BY <2>1, <2>2 DEF GiveUp, Drop, Marked, AxInv, RequestInv
  <2>3. CASE DeadlineLapses
    BY <2>1, <2>3 DEF DeadlineLapses, Lapse, Marked, AxInv, RequestInv
  <2>. QED
    BY <2>2, <2>3
<1>2. /\ inbox' \in AxRequests \cup {NoRequest} /\ inbox'.op = inbox.op
      /\ inbox \in AxRequests => inbox'.bound = inbox.bound
  BY <1>1, MarkedIsSame DEF AxInv, RequestInv
<1>3. /\ request' \in AxRequests \cup {NoRequest} /\ request'.op = request.op
      /\ request \in AxRequests => request'.bound = request.bound
      /\ stage = "dispatch" => {request'.gone, request'.expired} \subseteq {"no", "acting"}
  BY <1>1, MarkedIsSame DEF AxInv, RequestInv, TargetInv
<1>4. \A r \in AxRequests \cup {NoRequest} : r.op = "execute" => r \in AxRequests
  BY NoRequestIsSound
<1>5. RequestInv'
  BY <1>1, <1>2, <1>3, <1>4 DEF AxInv, RequestInv, Sound, session, BoundTo
<1>6. TargetInv'
  BY <1>1, <1>3, <1>4 DEF AxInv, RequestInv, TargetInv
<1>7. SessionInv' /\ KnownInv' /\ ControlsInv' /\ ActedInv'
  BY <1>1 DEF AxInv, SessionInv, KnownInv, ControlsInv, ActedInv, ActsOnItsWindow, NothingAfterGivingUp,
              axWorld, session, axState, BoundTo
<1>. QED
  BY <1>5, <1>6, <1>7 DEF AxInv

-----------------------------------------------------------------------------
(* The worker. *)

\* What a capture returns, and what it leaves of the rest.
LEMMA CaptureIsKnown ==
    ASSUME AxInv, NEW w \in AxWindow, Retain(w), request.op \in {"observe", "locate"}
    PROVE  /\ SessionInv' /\ Snapshot(w) \in Snapshots /\ Snapshot(w).window = w
           /\ \A k : k = Snapshot(w).token => BoundTo(k, w)'
           /\ \A k, v : BoundTo(k, v) => BoundTo(k, v)'
<1>1. SessionInv /\ RetainMoves(w) /\ SessionInv'
  BY RetainMovesList, RetainKeepsSession DEF AxInv
<1>2. \A k : k = TokenOf(w) => BoundTo(k, w)'
  BY <1>1, TokenIsGiven
<1>3. TokenOf(w) \in Nat
  BY <1>1, <1>2 DEF BoundTo, SessionInv
<1>4. request \in AxRequests
  BY NoRequestIsSound DEF AxInv, RequestInv
<1>5. Unique(w) \in BOOLEAN /\ fits[w] \in 0 .. 2 /\ keys[w] \in Key /\ request.scope \in Anywhere
  BY <1>4 DEF Unique, AxInv, ControlsInv, AxRequests
<1>. HIDE DEF AxInv
<1>6. Snapshot(w) \in Snapshots /\ Snapshot(w).window = w /\ Snapshot(w).token = TokenOf(w)
  BY <1>3, <1>5 DEF Snapshot, Snapshots
<1>. QED
  BY <1>1, <1>2, <1>6, RetainKeepsBound

LEMMA CaptureKeeps ==
    ASSUME AxInv, NEW w \in AxWindow, Capture(w) \/ LocateRound(w)
    PROVE  AxInv'
<1>1. /\ Retain(w) /\ request.op \in {"observe", "locate"}
      /\ observed' \in {observed, Snapshot(w)}
      /\ request' = NoRequest /\ stage' = "idle"
      /\ UNCHANGED <<axWorld, offered, acted>>
  BY DEF Capture, LocateRound, Captures, Reply, Idles
<1>2. /\ SessionInv' /\ Snapshot(w) \in Snapshots /\ Snapshot(w).window = w
      /\ \A k : k = Snapshot(w).token => BoundTo(k, w)'
      /\ \A k, v : BoundTo(k, v) => BoundTo(k, v)'
  BY <1>1, CaptureIsKnown
<1>3. inbox' \in AxRequests \cup {NoRequest} /\ (inbox' = inbox \/ inbox'.op = "locate")
  <2>1. request \in AxRequests /\ request.scope \in Anywhere
    BY <1>1, NoRequestIsSound DEF AxInv, RequestInv, AxRequests
  <2>2. CASE inbox' = inbox
    BY <2>2 DEF AxInv, RequestInv
  <2>3. CASE \E s \in {request.scope, [request.scope EXCEPT !.region = w]} : Send("locate", [scope |-> s])
    <3>1. PICK s \in Anywhere : Send("locate", [scope |-> s])
      BY <2>1, <2>3 DEF Anywhere
    <3>2. inbox' = [op |-> "locate", scope |-> s, bound |-> [scope |-> s], gone |-> "no", expired |-> "no"]
      BY <3>1 DEF Send
    <3>. QED
      BY <3>2 DEF AxRequests, Whens
  <2>. QED
    BY <2>2, <2>3 DEF Capture, LocateRound
<1>4. KnownInv'
  BY <1>1, <1>2 DEF AxInv, KnownInv
<1>5. RequestInv'
  BY <1>1, <1>2, <1>3, NoRequestIsSound DEF AxInv, RequestInv, Sound
<1>6. ControlsInv' /\ TargetInv' /\ ActedInv'
  BY <1>1 DEF AxInv, ControlsInv, TargetInv, ActedInv, ActsOnItsWindow, NothingAfterGivingUp, axWorld
<1>. QED
  BY <1>2, <1>4, <1>5, <1>6 DEF AxInv

LEMMA TakeKeeps == ASSUME AxInv, Take PROVE AxInv'
<1>1. /\ inbox' = NoRequest /\ acted' = NoAction
      /\ (request' = request /\ stage' = "idle") \/ (request' = inbox /\ stage' = "capture")
      /\ UNCHANGED <<axWorld, session, axState>>
  BY DEF Take
<1>2. RequestInv'
  BY <1>1, NoRequestIsSound DEF AxInv, RequestInv, Sound, session, BoundTo
<1>3. ActedInv'
  BY <1>1 DEF ActedInv, ActsOnItsWindow, NothingAfterGivingUp, NoAction
<1>4. SessionInv' /\ KnownInv' /\ ControlsInv' /\ TargetInv'
  BY <1>1 DEF AxInv, SessionInv, KnownInv, ControlsInv, TargetInv, axWorld, session, axState, BoundTo
<1>. QED
  BY <1>2, <1>3, <1>4 DEF AxInv

\* A request that fails, is carried out, or whose answer is an error ends.
LEMMA EndKeeps == ASSUME AxInv, CaptureFails \/ ExecuteFails \/ Dispatch PROVE AxInv'
<1>1. /\ request' = NoRequest /\ stage' = "idle" /\ observed' = observed
      /\ UNCHANGED <<axWorld, session, offered, inbox>>
  BY DEF CaptureFails, ExecuteFails, Dispatch, ReplyError, Reply, Idles
<1>2. ActedInv'
  <2>1. CASE acted' = acted
    BY <2>1 DEF AxInv, ActedInv, ActsOnItsWindow, NothingAfterGivingUp
  <2>2. CASE Dispatch
    BY <2>2 DEF Dispatch, AxInv, TargetInv, ActedInv, ActsOnItsWindow, NothingAfterGivingUp
  <2>. QED
    BY <2>1, <2>2 DEF CaptureFails, ExecuteFails
<1>3. RequestInv'
  BY <1>1, NoRequestIsSound DEF AxInv, RequestInv, Sound, session, BoundTo
<1>4. SessionInv' /\ KnownInv' /\ ControlsInv' /\ TargetInv'
  BY <1>1 DEF AxInv, SessionInv, KnownInv, ControlsInv, TargetInv, axWorld, session, BoundTo
<1>. QED
  BY <1>2, <1>3, <1>4 DEF AxInv

LEMMA RecaptureKeeps == ASSUME AxInv, NEW w \in AxWindow, Recapture(w) PROVE AxInv'
<1>1. /\ request.op = "execute" /\ w \in WindowOf(request.bound.token)
      /\ stage' = "foreground" /\ target' = w
      /\ UNCHANGED <<axWorld, session, axState, inbox, request, acted>>
  BY DEF Recapture, SameElement
<1>2. w = request.bound.window
  <2>1. DOMAIN retained = 1 .. Len(retained) /\ BoundTo(request.bound.token, request.bound.window)
    BY <1>1 DEF AxInv, SessionInv, RequestInv, Sound
  <2>. QED
    BY <1>1, <2>1 DEF WindowOf, BoundTo
<1>3. TargetInv'
  BY <1>1, <1>2 DEF TargetInv
<1>4. SessionInv' /\ KnownInv' /\ RequestInv' /\ ControlsInv' /\ ActedInv'
  BY <1>1 DEF AxInv, SessionInv, KnownInv, RequestInv, ControlsInv, ActedInv, ActsOnItsWindow, NothingAfterGivingUp,
              axWorld, session, axState, Sound, BoundTo
<1>. QED
  BY <1>3, <1>4 DEF AxInv

LEMMA StageKeeps == ASSUME AxInv, Raised \/ InPlace \/ Recheck PROVE AxInv'
<1>1. /\ UNCHANGED <<keys, fits, session, axState, inbox, request, target, acted>>
      /\ stage \in {"foreground", "target"} /\ stage' \in {"target", "dispatch"}
  BY DEF Raised, InPlace, Recheck, axWorld
<1>2. stage' = "dispatch" => {request.gone, request.expired} \subseteq {"no", "acting"}
  BY DEF Raised, InPlace, Recheck, GivenUp, Unwanted, Expired
<1>3. TargetInv'
  BY <1>1, <1>2 DEF AxInv, TargetInv
<1>4. SessionInv' /\ KnownInv' /\ RequestInv' /\ ControlsInv' /\ ActedInv'
  BY <1>1 DEF AxInv, SessionInv, KnownInv, RequestInv, ControlsInv, ActedInv, ActsOnItsWindow, NothingAfterGivingUp,
              session, axState, Sound, BoundTo
<1>. QED
  BY <1>3, <1>4 DEF AxInv

LEMMA DesktopKeeps == ASSUME AxInv, AxDesktop \/ UNCHANGED axVars PROVE AxInv'
<1>1. /\ UNCHANGED <<session, axState, inbox, request, stage, target, acted>>
      /\ ControlsInv'
  BY DEF AxDesktop, WindowCloses, ComesToFront, ControlsChange, IsRenamed, AxHappens, axVars, axWorld, AxInv,
     ControlsInv
<1>2. SessionInv' /\ KnownInv' /\ RequestInv' /\ TargetInv' /\ ActedInv'
  BY <1>1 DEF AxInv, SessionInv, KnownInv, RequestInv, TargetInv, ActedInv, ActsOnItsWindow, NothingAfterGivingUp,
              session, axState, Sound, BoundTo
<1>. QED
  BY <1>1, <1>2 DEF AxInv

-----------------------------------------------------------------------------
LEMMA AxInvInit == AxInit => AxInv
<1>. SUFFICES ASSUME AxInit PROVE AxInv
  OBVIOUS
<1>1. retained = <<>> /\ Len(retained) = 0 /\ retained \in Seq(Retentions)
  BY DEF AxInit
<1>2. SessionInv
  BY <1>1 DEF AxInit, SessionInv
<1>3. ControlsInv
  BY AxAssumption DEF AxInit, ControlsInv
<1>4. KnownInv /\ RequestInv /\ TargetInv /\ ActedInv
  BY NoRequestIsSound DEF AxInit, KnownInv, RequestInv, TargetInv, ActedInv, ActsOnItsWindow,
     NothingAfterGivingUp, NoAction
<1>. QED
  BY <1>2, <1>3, <1>4 DEF AxInv

LEMMA AxInvStep == AxInv /\ [AxNext]_axVars => AxInv'
<1>. SUFFICES ASSUME AxInv, [AxNext]_axVars PROVE AxInv'
  OBVIOUS
<1>1. CASE \E op \in {"observe", "locate"}, s \in Scopes : CallObserve(op, s)
  BY <1>1, CallObserveKeeps
<1>2. CASE Build \/ Rebuild
  BY <1>2, BuildKeeps
<1>3. CASE \E c \in offered : CallExecute(c)
  BY <1>3, CallExecuteKeeps
<1>4. CASE GiveUp \/ DeadlineLapses
  BY <1>4, MarkingKeeps
<1>5. CASE Take
  BY <1>5, TakeKeeps
<1>6. CASE CaptureFails \/ ExecuteFails \/ Dispatch
  BY <1>6, EndKeeps
<1>7. CASE \E w \in AxWindow : Capture(w) \/ LocateRound(w)
  BY <1>7, CaptureKeeps
<1>8. CASE \E w \in AxWindow : Recapture(w)
  BY <1>8, RecaptureKeeps
<1>9. CASE Raised \/ InPlace \/ Recheck
  BY <1>9, StageKeeps
<1>10. CASE AxDesktop \/ UNCHANGED axVars
  BY <1>10, DesktopKeeps
<1>. QED
  BY <1>1, <1>2, <1>3, <1>4, <1>5, <1>6, <1>7, <1>8, <1>9, <1>10 DEF AxNext, Worker

\* However the foreground, titles and controls change, and whatever the session has
\* dropped, an action is done in the window its candidate was made of (ActsOnItsWindow).
THEOREM InItsWindow == AxSpec => []ActsOnItsWindow
<1>1. AxInv => ActsOnItsWindow
  BY DEF AxInv, ActedInv
<1>. QED
  BY <1>1, AxInvInit, AxInvStep, PTL DEF AxSpec

\* A request given up or run out before the worker's last look is not carried out
\* (NothingAfterGivingUp).
THEOREM NotAfterGivingUp == AxSpec => []NothingAfterGivingUp
<1>1. AxInv => NothingAfterGivingUp
  BY DEF AxInv, ActedInv
<1>. QED
  BY <1>1, AxInvInit, AxInvStep, PTL DEF AxSpec

-----------------------------------------------------------------------------
(* Windows, regions and the worker's stage. *)

Stages == {"idle", "capture", "foreground", "target", "dispatch"}
StageInv ==
    /\ axWindows \subseteq AxWindow /\ front \in axWindows \cup {NoWindow}
    /\ regions \subseteq AxWindow /\ Len(retained) <= MaxRetained
    /\ stage \in Stages /\ (stage = "idle" <=> request = NoRequest)

\* What a step may do to the worker's request.
StageMoves ==
    \/ UNCHANGED stage /\ (request' = NoRequest <=> request = NoRequest)
    \/ request' = NoRequest /\ stage' = "idle"
    \/ request' # NoRequest /\ stage' \in Stages \ {"idle"}

LEMMA RetainedIsBounded ==
    ASSUME SessionInv, Len(retained) <= MaxRetained, NEW w \in AxWindow, Retain(w), AxAssumption
    PROVE  Len(retained') <= MaxRetained
<1> DEFINE new == [token |-> nextToken + 1, window |-> w]
           all == Append(retained, new)
<1>1. retained' = retained \/ retained' = Trimmed(all)
    BY DEF Retain, FreshToken
<1>2. new \in Retentions
    BY DEF SessionInv, Retentions
<1> HIDE DEF new
<1>3. all \in Seq(Retentions) /\ Len(all) = Len(retained) + 1 /\ Len(retained) \in Nat
    BY <1>2 DEF SessionInv
<1> HIDE DEF all
<1>4. MaxRetained \in Nat \ {0}
    BY DEF AxAssumption
<1>5. CASE Len(all) > MaxRetained
    <2>1. all # <<>>
        BY <1>3, LenProperties
    <2>2. Trimmed(all) = Tail(all) /\ Len(Tail(all)) = Len(all) - 1
        BY <1>3, <1>5, <2>1, HeadTailProperties DEF Trimmed
    <2> QED BY <1>1, <1>3, <1>4, <2>2
<1>6. CASE ~(Len(all) > MaxRetained)
    <2>1. Trimmed(all) = all
        BY <1>6 DEF Trimmed
    <2> QED BY <1>1, <1>3, <1>4, <1>6, <2>1
<1> QED BY <1>5, <1>6

LEMMA StageKeepsMoves == ASSUME AxInv, StageInv, [AxNext]_axVars PROVE StageMoves
<1>1. CASE \/ \E op \in {"observe", "locate"}, s \in Scopes : CallObserve(op, s)
           \/ Build \/ Rebuild \/ \E c \in offered : CallExecute(c)
    BY <1>1 DEF CallObserve, Build, Rebuild, CallExecute, StageMoves
<1>2. CASE GiveUp \/ DeadlineLapses
    <2>1. request \in AxRequests \cup {NoRequest} /\ \A r \in AxRequests : r # NoRequest /\ r.op # "none"
        BY NoRequestIsSound DEF AxInv, RequestInv, AxRequests
    <2>2. Marked(request, request') /\ UNCHANGED stage
        <3>1. request.op # "none" => request \in AxRequests
            BY <2>1, NoRequestIsSound
        <3> QED BY <1>2, <3>1 DEF GiveUp, DeadlineLapses, Drop, Lapse, Marked
    <2>3. request' \in AxRequests \cup {NoRequest} /\ request'.op = request.op
        BY <2>1, <2>2, MarkedIsSame
    <2> QED BY <2>1, <2>2, <2>3, NoRequestIsSound DEF StageMoves
<1>3. CASE Take
    <2>1. inbox # NoRequest
        BY <1>3, NoRequestIsSound DEF Take
    <2> QED BY <1>3, <2>1 DEF Take, StageMoves, Stages
<1>4. CASE CaptureFails \/ ExecuteFails \/ Dispatch \/ \E w \in AxWindow : Capture(w) \/ LocateRound(w)
    BY <1>4 DEF CaptureFails, ExecuteFails, Dispatch, Capture, LocateRound, ReplyError, Reply, Idles, StageMoves
<1>5. CASE (\E w \in AxWindow : Recapture(w)) \/ Raised \/ InPlace \/ Recheck
    <2>1. stage # "idle" /\ request' = request /\ stage' \in Stages \ {"idle"}
        BY <1>5 DEF Recapture, Captures, Raised, InPlace, Recheck, Stages
    <2> QED BY <2>1 DEF StageMoves, StageInv
<1>6. CASE AxDesktop \/ UNCHANGED axVars
    BY <1>6 DEF AxDesktop, WindowCloses, ComesToFront, ControlsChange, IsRenamed, AxHappens, axVars, StageMoves
<1> QED BY <1>1, <1>2, <1>3, <1>4, <1>5, <1>6 DEF AxNext, Worker

LEMMA StageInvKeeps == ASSUME AxInv, StageInv, [AxNext]_axVars, AxAssumption PROVE StageInv'
<1>1. stage' \in Stages /\ (stage' = "idle" <=> request' = NoRequest)
    BY StageKeepsMoves DEF StageMoves, StageInv, Stages
<1>2. CASE UNCHANGED <<axWindows, front, regions, retained>>
    BY <1>1, <1>2 DEF StageInv
<1>3. CASE Raised
    BY <1>1, <1>3 DEF Raised, session, StageInv
<1>4. CASE \E w \in AxWindow : Capture(w) \/ LocateRound(w)
    <2>1. PICK w \in AxWindow : Retain(w) /\ UNCHANGED axWorld
        BY <1>4 DEF Capture, LocateRound
    <2>2. Len(retained') <= MaxRetained
        BY <2>1, RetainedIsBounded DEF AxInv, StageInv
    <2>3. regions' \subseteq AxWindow
        BY <2>1 DEF Retain, StageInv
    <2> QED BY <1>1, <2>1, <2>2, <2>3 DEF StageInv, axWorld
<1>5. CASE AxDesktop
    BY <1>1, <1>5 DEF AxDesktop, WindowCloses, ComesToFront, ControlsChange, IsRenamed, AxHappens, session, StageInv
<1> QED
    BY <1>2, <1>3, <1>4, <1>5
    DEF AxNext, Worker, CallObserve, Build, Rebuild, CallExecute, GiveUp, DeadlineLapses, Take, CaptureFails,
        ExecuteFails, Dispatch, Recapture, InPlace, Recheck, axVars, axWorld, session

\* The adapter's state is what it should be, the windows it retains bounded (AxTypeOK).
THEOREM AxTypeCorrect == AxSpec => []AxTypeOK
<1>1. AxInit => StageInv
    <2> SUFFICES ASSUME AxInit
                 PROVE  StageInv
        OBVIOUS
    <2>1. Len(retained) <= MaxRetained
        BY AxAssumption DEF AxInit, AxAssumption
    <2> QED BY <2>1 DEF AxInit, StageInv, Stages
<1>2. AxInv /\ StageInv /\ [AxNext]_axVars => StageInv'
    BY StageInvKeeps, AxAssumption
<1>3. AxInv /\ StageInv => AxTypeOK
    BY DEF AxInv, KnownInv, StageInv, Stages, AxTypeOK
<1> QED BY <1>1, <1>2, <1>3, AxInvInit, AxInvStep, PTL DEF AxSpec

-----------------------------------------------------------------------------
(* Handles. *)

\* Handles are given out in order, each for one window; the table is part of that.
TableInv ==
    /\ there \subseteq Native /\ focus \in there \cup {Nothing}
    /\ table \in [Handles -> Native \cup {Nothing}] /\ owner \in [Handles -> Native \cup {Nothing}]
    /\ nextHandle \in Nat
    /\ \A h \in Handles : h > nextHandle => owner[h] = Nothing
    /\ \A h \in Handles : table[h] \in {Nothing, owner[h]}
    /\ \A g, h \in Handles : table[g] = table[h] /\ table[g] # Nothing => g = h

\* What a step may do to it.
TableMoves ==
    /\ there' \subseteq Native /\ focus' \in there' \cup {Nothing}
    /\ \/ UNCHANGED <<table, owner, nextHandle>>
       \/ \E w \in Native : Register(w)
       \/ /\ UNCHANGED <<owner, nextHandle>>
          /\ table' = [h \in Handles |-> IF h \in listed THEN table[h] ELSE Nothing]

LEMMA StepMovesTable == ASSUME TableInv, [ServiceNext]_serviceVars PROVE TableMoves
<1>. USE DEF TableMoves, TableInv
<1>1. CASE (\E h \in Handles : Call("activate", h) \/ Call("inspect", h)) \/ Call("list", 0) \/ Call("foreground", 0)
  BY <1>1 DEF Call
<1>2. CASE \E i \in 1 .. MaxJobs : DeadlinePassed(i) \/ WaitEnds(i)
  BY <1>2 DEF DeadlinePassed, WaitEnds
<1>3. CASE Receive \/ ListEnds \/ Inspect
  BY <1>3 DEF Receive, ListEnds, Inspect
<1>4. CASE Activate
  BY <1>4 DEF Activate
<1>5. CASE AsksForeground \/ LooksAgain
  BY <1>5 DEF AsksForeground, LooksAgain, Foreground
<1>6. CASE \E w \in Native : Lists(w)
  BY <1>6 DEF Lists
<1>7. CASE \E w \in Native : NativeOpens(w) \/ NativeCloses(w)
  BY <1>7 DEF NativeOpens, NativeCloses
<1>8. CASE UNCHANGED serviceVars
  BY <1>8 DEF serviceVars
<1>. QED
  BY <1>1, <1>2, <1>3, <1>4, <1>5, <1>6, <1>7, <1>8 DEF ServiceNext, Thread

LEMMA RegisterKeepsTable ==
    ASSUME TableInv, NEW w \in Native, Register(w), there' \subseteq Native, focus' \in there' \cup {Nothing}
    PROVE  TableInv'
<1>0. w # Nothing /\ MaxHandle \in Nat
  BY ServiceAssumption
<1>1. CASE UNCHANGED <<table, owner, nextHandle>>
  BY <1>1 DEF TableInv
<1>2. CASE /\ \A h \in Used : table[h] # w
           /\ NewHandle <= MaxHandle
           /\ nextHandle' = NewHandle
           /\ table' = [table EXCEPT ![NewHandle] = w]
           /\ owner' = [owner EXCEPT ![NewHandle] = IF @ = Nothing THEN w ELSE @]
  <2>1. NewHandle \in Handles /\ NewHandle > nextHandle /\ owner[NewHandle] = Nothing
    BY <1>0, <1>2 DEF NewHandle, Handles, TableInv
  <2>2. \A h \in Handles : table[h] # w
    BY <1>0, <1>2 DEF Used
  <2>. QED
    BY <1>0, <1>2, <2>1, <2>2 DEF TableInv, NewHandle, Handles
<1>. QED
  BY <1>1, <1>2 DEF Register

LEMMA TableKeeps == TableInv /\ [ServiceNext]_serviceVars => TableInv'
<1>. SUFFICES ASSUME TableInv, TableMoves PROVE TableInv'
  BY StepMovesTable
<1>1. CASE UNCHANGED <<table, owner, nextHandle>>
  BY <1>1 DEF TableInv, TableMoves
<1>2. CASE \E w \in Native : Register(w)
  BY <1>2, RegisterKeepsTable DEF TableMoves
<1>3. CASE /\ UNCHANGED <<owner, nextHandle>>
           /\ table' = [h \in Handles |-> IF h \in listed THEN table[h] ELSE Nothing]
  BY <1>3 DEF TableInv, TableMoves
<1>. QED
  BY <1>1, <1>2, <1>3 DEF TableMoves

\* A handle denotes the window it was made for or none, and no window has two
\* (HandleIsForever).
THEOREM HandlesAreForever == ServiceSpec => []HandleIsForever
<1>1. ServiceInit => TableInv
  BY DEF ServiceInit, TableInv, Handles
<1>2. TableInv /\ [ServiceNext]_serviceVars => TableInv'
  BY TableKeeps
<1>3. TableInv => HandleIsForever
  BY DEF TableInv, HandleIsForever, Used
<1>. QED
  BY <1>1, <1>2, <1>3, PTL DEF ServiceSpec

-----------------------------------------------------------------------------
(* Jobs. *)

Ops == {"activate", "inspect", "list", "foreground"}
Job == [id : Nat, op : Ops, handle : Nat, late : BOOLEAN]

\* Somebody waits for a job whose time is not up, and for one job only its caller.
QueueInv ==
    /\ queue \in Seq(Job) /\ jobs \in Nat
    /\ \A i \in 1 .. Len(queue) :
          /\ queue[i].id <= jobs
          /\ ~queue[i].late => queue[i].id \in awaiting
          /\ job # NoJob => queue[i].id # job.id
          /\ \A j \in 1 .. Len(queue) : queue[j].id = queue[i].id => j = i
    /\ job # NoJob => job.id \in Nat /\ job.id <= jobs
    /\ NoLateStart

LEMMA CallKeepsQueue == ASSUME QueueInv, NEW op \in Ops, NEW h \in Nat, Call(op, h) PROVE QueueInv'
<1>. DEFINE new == [id |-> jobs + 1, op |-> op, handle |-> h, late |-> FALSE]
<1>1. /\ new \in Job /\ new.id = jobs + 1 /\ jobs' = jobs + 1 /\ awaiting' = awaiting \cup {jobs + 1}
      /\ queue' = Append(queue, new) /\ UNCHANGED <<job, ran>>
  BY DEF Call, Job, QueueInv
<1>. HIDE DEF new
<1>2. /\ queue' \in Seq(Job) /\ Len(queue') = Len(queue) + 1
      /\ \A i \in 1 .. Len(queue) : queue'[i] = queue[i]
      /\ queue'[Len(queue) + 1] = new
  BY <1>1 DEF QueueInv
<1>0. /\ jobs \in Nat /\ Len(queue) \in Nat
      /\ \A i \in 1 .. Len(queue) : queue[i].id \in Nat /\ queue[i].id < jobs + 1
      /\ job # NoJob => job.id \in Nat /\ job.id < jobs + 1
  <2>1. \A i \in 1 .. Len(queue) : queue[i] \in Job
    BY DEF QueueInv
  <2>. QED
    BY <2>1 DEF QueueInv, Job
<1>3. ASSUME NEW i \in 1 .. Len(queue')
      PROVE  /\ queue'[i].id <= jobs'
             /\ ~queue'[i].late => queue'[i].id \in awaiting'
             /\ job' # NoJob => queue'[i].id # job'.id
             /\ \A j \in 1 .. Len(queue') : queue'[j].id = queue'[i].id => j = i
  <2>1. CASE i = Len(queue) + 1
    BY <1>0, <1>1, <1>2, <2>1
  <2>2. CASE i \in 1 .. Len(queue)
    <3>1. /\ queue'[i] = queue[i] /\ queue[i].id <= jobs
          /\ ~queue[i].late => queue[i].id \in awaiting
          /\ job # NoJob => queue[i].id # job.id
          /\ \A j \in 1 .. Len(queue) : queue[j].id = queue[i].id => j = i
      BY <1>2, <2>2 DEF QueueInv
    <3>2. ASSUME NEW j \in 1 .. Len(queue'), queue'[j].id = queue'[i].id PROVE j = i
      <4>1. queue[i].id \in Nat /\ queue[i].id < jobs + 1
        BY <1>0, <2>2
      <4>2. j # Len(queue) + 1
        BY <1>1, <1>2, <3>1, <3>2, <4>1
      <4>3. j \in 1 .. Len(queue)
        BY <1>0, <1>2, <4>2
      <4>. QED
        BY <1>2, <3>1, <3>2, <4>3
    <3>3. queue'[i].id <= jobs' /\ (~queue'[i].late => queue'[i].id \in awaiting')
      <4>1. queue[i].id \in Nat
        BY <1>0, <2>2
      <4>. QED
        BY <1>0, <1>1, <3>1, <4>1
    <3>4. job' # NoJob => queue'[i].id # job'.id
      BY <1>1, <3>1
    <3>. QED
      BY <3>2, <3>3, <3>4
  <2>. QED
    BY <1>2, <2>1, <2>2 DEF QueueInv
<1>. QED
  BY <1>1, <1>2, <1>3 DEF QueueInv, NoLateStart

LEMMA ReceiveKeepsQueue == ASSUME QueueInv, Receive PROVE QueueInv'
<1>1. /\ queue # <<>> /\ queue \in Seq(Job) /\ queue' \in Seq(Job) /\ Len(queue') = Len(queue) - 1
      /\ \A i \in 1 .. Len(queue') : queue'[i] = queue[i + 1]
      /\ Head(queue) = queue[1] /\ 1 \in 1 .. Len(queue)
  BY HeadTailProperties DEF QueueInv, Receive
<1>2. \A i \in 1 .. Len(queue') : i + 1 \in 1 .. Len(queue) /\ i + 1 # 1
  BY <1>1
<1>3. UNCHANGED <<jobs, awaiting>> /\ job = NoJob
  BY DEF Receive
<1>4. queue[1] \in Job /\ queue[1].id <= jobs
  BY <1>1 DEF QueueInv
<1>5. \/ UNCHANGED <<job, ran>>
      \/ job' = queue[1] /\ ran' = (queue[1].id \in awaiting) /\ ~queue[1].late
  BY <1>1 DEF Receive, TooLate
<1>6. ran' /\ (job' # NoJob => job'.id \in Nat /\ job'.id <= jobs' /\ job' = queue[1])
  BY <1>1, <1>3, <1>4, <1>5 DEF QueueInv, NoLateStart, Job
<1>7. ASSUME NEW i \in 1 .. Len(queue')
      PROVE  /\ queue'[i].id <= jobs'
             /\ ~queue'[i].late => queue'[i].id \in awaiting'
             /\ job' # NoJob => queue'[i].id # job'.id
             /\ \A j \in 1 .. Len(queue') : queue'[j].id = queue'[i].id => j = i
  <2>1. queue'[i] = queue[i + 1] /\ i + 1 \in 1 .. Len(queue) /\ i + 1 # 1
    BY <1>1, <1>2
  <2>2. queue[i + 1].id # queue[1].id
    BY <1>1, <2>1 DEF QueueInv
  <2>3. ASSUME NEW j \in 1 .. Len(queue'), queue'[j].id = queue'[i].id PROVE j = i
    <3>1. queue'[j] = queue[j + 1] /\ j + 1 \in 1 .. Len(queue)
      BY <1>1, <1>2
    <3>2. j + 1 = i + 1
      BY <2>1, <2>3, <3>1 DEF QueueInv
    <3>. QED
      BY <1>1, <3>2
  <2>. QED
    BY <1>3, <1>6, <2>1, <2>2, <2>3 DEF QueueInv
<1>. QED
  BY <1>1, <1>3, <1>6, <1>7 DEF QueueInv, NoLateStart

\* Time passes for a job, or for its caller.
LEMMA TimeKeepsQueue == ASSUME QueueInv, NEW k \in 1 .. MaxJobs, DeadlinePassed(k) \/ WaitEnds(k) PROVE QueueInv'
<1>1. CASE DeadlinePassed(k)
  <2>1. /\ k \in 1 .. Len(queue) /\ UNCHANGED <<jobs, awaiting, job, ran>>
        /\ queue' = [queue EXCEPT ![k].late = TRUE]
    BY <1>1 DEF DeadlinePassed, QueueInv
  <2>2. /\ queue' \in Seq(Job) /\ Len(queue') = Len(queue)
        /\ \A i \in 1 .. Len(queue) : queue'[i].id = queue[i].id /\ (queue[i].late => queue'[i].late)
    <3>1. queue[k] \in Job /\ [queue[k] EXCEPT !.late = TRUE] \in Job
      <4>1. queue[k] \in Job
        BY <2>1 DEF QueueInv
      <4>. QED
        BY <4>1 DEF Job
    <3>2. queue' = [queue EXCEPT ![k] = [queue[k] EXCEPT !.late = TRUE]] /\ queue \in Seq(Job)
      BY <2>1 DEF QueueInv
    <3>3. /\ queue' \in Seq(Job) /\ Len(queue') = Len(queue)
          /\ \A i \in 1 .. Len(queue) : queue'[i] = IF i = k THEN [queue[k] EXCEPT !.late = TRUE] ELSE queue[i]
      BY <2>1, <3>1, <3>2, ExceptSeq
    <3>. QED
      BY <3>1, <3>3 DEF Job
  <2>. QED
    BY <2>1, <2>2 DEF QueueInv, NoLateStart
<1>2. CASE WaitEnds(k)
  BY <1>2 DEF WaitEnds, QueueInv, NoLateStart
<1>. QED
  BY <1>1, <1>2

\* The answer to a job ends one wait, which no job in the queue is for.
LEMMA AnswerKeepsQueue == ASSUME QueueInv, job # NoJob, Answer, UNCHANGED <<queue, jobs, ran>> PROVE QueueInv'
BY DEF QueueInv, Answer, NoLateStart

\* A job whose caller has been told that it timed out does not begin (NoLateStart).
THEOREM NothingStartsLate == ServiceSpec => []NoLateStart
<1>1. ServiceInit => QueueInv
  BY DEF ServiceInit, QueueInv, NoLateStart
<1>2. QueueInv /\ [ServiceNext]_serviceVars => QueueInv'
  <2>. SUFFICES ASSUME QueueInv, [ServiceNext]_serviceVars PROVE QueueInv'
    OBVIOUS
  <2>1. CASE (\E h \in Handles : Call("activate", h) \/ Call("inspect", h)) \/ Call("list", 0) \/ Call("foreground", 0)
    <3>1. \E op \in Ops, h \in Nat : Call(op, h)
      BY <2>1, ServiceAssumption DEF Handles, Ops
    <3>. QED
      BY <3>1, CallKeepsQueue
  <2>2. CASE \E i \in 1 .. MaxJobs : DeadlinePassed(i) \/ WaitEnds(i)
    BY <2>2, TimeKeepsQueue
  <2>3. CASE Receive
    BY <2>3, ReceiveKeepsQueue
  <2>4. CASE ListEnds \/ AsksForeground \/ Activate \/ LooksAgain \/ Inspect
    <3>1. job # NoJob /\ UNCHANGED <<queue, jobs, ran>>
      BY <2>4 DEF ListEnds, AsksForeground, Activate, LooksAgain, Inspect, NoJob
    <3>2. Answer \/ UNCHANGED <<job, awaiting>>
      BY <2>4 DEF ListEnds, AsksForeground, Activate, LooksAgain, Inspect
    <3>. QED
      BY <3>1, <3>2, AnswerKeepsQueue DEF QueueInv, NoLateStart
  <2>5. CASE \E w \in Native : Lists(w) \/ NativeOpens(w) \/ NativeCloses(w)
    BY <2>5 DEF Lists, NativeOpens, NativeCloses, QueueInv, NoLateStart
  <2>6. CASE UNCHANGED serviceVars
    BY <2>6 DEF serviceVars, QueueInv, NoLateStart
  <2>. QED
    BY <2>1, <2>2, <2>3, <2>4, <2>5, <2>6 DEF ServiceNext, Thread
<1>3. QueueInv => NoLateStart
  BY DEF QueueInv
<1>. QED
  BY <1>1, <1>2, <1>3, PTL DEF ServiceSpec

\* Handles and jobs are counted up to their bounds.
CountsInv ==
    /\ nextHandle \in 0 .. MaxHandle /\ jobs \in 0 .. MaxJobs /\ awaiting \subseteq 1 .. MaxJobs
    /\ looks \in 0 .. Looks /\ listed \subseteq Handles

LEMMA CountsKeep ==
    ASSUME CountsInv, [ServiceNext]_serviceVars, ServiceAssumption
    PROVE  CountsInv'
<1>0. \A w : Register(w) => nextHandle' \in 0 .. MaxHandle
    BY DEF Register, NewHandle, CountsInv, ServiceAssumption
<1>1. Answer => awaiting' \subseteq awaiting /\ looks' \in 0 .. Looks /\ listed' \subseteq Handles
    BY DEF Answer, ServiceAssumption
<1>2. ASSUME NEW op, NEW h, Call(op, h)
      PROVE  CountsInv'
    BY <1>2 DEF Call, CountsInv, ServiceAssumption
<1>3. CASE \E i \in 1 .. MaxJobs : DeadlinePassed(i) \/ WaitEnds(i)
    BY <1>3 DEF DeadlinePassed, WaitEnds, CountsInv
<1>4. CASE Receive \/ ListEnds \/ Inspect
    BY <1>1, <1>4 DEF Receive, ListEnds, Inspect, CountsInv
<1>5. CASE AsksForeground \/ LooksAgain
    <2>1. nextHandle' \in 0 .. MaxHandle
        BY <1>0, <1>5 DEF AsksForeground, LooksAgain, Foreground, CountsInv
    <2>2. UNCHANGED jobs
        BY <1>5 DEF AsksForeground, LooksAgain
    <2>3. Answer \/ (looks > 1 /\ looks' = looks - 1 /\ UNCHANGED <<listed, awaiting>>)
        BY <1>5 DEF AsksForeground, LooksAgain
    <2>4. looks' \in 0 .. Looks
        <3>1. looks \in 0 .. Looks /\ Looks \in Nat
            BY DEF CountsInv, ServiceAssumption
        <3> QED BY <1>1, <2>3, <3>1
    <2>5. awaiting' \subseteq awaiting /\ (listed' = listed \/ listed' \subseteq Handles)
        BY <1>1, <2>3
    <2> QED BY <2>1, <2>2, <2>4, <2>5 DEF CountsInv
<1>6. CASE Activate
    <2>1. UNCHANGED <<nextHandle, jobs>> /\ (Answer \/ (looks' = Looks /\ UNCHANGED <<listed, awaiting>>))
        BY <1>6 DEF Activate
    <2>2. Looks \in 0 .. Looks
        BY DEF ServiceAssumption
    <2> QED BY <1>1, <2>1, <2>2 DEF CountsInv
<1>7. ASSUME NEW w \in Native, Lists(w)
      PROVE  CountsInv'
    BY <1>0, <1>7 DEF Lists, CountsInv
<1>8. CASE (\E w \in Native : NativeOpens(w) \/ NativeCloses(w)) \/ UNCHANGED serviceVars
    BY <1>8 DEF NativeOpens, NativeCloses, serviceVars, CountsInv
<1> QED BY <1>2, <1>3, <1>4, <1>5, <1>6, <1>7, <1>8 DEF ServiceNext, Thread

\* The window service's state is what it should be (ServiceTypeOK).
THEOREM ServiceTypeCorrect == ServiceSpec => []ServiceTypeOK
<1>1. ServiceInit => TableInv /\ CountsInv
    BY ServiceAssumption DEF ServiceInit, TableInv, Handles, CountsInv
<1>2. TableInv /\ CountsInv /\ [ServiceNext]_serviceVars => TableInv' /\ CountsInv'
    BY TableKeeps, CountsKeep, ServiceAssumption
<1>3. TableInv /\ CountsInv => ServiceTypeOK
    BY DEF TableInv, CountsInv, ServiceTypeOK
<1> QED BY <1>1, <1>2, <1>3, PTL DEF ServiceSpec

-----------------------------------------------------------------------------
(* The hint overlay. *)

LEMMA HudTypeKeeps == ASSUME HudTypeOK, [HudNext]_hudVars, HudAssumption PROVE HudTypeOK'
<1> USE DEF HudTypeOK, Kinds
<1>1. ASSUME NEW t \in Shower, NEW kind \in Kinds, Show(t, kind)
      PROVE  HudTypeOK'
    BY <1>1 DEF Show
<1>2. ASSUME NEW t \in Shower, Posting(t)
      PROVE  HudTypeOK'
    BY <1>2 DEF Posting, GivesUp, WritesSlot, Posts, Moves, At, windows
<1>3. ASSUME NEW c \in Card, Loop(c) \/ Hides(c) \/ Destroyed(c)
      PROVE  HudTypeOK'
    BY <1>3 DEF Loop, Ready, Refreshes, ArmsHide, Hides, Destroyed, HudAssumption
<1>4. ASSUME NEW c \in Card, Ticks(c)
      PROVE  HudTypeOK'
    BY <1>4 DEF Ticks, HudAssumption
<1>5. CASE UNCHANGED hudVars
    BY <1>5 DEF hudVars
<1> QED BY <1>1, <1>2, <1>3, <1>4, <1>5 DEF HudNext

\* The overlay's state is what it should be, its animation ended among it (HudTypeOK).
THEOREM HudTypeCorrect == HudSpec => []HudTypeOK
<1>1. HudInit => HudTypeOK
    BY HudAssumption DEF HudInit, HudTypeOK, Kinds, Away, HudAssumption
<1>2. HudTypeOK /\ [HudNext]_hudVars => HudTypeOK'
    BY HudTypeKeeps, HudAssumption
<1> QED BY <1>1, <1>2, PTL DEF HudSpec

-----------------------------------------------------------------------------
(* The target catalogue. *)

\* A window as a reference names it.
IsNamed(v) == v = [hwnd |-> v.hwnd, pid |-> v.pid, app |-> v.app]

\* What lives is noted while a call runs; what is about to be raised or answered
\* has been seen to live in it.
LivedInv ==
    /\ at # "none" => call.op # "none"
    /\ call.op # "none" => Named(Windows) \subseteq lived
    /\ at \in {"raise", "answer"} => chosen \in lived
    /\ at \in {"activate", "raise", "answer"} => IsNamed(chosen)
    /\ DOMAIN bindings = Token
    /\ \A k \in Token : bindings[k] = Nil \/ IsNamed(bindings[k])

LEMMA Answering == ASSUME NEW answering \in Enumerations PROVE answering \subseteq Windows
BY DEF Enumerations

\* A step that keeps the screen and the tokens ends the call, or goes on with a
\* window that has lived in it, or with none.
GoesOnWith == /\ call.op # "none" /\ UNCHANGED <<call, lived>>
              /\ at' \in {"activate", "raise", "answer"} => chosen' \in lived /\ IsNamed(chosen')
CallGoesOn == UNCHANGED <<screen, bindings>> /\ (Finish \/ GoesOnWith)

LEMMA ChoosesLived ==
    ASSUME LivedInv, at # "none", NEW w, NEW v \in Windows, Id(w) = Id(v), Choose(w)
    PROVE  GoesOnWith
<1>1. chosen' = [hwnd |-> v.hwnd, pid |-> v.pid, app |-> v.app]
  BY DEF Choose, Id
<1>2. chosen' \in Named(Windows) /\ IsNamed(chosen')
  BY <1>1 DEF Named, IsNamed
<1>. QED
  BY <1>2 DEF LivedInv, GoesOnWith, Choose, Goto

LEMMA ChoosesAmong ==
    ASSUME LivedInv, at # "none", NEW ws \in SUBSET Windows, ChooseAmong(ws)
    PROVE  Finish \/ GoesOnWith
<1>1. Fits(ws) \subseteq ws
  BY DEF Fits
<1>2. CASE \E w \in ws : Choose(w)
  BY <1>2, ChoosesLived
<1>3. CASE Finish
  BY <1>3
<1>. QED
  BY <1>1, <1>2, <1>3 DEF ChooseAmong, Fail

LEMMA Launches == ASSUME LivedInv, at # "none", Launch PROVE Finish \/ GoesOnWith
BY DEF Launch, Fail, GoesOnWith, Goto, LivedInv

\* Every step of a call but its answer.
LEMMA RunsOn ==
    ASSUME LivedInv, NEW answering \in Enumerations,
           \/ List(answering) \/ LookForBinding(answering) \/ LookForSaved(answering)
           \/ Poll(answering) \/ LookForBound(answering) \/ CheckBeforeRaise(answering)
    PROVE  CallGoesOn
<1>0. answering \subseteq Windows /\ \A a : Of(answering, a) \subseteq Windows
  BY Answering DEF Of
<1>. USE DEF CallGoesOn, Quietly, Tables
<1>1. CASE List(answering)
  BY <1>1 DEF List
<1>2. CASE LookForBinding(answering)
  BY <1>0, <1>2, ChoosesAmong, Launches DEF LookForBinding
<1>3. CASE LookForSaved(answering)
  BY <1>0, <1>3, ChoosesAmong, ChoosesLived, Launches DEF LookForSaved
<1>4. CASE Poll(answering)
  <2>1. at # "none" /\ UNCHANGED <<screen, bindings>>
    BY <1>4 DEF Poll
  <2>2. \/ ChooseAmong(Of(answering, AppOf))
        \/ UNCHANGED <<call, at, chosen, lived>> /\ at = "poll"
    BY <1>4 DEF Poll
  <2>. QED
    BY <1>0, <2>1, <2>2, ChoosesAmong DEF GoesOnWith, LivedInv
<1>5. CASE LookForBound(answering)
  <2>1. \/ Fail
        \/ \E w \in answering : SameWindow(w, chosen) /\ Choose(chosen)
    BY <1>5 DEF LookForBound
  <2>2. at # "none" /\ UNCHANGED <<screen, bindings>>
    BY <1>5 DEF LookForBound
  <2>3. CASE \E w \in answering : SameWindow(w, chosen) /\ Choose(chosen)
    <3>1. PICK w \in Windows : Id(w) = Id(chosen) /\ Choose(chosen)
      BY <1>0, <2>3 DEF SameWindow
    <3>. QED
      BY <2>2, <3>1, ChoosesLived
  <2>. QED
    BY <2>1, <2>2, <2>3 DEF Fail
<1>6. CASE CheckBeforeRaise(answering)
  <2>1. at = "activate" /\ IsNamed(chosen) /\ call.op # "none" /\ UNCHANGED <<screen, bindings>>
    BY <1>6 DEF CheckBeforeRaise, LivedInv
  <2>2. CASE \E w \in answering : SameWindow(w, chosen)
    <3>1. PICK w \in Windows : Id(w) = Id(chosen)
      BY <1>0, <2>2 DEF SameWindow
    <3>2. chosen = [hwnd |-> w.hwnd, pid |-> w.pid, app |-> w.app]
      BY <2>1, <3>1 DEF IsNamed, Id
    <3>3. chosen \in lived
      BY <2>1, <3>2 DEF Named, LivedInv
    <3>. QED
      BY <1>6, <2>1, <2>2, <3>3 DEF CheckBeforeRaise, GoesOnWith, Goto
  <2>. QED
    BY <1>6, <2>1, <2>2 DEF CheckBeforeRaise, Fail
<1>. QED
  BY <1>1, <1>2, <1>3, <1>4, <1>5, <1>6

LEMMA MovesKeepLived == ASSUME LivedInv, CallGoesOn PROVE LivedInv'
<1>1. Windows' = Windows
  BY DEF Windows, CallGoesOn
<1>2. CASE Finish
  BY <1>2 DEF LivedInv, CallGoesOn, Finish, Idle
<1>3. CASE GoesOnWith
  BY <1>1, <1>3 DEF LivedInv, CallGoesOn, GoesOnWith, Named
<1>. QED
  BY <1>2, <1>3 DEF CallGoesOn

LEMMA CallsKeepLived == ASSUME LivedInv, Calls PROVE LivedInv'
<1>1. PICK op, arg, window, fg : Begins(op, arg, window, fg) /\ op # "none" /\ at' \in {"enumerate", "activate"}
                                 /\ (at' = "activate" => IsNamed(window))
  <2>1. CASE BeginList
    BY <2>1 DEF BeginList
  <2>2. CASE \E a \in App, window \in known \cup {Nil}, fg \in BOOLEAN : BeginBind(a, window, fg)
    BY <2>2 DEF BeginBind
  <2>3. CASE \E l \in Locator, fg \in BOOLEAN : BeginSaved(l, fg)
    BY <2>3 DEF BeginSaved
  <2>4. CASE \E k \in Token : BeginEnsure(k) \/ \E fg \in BOOLEAN : BeginScope(k, fg)
    BY <2>4 DEF BeginEnsure, BeginScope, LivedInv
  <2>. QED
    BY <2>1, <2>2, <2>3, <2>4 DEF Calls
<1>2. call'.op = op /\ chosen' = window /\ lived' = Named(Windows) /\ UNCHANGED <<screen, bindings>>
  BY <1>1 DEF Begins, Registry
<1>3. Named(Windows)' = Named(Windows)
  BY <1>2 DEF Named, Windows
<1>. QED
  BY <1>1, <1>2, <1>3 DEF LivedInv

LEMMA DesktopKeepsLived == ASSUME LivedInv, Desktop PROVE LivedInv'
<1>1. Lives /\ Unheeded
  BY DEF Desktop, Opens, Closes, Retitles
<1>2. lived' = IF call.op = "none" THEN {} ELSE lived \cup Named(Windows)'
  BY <1>1 DEF Lives, Named
<1>. QED
  BY <1>1, <1>2 DEF LivedInv, Unheeded, Registry

\* A call that answers with a window answers with one that has lived while it ran
\* (AnswersWhatLived), whatever handles have been taken over meanwhile.
THEOREM AnswersLived == TargetsSpec => AnswersWhatLived
<1>1. TargetsInit => LivedInv
  BY DEF TargetsInit, LivedInv, Idle
<1>2. LivedInv /\ [TargetsNext]_targetVars => LivedInv'
  <2>. SUFFICES ASSUME LivedInv, [TargetsNext]_targetVars PROVE LivedInv'
    OBVIOUS
  <2>1. CASE Calls
    BY <2>1, CallsKeepLived
  <2>2. CASE \E answering \in Enumerations :
                \/ List(answering) \/ LookForBinding(answering) \/ LookForSaved(answering)
                \/ Poll(answering) \/ LookForBound(answering) \/ CheckBeforeRaise(answering)
    BY <2>2, RunsOn, MovesKeepLived
  <2>3. CASE Launched
    BY <2>3, MovesKeepLived DEF Launched, CallGoesOn, GoesOnWith, Goto, Fail, Quietly, Tables, LivedInv
  <2>4. CASE Raise
    BY <2>4, MovesKeepLived DEF Raise, CallGoesOn, GoesOnWith, Goto, Fail, Quietly, Tables, LivedInv
  <2>5. CASE AnswerSaved \/ AnswerScope
    BY <2>5, MovesKeepLived DEF AnswerSaved, AnswerScope, Answered, CallGoesOn, Quietly
  <2>6. CASE AnswerBinding
    <3>1. PICK k \in Token : bindings' = Keep(bindings, k, MaxBindings)
      BY <2>6 DEF AnswerBinding
    <3>2. DOMAIN bindings' = Token /\ \A t \in Token : bindings'[t] \in {chosen, Nil, bindings[t]}
      BY <3>1 DEF Keep, LivedInv
    <3>3. IsNamed(chosen) /\ Finish
      BY <2>6 DEF AnswerBinding, Answered, LivedInv
    <3>. QED
      BY <3>2, <3>3 DEF LivedInv, Finish, Idle
  <2>7. CASE Desktop
    BY <2>7, DesktopKeepsLived
  <2>8. CASE UNCHANGED targetVars
    BY <2>8 DEF targetVars, LivedInv, Windows, Named
  <2>. QED
    BY <2>1, <2>2, <2>3, <2>4, <2>5, <2>6, <2>7, <2>8 DEF TargetsNext, CallRuns
<1>3. LivedInv => [at = "answer" /\ at' = "none" => chosen \in lived]_targetVars
  BY DEF LivedInv
<1>. QED
  BY <1>1, <1>2, <1>3, PTL DEF TargetsSpec, AnswersWhatLived

-----------------------------------------------------------------------------
(* The state is what it should be, and a saved locator sticks to its window. *)

Awaits == {"none", "enumerate", "launch", "poll", "activate", "raise", "answer"}

LEMMA IdentitiesOnScreen ==
    ASSUME TargetsTypeOK, AppearanceAssumption
    PROVE  /\ Named(Windows) \subseteq Identity
           /\ \A w \in Windows : [hwnd |-> w.hwnd, pid |-> w.pid, app |-> w.app] \in Identity
           /\ \A answering \in Enumerations :
                 Named(answering) \subseteq Identity /\ {w.app : w \in answering} \subseteq App
<1>1. \A w \in Windows : w.hwnd \in Handle /\ w.pid \in {v.pid : v \in Appearance} /\ w.app \in App
    <2> SUFFICES ASSUME NEW w \in Windows
                 PROVE  w.hwnd \in Handle /\ w.pid \in {v.pid : v \in Appearance} /\ w.app \in App
        OBVIOUS
    <2>1. PICK h \in Handle :
              /\ screen[h] # Nil
              /\ w = [hwnd |-> h, pid |-> screen[h].pid, app |-> screen[h].app, title |-> screen[h].title]
        BY DEF Windows
    <2>2. screen[h] \in Appearance
        BY <2>1 DEF TargetsTypeOK
    <2> QED BY <2>1, <2>2 DEF AppearanceAssumption
<1>2. \A w \in Windows : [hwnd |-> w.hwnd, pid |-> w.pid, app |-> w.app] \in Identity
    BY <1>1 DEF Identity
<1>3. \A answering \in Enumerations : answering \subseteq Windows
    BY DEF Enumerations
<1> QED BY <1>1, <1>2, <1>3 DEF Named

\* How a step of a call goes on.
Turn == /\ chosen' \in Identity \cup {Nil} /\ known' \subseteq Identity /\ at' \in Awaits
        /\ polls' \in 0 .. Polls /\ lived' \in {lived, {}}

LEMMA FailTurns == ASSUME TargetsTypeOK, PositiveAssumption, Fail \/ (Finish /\ known' \subseteq Identity) PROVE Turn
    BY DEF Fail, Finish, Turn, TargetsTypeOK, Awaits, PositiveAssumption

LEMMA ChoiceTurns ==
    ASSUME TargetsTypeOK, NEW w, [hwnd |-> w.hwnd, pid |-> w.pid, app |-> w.app] \in Identity, Choose(w)
    PROVE  Turn
    BY DEF Choose, Goto, Turn, TargetsTypeOK, Awaits

LEMMA AmongTurns ==
    ASSUME TargetsTypeOK, PositiveAssumption, AppearanceAssumption, NEW ws \in SUBSET Windows, ChooseAmong(ws)
    PROVE  Turn
<1>1. Fits(ws) \subseteq ws
    BY DEF Fits
<1>2. \/ \E w \in ws : Choose(w)
      \/ Fail
      \/ Finish /\ known' \subseteq known \cup Named(Fits(ws))
    BY <1>1 DEF ChooseAmong
<1>3. Named(Fits(ws)) \subseteq Identity /\ known \subseteq Identity
    BY <1>1, IdentitiesOnScreen DEF Named, TargetsTypeOK
<1> QED BY <1>2, <1>3, IdentitiesOnScreen, ChoiceTurns, FailTurns

LEMMA LaunchTurns == ASSUME TargetsTypeOK, PositiveAssumption, Launch PROVE Turn
<1>1. CASE Goto("launch") /\ polls' = Polls /\ UNCHANGED <<known, chosen>>
    BY <1>1 DEF Goto, Turn, TargetsTypeOK, Awaits, PositiveAssumption
<1> QED BY <1>1, FailTurns DEF Launch

\* What a step of a call leaves.
TablesKept == /\ UNCHANGED screen /\ apps' \subseteq App /\ events' \in 0 .. MaxEvents
        /\ bindings' \in [Token -> Identity \cup {Nil}]
        /\ saved' \in [Locator -> Identity \cup {Nil}] /\ stuck' \in [Locator -> Identity \cup {Nil}]

LEMMA TurnKeepsTypes == ASSUME TargetsTypeOK, Turn, TablesKept PROVE TargetsTypeOK'
    BY DEF TargetsTypeOK, Turn, TablesKept, Awaits, Identity

LEMMA Enumerated ==
    ASSUME TargetsTypeOK, AppearanceAssumption, NEW answering, Enumerate(answering)
    PROVE  events' \in 0 .. MaxEvents /\ answering \in Enumerations /\ answering \subseteq Windows
<1>1. answering \in Enumerations /\ answering \subseteq Windows
    BY DEF Enumerate, Enumerations
<1>2. events' \in 0 .. MaxEvents
    BY DEF Enumerate, TargetsTypeOK, AppearanceAssumption
<1> QED BY <1>1, <1>2

LEMMA LooksKeepTypes ==
    ASSUME TargetsTypeOK, PositiveAssumption, AppearanceAssumption, NEW answering,
           \/ List(answering) \/ LookForBinding(answering) \/ LookForSaved(answering)
           \/ Poll(answering) \/ LookForBound(answering) \/ CheckBeforeRaise(answering)
    PROVE  TargetsTypeOK'
<1>1. events' \in 0 .. MaxEvents /\ answering \in Enumerations /\ answering \subseteq Windows
    BY Enumerated DEF List, LookForBinding, LookForSaved, Poll, LookForBound, CheckBeforeRaise
<1>2. \A a : Of(answering, a) \in SUBSET Windows
    BY <1>1 DEF Of
<1>3. ASSUME UNCHANGED <<screen, apps, bindings, saved, stuck>>
      PROVE  TablesKept
    BY <1>1, <1>3 DEF TablesKept, TargetsTypeOK
<1>4. CASE List(answering)
    <2>1. known' \subseteq Identity /\ {w.app : w \in answering} \subseteq App
        BY <1>1, <1>4, IdentitiesOnScreen DEF List
    <2>2. Turn
        BY <1>4, <2>1, FailTurns DEF List
    <2>3. TablesKept
        BY <1>1, <1>4, <2>1 DEF List, TablesKept, AppearanceAssumption, TargetsTypeOK
    <2> QED BY <2>2, <2>3, TurnKeepsTypes
<1>5. CASE LookForBinding(answering)
    <2>1. Launch \/ ChooseAmong(Of(answering, AppOf))
        BY <1>5 DEF LookForBinding
    <2>2. Turn
        BY <1>2, <2>1, LaunchTurns, AmongTurns
    <2>3. TablesKept
        BY <1>3, <1>5 DEF LookForBinding, Quietly, Tables
    <2> QED BY <2>2, <2>3, TurnKeepsTypes
<1>6. CASE LookForSaved(answering)
    <2>1. \/ \E w \in Of(answering, AppOf) : Choose(w) /\ UNCHANGED <<saved, stuck>>
          \/ (Launch \/ ChooseAmong(Of(answering, AppOf))) /\ Forgets(answering)
        BY <1>6 DEF LookForSaved
    <2>2. UNCHANGED <<screen, apps, bindings>>
        BY <1>6 DEF LookForSaved, Quietly, Tables
    <2>3. CASE \E w \in Of(answering, AppOf) : Choose(w) /\ UNCHANGED <<saved, stuck>>
        <3>1. Turn
            BY <1>2, <2>3, IdentitiesOnScreen, ChoiceTurns
        <3> QED BY <1>3, <2>2, <2>3, <3>1, TurnKeepsTypes
    <2>4. CASE (Launch \/ ChooseAmong(Of(answering, AppOf))) /\ Forgets(answering)
        <3>1. Turn
            BY <1>2, <2>4, LaunchTurns, AmongTurns
        <3>2. TablesKept
            BY <1>1, <2>2, <2>4 DEF Forgets, TablesKept, TargetsTypeOK
        <3> QED BY <3>1, <3>2, TurnKeepsTypes
    <2> QED BY <2>1, <2>3, <2>4
<1>7. CASE Poll(answering)
    <2>1. TablesKept
        BY <1>3, <1>7 DEF Poll, Quietly, Tables
    <2>2. \/ polls > 1 /\ polls' = polls - 1 /\ UNCHANGED <<known, call, at, chosen, lived>>
          \/ ChooseAmong(Of(answering, AppOf))
        BY <1>7 DEF Poll, PollsLeft
    <2>3. CASE polls > 1 /\ polls' = polls - 1 /\ UNCHANGED <<known, call, at, chosen, lived>>
        <3>1. polls' \in 0 .. Polls
            BY <2>3 DEF TargetsTypeOK, PositiveAssumption
        <3>2. Turn
            BY <2>3, <3>1 DEF Turn, TargetsTypeOK, Awaits
        <3> QED BY <2>1, <3>2, TurnKeepsTypes
    <2>4. CASE ChooseAmong(Of(answering, AppOf))
        BY <1>2, <2>1, <2>4, AmongTurns, TurnKeepsTypes
    <2> QED BY <2>2, <2>3, <2>4
<1>8. CASE LookForBound(answering)
    <2>1. TablesKept
        BY <1>3, <1>8 DEF LookForBound, Quietly, Tables
    <2>2. \/ Fail
          \/ \E w \in answering : Id(w) = Id(chosen) /\ Choose(chosen)
        BY <1>8 DEF LookForBound, SameWindow
    <2>3. CASE \E w \in answering : Id(w) = Id(chosen) /\ Choose(chosen)
        <3>1. [hwnd |-> chosen.hwnd, pid |-> chosen.pid, app |-> chosen.app] \in Identity
            BY <1>1, <2>3, IdentitiesOnScreen DEF Id
        <3> QED BY <2>1, <2>3, <3>1, ChoiceTurns, TurnKeepsTypes
    <2> QED BY <2>1, <2>2, <2>3, FailTurns, TurnKeepsTypes
<1>9. CASE CheckBeforeRaise(answering)
    <2>1. TablesKept
        BY <1>3, <1>9 DEF CheckBeforeRaise, Quietly, Tables
    <2>2. Fail \/ (Goto("raise") /\ UNCHANGED <<known, chosen, polls>>)
        BY <1>9 DEF CheckBeforeRaise
    <2>3. Turn
        BY <2>2, FailTurns DEF Goto, Turn, TargetsTypeOK, Awaits
    <2> QED BY <2>1, <2>3, TurnKeepsTypes
<1> QED BY <1>4, <1>5, <1>6, <1>7, <1>8, <1>9

LEMMA TargetsTypeKeeps ==
    ASSUME TargetsTypeOK, [TargetsNext]_targetVars, PositiveAssumption, AppearanceAssumption
    PROVE  TargetsTypeOK'
<1>1. CASE Calls
    <2>1. PICK op, arg, window, fg :
              Begins(op, arg, window, fg) /\ window \in Identity \cup {Nil} /\ at' \in {"enumerate", "activate"}
        <3>1. CASE BeginList
            BY <3>1 DEF BeginList
        <3>2. CASE \E a \in App, window \in known \cup {Nil}, fg \in BOOLEAN : BeginBind(a, window, fg)
            BY <3>2 DEF BeginBind, TargetsTypeOK
        <3>3. CASE \E l \in Locator, fg \in BOOLEAN : BeginSaved(l, fg)
            BY <3>3 DEF BeginSaved
        <3>4. CASE \E k \in Token : BeginEnsure(k) \/ \E fg \in BOOLEAN : BeginScope(k, fg)
            BY <3>4 DEF BeginEnsure, BeginScope, TargetsTypeOK
        <3> QED BY <1>1, <3>1, <3>2, <3>3, <3>4 DEF Calls
    <2>2. chosen' = window /\ lived' = Named(Windows) /\ UNCHANGED <<screen, Registry, polls, stuck, events>>
        BY <2>1 DEF Begins
    <2>3. lived' \subseteq Identity
        BY <2>2, IdentitiesOnScreen
    <2> QED BY <2>1, <2>2, <2>3 DEF TargetsTypeOK, Registry, Identity
<1>2. CASE \E answering \in Enumerations :
              \/ List(answering) \/ LookForBinding(answering) \/ LookForSaved(answering)
              \/ Poll(answering) \/ LookForBound(answering) \/ CheckBeforeRaise(answering)
    BY <1>2, LooksKeepTypes
<1>3. CASE Launched \/ Raise
    <2>1. Fail \/ ((Goto("poll") \/ Goto("answer")) /\ UNCHANGED <<known, chosen, polls>>)
        BY <1>3 DEF Launched, Raise
    <2>2. Turn
        BY <2>1, FailTurns DEF Goto, Turn, TargetsTypeOK, Awaits
    <2>3. TablesKept
        BY <1>3 DEF Launched, Raise, Quietly, Tables, TablesKept, TargetsTypeOK
    <2> QED BY <2>2, <2>3, TurnKeepsTypes
<1>4. CASE AnswerBinding \/ AnswerSaved \/ AnswerScope
    <2>1. Finish /\ UNCHANGED <<screen, known, apps, events>>
        BY <1>4 DEF AnswerBinding, AnswerSaved, AnswerScope, Answered, Quietly
    <2>2. Turn
        BY <2>1, FailTurns DEF TargetsTypeOK
    <2>3. \A tokens, key, cap : DOMAIN (Keep(tokens, key, cap)) = DOMAIN tokens
              /\ Keep(tokens, key, cap) = [k \in DOMAIN tokens |-> Keep(tokens, key, cap)[k]]
              /\ \A k \in DOMAIN tokens : Keep(tokens, key, cap)[k] \in {chosen, Nil, tokens[k]}
        BY DEF Keep
    <2>4. bindings' \in [Token -> Identity \cup {Nil}]
        <3>1. bindings' = bindings \/ \E k \in Token : bindings' = Keep(bindings, k, MaxBindings)
            BY <1>4 DEF AnswerBinding, AnswerSaved, AnswerScope
        <3> QED BY <2>3, <3>1 DEF TargetsTypeOK
    <2>5. saved' \in [Locator -> Identity \cup {Nil}]
        <3>1. saved' = saved \/ saved' = Keep(saved, call.arg, MaxSaved)
            BY <1>4 DEF AnswerBinding, AnswerSaved, AnswerScope
        <3> QED BY <2>3, <3>1 DEF TargetsTypeOK
    <2>6. stuck' \in [Locator -> Identity \cup {Nil}]
        <3>1. \/ stuck' = stuck
              \/ stuck' = [l \in Locator |-> IF l = call.arg THEN chosen
                                             ELSE IF saved'[l] = saved[l] THEN stuck[l] ELSE Nil]
            BY <1>4 DEF AnswerBinding, AnswerSaved, AnswerScope
        <3> QED BY <3>1 DEF TargetsTypeOK
    <2>7. TablesKept
        BY <2>1, <2>4, <2>5, <2>6 DEF TablesKept, TargetsTypeOK
    <2> QED BY <2>2, <2>7, TurnKeepsTypes
<1>5. CASE Desktop
    <2>1. UNCHANGED <<known, apps, bindings, saved, at, chosen, polls>> /\ Lives
          /\ events' \in 0 .. MaxEvents
        BY <1>5 DEF Desktop, Opens, Closes, Retitles, Unheeded, Registry, Happens, TargetsTypeOK, AppearanceAssumption
    <2>2. screen' \in [Handle -> Appearance \cup {Nil}]
        BY <1>5 DEF Desktop, Opens, Closes, Retitles, TargetsTypeOK
    <2>3. stuck' \in [Locator -> Identity \cup {Nil}]
        BY <1>5 DEF Desktop, Opens, Closes, Retitles, TargetsTypeOK
    <2>4. TargetsTypeOK' <=> lived' \subseteq Identity
        BY <2>1, <2>2, <2>3 DEF TargetsTypeOK, Identity
    <2>5. Named(Windows)' \subseteq Identity
        <3>1. \A w \in Windows' : \E h \in Handle :
                  screen'[h] # Nil
                  /\ w = [hwnd |-> h, pid |-> screen'[h].pid, app |-> screen'[h].app, title |-> screen'[h].title]
            BY DEF Windows
        <3>2. \A h \in Handle : screen'[h] # Nil =>
                  screen'[h].pid \in {v.pid : v \in Appearance} /\ screen'[h].app \in App
            BY <2>2 DEF AppearanceAssumption
        <3>3. \A w \in Windows' : [hwnd |-> w.hwnd, pid |-> w.pid, app |-> w.app] \in Identity
            BY <3>1, <3>2 DEF Identity
        <3> QED BY <3>3 DEF Named
    <2>6. lived' \subseteq lived \cup Named(Windows)'
        BY <2>1 DEF Lives, Named
    <2>7. lived' \subseteq Identity
        BY <2>5, <2>6 DEF TargetsTypeOK
    <2> QED BY <2>4, <2>7
<1>6. CASE UNCHANGED targetVars
    BY <1>6 DEF targetVars, TargetsTypeOK, Identity
<1> QED BY <1>1, <1>2, <1>3, <1>4, <1>5, <1>6 DEF TargetsNext, CallRuns

LEMMA TargetsTypeInit == TargetsInit /\ PositiveAssumption /\ AppearanceAssumption => TargetsTypeOK
    BY DEF TargetsInit, TargetsTypeOK, PositiveAssumption, AppearanceAssumption

\* The catalogue's state is what it should be (TargetsTypeOK).
THEOREM TargetsTypeCorrect == TargetsSpec => []TargetsTypeOK
<1>1. TargetsInit => TargetsTypeOK
    BY TargetsTypeInit, PositiveAssumption, AppearanceAssumption
<1>2. TargetsTypeOK /\ [TargetsNext]_targetVars => TargetsTypeOK'
    BY TargetsTypeKeeps, PositiveAssumption, AppearanceAssumption
<1> QED BY <1>1, <1>2, PTL DEF TargetsSpec

\* A saved locator that sticks holds its window, and the call under way goes to it,
\* or has not chosen yet.
SavedInv ==
    /\ \A l \in Locator : stuck[l] # Nil => saved[l] = stuck[l] /\ stuck[l].app = l.app
    /\ call.op = "saved" =>
          /\ call.arg \in Locator
          /\ at \in {"launch", "poll"} => stuck[call.arg] = Nil
          /\ at \in {"activate", "raise", "answer"} =>
                chosen.app = call.arg.app /\ (stuck[call.arg] # Nil => chosen = stuck[call.arg])

\* A step of the call of a saved locator chooses a window of its application, which is
\* the one it sticks to, or does not choose and sticks to none.
ToSaved(l) ==
    \/ Finish
    \/ /\ UNCHANGED call
       /\ \/ at' \in {"launch", "poll"} /\ stuck'[l] = Nil
          \/ at' \in {"activate", "raise", "answer"} /\ chosen'.app = l.app
             /\ (stuck'[l] # Nil => chosen' = stuck'[l])
SavedKept ==
    \A l \in Locator : stuck'[l] # Nil => stuck'[l] = stuck[l] /\ saved'[l] = saved[l]

LEMMA SavedMoves ==
    ASSUME SavedInv, SavedKept, call.op = "saved" => ToSaved(call.arg), call.op # "saved" => call'.op # "saved"
    PROVE  SavedInv'
<1>1. \A l \in Locator : stuck'[l] # Nil => saved'[l] = stuck'[l] /\ stuck'[l].app = l.app
    BY DEF SavedKept, SavedInv
<1>2. CASE call'.op # "saved"
    BY <1>1, <1>2 DEF SavedInv
<1>3. CASE call'.op = "saved"
    <2>1. call' = call /\ ToSaved(call.arg) /\ call.op = "saved"
        BY <1>3 DEF ToSaved, Finish, Idle
    <2> QED BY <1>1, <2>1, <1>3 DEF SavedInv, ToSaved, Finish, Idle
<1> QED BY <1>2, <1>3

\* What a saved locator sticks to is found while it answers.
LEMMA LookingSticks ==
    ASSUME TargetsTypeOK, AppearanceAssumption, SavedInv, NEW answering, LookForSaved(answering)
    PROVE  SavedKept /\ ToSaved(call.arg)
<1> DEFINE l == call.arg
           ws == Of(answering, AppOf)
<1>1. l \in Locator /\ AppOf = l.app /\ answering \subseteq Windows /\ at = "enumerate" /\ call.op = "saved"
    BY Enumerated DEF LookForSaved, SavedInv, AppOf
<1>2. \A w \in ws : w \in answering /\ w.app = l.app
    BY <1>1 DEF Of
<1>3. CASE \E w \in ws : Retained(w) /\ Choose(w) /\ UNCHANGED <<saved, stuck>>
    <2>1. PICK w \in ws : Retained(w) /\ Choose(w) /\ UNCHANGED <<saved, stuck>>
        BY <1>3
    <2>2. chosen' = [hwnd |-> w.hwnd, pid |-> w.pid, app |-> w.app] /\ call' = call
          /\ at' \in {"activate", "raise", "answer"}
        BY <2>1 DEF Choose, Goto
    <2>3. stuck[l] # Nil => stuck[l] = chosen'
        <3> SUFFICES ASSUME stuck[l] # Nil
                     PROVE  stuck[l] = chosen'
            OBVIOUS
        <3>1. saved[l] = stuck[l] /\ saved[l] \in Identity
            BY <1>1 DEF SavedInv, TargetsTypeOK
        <3>2. Id(w) = Id(saved[l])
            BY <2>1 DEF Retained, SameWindow
        <3> QED BY <2>2, <3>1, <3>2 DEF Id, Identity
    <2>4. chosen'.app = l.app
        BY <1>2, <2>2
    <2>5. stuck'[l] # Nil => chosen' = stuck'[l]
        BY <2>1, <2>3
    <2> QED BY <2>1, <2>2, <2>4, <2>5 DEF ToSaved, SavedKept
<1>4. CASE (\A w \in ws : ~Retained(w)) /\ Forgets(answering) /\ (Launch \/ ChooseAmong(ws))
    <2>1. stuck[l] # Nil => stuck[l] \notin Named(answering)
        <3> SUFFICES ASSUME stuck[l] # Nil, stuck[l] \in Named(answering)
                     PROVE  FALSE
            OBVIOUS
        <3>1. PICK w \in answering : stuck[l] = [hwnd |-> w.hwnd, pid |-> w.pid, app |-> w.app]
            BY DEF Named
        <3>2. saved[l] = stuck[l] /\ stuck[l].app = l.app
            BY <1>1 DEF SavedInv
        <3>3. w \in ws
            BY <1>1, <3>1, <3>2 DEF Of
        <3>4. Id(w) = Id(saved[l])
            BY <3>1, <3>2 DEF Id
        <3> QED BY <1>4, <3>2, <3>3, <3>4 DEF Retained, SameWindow
    <2>2. stuck'[l] = Nil
        BY <1>1, <1>4, <2>1 DEF Forgets, TargetsTypeOK
    <2>3. SavedKept
        <3>1. \A k \in Locator : k # l => saved'[k] = saved[k] /\ stuck'[k] = stuck[k]
            BY <1>1, <1>4 DEF Forgets, TargetsTypeOK
        <3> QED BY <2>2, <3>1 DEF SavedKept
    <2>4. Finish \/ (at' = "launch" /\ UNCHANGED call) \/ \E w \in ws : Choose(w)
        <3>1. Fits(ws) \subseteq ws
            BY DEF Fits
        <3> QED BY <1>4, <3>1 DEF Launch, ChooseAmong, Fail, Goto
    <2>5. ASSUME NEW w \in ws, Choose(w)
          PROVE  ToSaved(l)
        <3>1. chosen' = [hwnd |-> w.hwnd, pid |-> w.pid, app |-> w.app] /\ call' = call
              /\ at' \in {"activate", "raise", "answer"}
            BY <2>5 DEF Choose, Goto
        <3> QED BY <1>2, <2>2, <3>1 DEF ToSaved
    <2> QED BY <2>2, <2>3, <2>4, <2>5 DEF ToSaved
<1> QED BY <1>3, <1>4 DEF LookForSaved

LEMMA RunningSticks ==
    ASSUME TargetsTypeOK, AppearanceAssumption, SavedInv, NEW answering,
           \/ List(answering) \/ LookForBinding(answering) \/ Poll(answering)
           \/ LookForBound(answering) \/ CheckBeforeRaise(answering) \/ Launched \/ Raise
    PROVE  SavedInv'
<1>1. UNCHANGED <<saved, stuck>>
    BY DEF List, LookForBinding, Poll, LookForBound, CheckBeforeRaise, Launched, Raise
<1>2. SavedKept
    BY <1>1 DEF SavedKept
<1>3. UNCHANGED call \/ Finish
    BY DEF List, LookForBinding, Poll, LookForBound, CheckBeforeRaise, Launched, Raise,
           Launch, ChooseAmong, Choose, Goto, Fail
<1>4. call.op # "saved" => call'.op # "saved"
    BY <1>3 DEF Finish, Idle
<1>5. ASSUME call.op = "saved"
      PROVE  ToSaved(call.arg)
    <2> DEFINE l == call.arg
    <2>1. CASE Finish
        BY <2>1 DEF ToSaved
    <2>2. CASE Poll(answering) /\ ~Finish
        <3>1. stuck'[l] = Nil
            BY <1>1, <1>5, <2>2 DEF Poll, SavedInv
        <3>2. (at' = "poll" /\ call' = call) \/ ChooseAmong(Of(answering, AppOf))
            BY <2>2 DEF Poll
        <3>3. Fits(Of(answering, AppOf)) \subseteq Of(answering, AppOf)
            BY DEF Fits
        <3>4. (at' = "poll" /\ call' = call) \/ \E w \in Of(answering, AppOf) : Choose(w)
            BY <2>2, <3>2, <3>3 DEF ChooseAmong, Fail
        <3>5. ASSUME NEW w \in Of(answering, AppOf), Choose(w)
              PROVE  chosen'.app = l.app /\ at' \in {"activate", "raise", "answer"} /\ call' = call
            BY <1>5, <3>5 DEF Choose, Goto, Of, AppOf
        <3> QED BY <3>1, <3>4, <3>5 DEF ToSaved
    <2>3. CASE (CheckBeforeRaise(answering) \/ Raise) /\ ~Finish
        <3>1. UNCHANGED <<call, chosen>> /\ at \in {"activate", "raise"} /\ at' \in {"raise", "answer"}
            BY <2>3 DEF CheckBeforeRaise, Raise, Fail, Goto
        <3> QED BY <1>1, <1>5, <3>1 DEF ToSaved, SavedInv
    <2>4. CASE Launched /\ ~Finish
        <3>1. UNCHANGED call /\ at = "launch" /\ at' = "poll"
            BY <2>4 DEF Launched, Fail, Goto
        <3> QED BY <1>1, <1>5, <3>1 DEF ToSaved, SavedInv
    <2>5. CASE List(answering) \/ LookForBinding(answering) \/ LookForBound(answering)
        BY <1>5, <2>5 DEF List, LookForBinding, LookForBound
    <2> QED BY <2>1, <2>2, <2>3, <2>4, <2>5
<1> QED BY <1>2, <1>4, <1>5, SavedMoves

LEMMA AnswersStick ==
    ASSUME TargetsTypeOK, SavedInv, AnswerBinding \/ AnswerSaved \/ AnswerScope
    PROVE  SavedInv'
<1>1. Finish /\ at = "answer"
    BY DEF AnswerBinding, AnswerSaved, AnswerScope, Answered
<1>2. call'.op # "saved"
    BY <1>1 DEF Finish, Idle
<1>3. CASE AnswerBinding \/ AnswerScope
    BY <1>2, <1>3 DEF AnswerBinding, AnswerScope, SavedInv
<1>4. CASE AnswerSaved
    <2> DEFINE l == call.arg
    <2>1. l \in Locator /\ chosen.app = l.app
        BY <1>1, <1>4 DEF AnswerSaved, SavedInv
    <2>2. (saved' = saved /\ saved[l] = chosen) \/ saved' = Keep(saved, l, MaxSaved)
        BY <1>4 DEF AnswerSaved
    <2>3. saved'[l] = chosen
        BY <2>1, <2>2 DEF Keep, TargetsTypeOK
    <2>4. \A k \in Locator : stuck'[k] = IF k = l THEN chosen ELSE IF saved'[k] = saved[k] THEN stuck[k] ELSE Nil
        BY <1>4 DEF AnswerSaved
    <2>5. ASSUME NEW k \in Locator, stuck'[k] # Nil
          PROVE  saved'[k] = stuck'[k] /\ stuck'[k].app = k.app
        <3>1. CASE k = l
            BY <2>1, <2>3, <2>4, <3>1
        <3>2. CASE k # l
            BY <2>4, <2>5, <3>2 DEF SavedInv
        <3> QED BY <3>1, <3>2
    <2> QED BY <1>2, <2>5 DEF SavedInv
<1> QED BY <1>3, <1>4

LEMMA SavedKeeps ==
    ASSUME TargetsTypeOK, SavedInv, [TargetsNext]_targetVars, AppearanceAssumption
    PROVE  SavedInv'
<1>1. CASE Calls
    <2>1. CASE \E l \in Locator, fg \in BOOLEAN : BeginSaved(l, fg)
        BY <2>1 DEF BeginSaved, Begins, Registry, SavedInv
    <2>2. CASE ~\E l \in Locator, fg \in BOOLEAN : BeginSaved(l, fg)
        <3>1. UNCHANGED <<saved, stuck>> /\ call'.op # "saved"
            BY <1>1, <2>2 DEF Calls, BeginList, BeginBind, BeginEnsure, BeginScope, Begins, Registry
        <3> QED BY <3>1 DEF SavedInv
    <2> QED BY <2>1, <2>2
<1>2. CASE CallRuns
    <2>1. CASE \E answering \in Enumerations : LookForSaved(answering)
        <3>1. SavedKept /\ ToSaved(call.arg) /\ call.op = "saved"
            BY <2>1, LookingSticks DEF LookForSaved
        <3> QED BY <3>1, SavedMoves
    <2>2. CASE AnswerBinding \/ AnswerSaved \/ AnswerScope
        BY <2>2, AnswersStick
    <2> QED BY <1>2, <2>1, <2>2, RunningSticks DEF CallRuns
<1>3. CASE Desktop
    <2>1. UNCHANGED <<saved, call, at, chosen>> /\ \A l \in Locator : stuck'[l] \in {Nil, stuck[l]}
        BY <1>3 DEF Desktop, Opens, Closes, Retitles, Unheeded, Registry, TargetsTypeOK
    <2> QED BY <2>1 DEF SavedInv
<1>4. CASE UNCHANGED targetVars
    BY <1>4 DEF targetVars, SavedInv
<1> QED BY <1>1, <1>2, <1>3, <1>4 DEF TargetsNext

\* A saved locator is resolved to the window it was last resolved to, as long as that
\* one answers every enumeration (SavedSticks): ensure_saved_scope.
THEOREM SavedLocatorsStick == TargetsSpec => SavedSticks
<1>1. TargetsInit => TargetsTypeOK /\ SavedInv
    BY TargetsTypeInit, PositiveAssumption, AppearanceAssumption DEF TargetsInit, SavedInv, Idle
<1>2. TargetsTypeOK /\ SavedInv /\ [TargetsNext]_targetVars => TargetsTypeOK' /\ SavedInv'
    BY TargetsTypeKeeps, SavedKeeps, PositiveAssumption, AppearanceAssumption
<1>3. SavedInv => [AnswerSaved /\ stuck[call.arg] # Nil => chosen = stuck[call.arg]]_targetVars
    BY DEF SavedInv, AnswerSaved, Answered
<1> QED BY <1>1, <1>2, <1>3, PTL DEF TargetsSpec, SavedSticks

-----------------------------------------------------------------------------
(* Verification of an expected state. *)

Expectations == [condition : Conditions, byId : BOOLEAN, byTitle : BOOLEAN, samples : 1 .. MaxSamples]

\* A sample says of the desktop what is so.
Honest(s) == (s = "satisfied" => True(expected)) /\ (s = "unsatisfied" => False(expected))

LEMMA NoWindowIs ==
    ASSUME expected \in Expectations, Meant(expected) = {}
    PROVE  (expected.condition = "window_absent" => True(expected))
           /\ (expected.condition # "window_absent" => False(expected))
    BY DEF Expectations, True, False, Conditions

\* All windows there are answer, and none is one that is meant.
LEMMA MissingIsAbsent ==
    ASSUME place = "resolve", Resolve(expected, There) = "missing"
    PROVE  Meant(expected) = {}
<1>1. There = {} \/ (Resolved(expected, There) = {} /\ ~expected.byId)
    BY DEF Resolve
<1>2. CASE There = {}
    BY <1>2 DEF Meant
<1>3. CASE There # {} /\ Resolved(expected, There) = {} /\ ~expected.byId
    <2>1. expected.byTitle /\ There \cap titled = {}
        BY <1>3 DEF Resolved
    <2> QED BY <1>3, <2>1 DEF Meant
<1> QED BY <1>1, <1>2, <1>3

LEMMA SomeControl == ASSUME NEW S, Cardinality(S) = 1 PROVE S # {}
    BY FS_EmptySet

LEMMA EvaluatesHonestly ==
    ASSUME expected \in Expectations, place = "read", scope \in There, IsMeant(expected, scope),
           NEW seen \in SUBSET panes[scope], NEW cut \in BOOLEAN, ~cut => seen = panes[scope]
    PROVE  Honest(Evaluate(expected, seen, cut))
<1>1. Meant(expected) = {scope}
    BY DEF Meant, IsMeant, There
<1>2. Cardinality(seen) = 1 => seen # {}
    BY SomeControl
<1> DEFINE s == Evaluate(expected, seen, cut)
<1>3. CASE expected.condition \in {"window_exists", "window_absent"}
    BY <1>1, <1>3 DEF Honest, Evaluate, True
<1>4. CASE expected.condition = "exists"
    <2>1. s = "satisfied" => seen # {}
        BY <1>2, <1>4 DEF Evaluate
    <2>2. s = "unsatisfied" => seen = {} /\ ~cut
        BY <1>2, <1>4 DEF Evaluate
    <2>3. (True(expected) <=> panes[scope] # {}) /\ (False(expected) <=> (panes[scope] = {}))
        BY <1>1, <1>4 DEF True, False
    <2> QED BY <2>1, <2>2, <2>3 DEF Honest
<1>5. CASE expected.condition = "absent"
    <2>1. s = "satisfied" => seen = {} /\ ~cut
        BY <1>2, <1>5 DEF Evaluate
    <2>2. s = "unsatisfied" => seen # {}
        BY <1>2, <1>5 DEF Evaluate
    <2>3. (True(expected) <=> panes[scope] = {}) /\ (False(expected) <=> (panes[scope] # {}))
        BY <1>1, <1>5 DEF True, False
    <2> QED BY <2>1, <2>2, <2>3 DEF Honest
<1>6. CASE expected.condition = "state"
    <2>1. s = "satisfied" => "match" \in seen
        BY <1>6 DEF Evaluate
    <2>2. s = "unsatisfied" => (seen = {} /\ ~cut) \/ "mismatch" \in seen
        BY <1>6 DEF Evaluate
    <2>3. (True(expected) <=> "match" \in panes[scope]) /\ (False(expected) <=> (panes[scope] = {} \/ "mismatch" \in panes[scope]))
        BY <1>1, <1>6 DEF True, False
    <2> QED BY <2>1, <2>2, <2>3 DEF Honest
<1> QED BY <1>3, <1>4, <1>5, <1>6 DEF Expectations, Conditions

\* What a sample counts it has seen to be true.
VerdictInv ==
    /\ VerifyTypeOK /\ missed \in BOOLEAN
    /\ place # "idle" => expected \in Expectations
    /\ place # "idle" /\ ~missed => stable <= trueFor
Verdict ==
    place # "idle" /\ place' = "idle" /\ ~missed' =>
        /\ status' = "satisfied" => trueFor' >= expected.samples
        /\ status' = "unsatisfied" => failed'

LEMMA SamplesCount ==
    ASSUME VerdictInv, place # "idle", UNCHANGED worldVars, NEW s \in {"satisfied", "unsatisfied", "unknown"},
           missed' \in BOOLEAN, ~missed' => ~missed /\ Honest(s), Sampled(s), PaneAssumption, SamplesAssumption
    PROVE  VerdictInv' /\ Verdict
<1>1. stable \in Nat /\ trueFor \in Nat /\ expected \in Expectations /\ expected.samples \in Nat
    BY DEF VerdictInv, VerifyTypeOK, Expectations, SamplesAssumption
<1>2. stable' = (IF s = "satisfied" THEN stable + 1 ELSE 0) /\ stable' \in Nat
    BY <1>1 DEF Sampled, Count
<1>3. trueFor' = (IF ~True(expected) THEN 0
                  ELSE IF trueFor = expected.samples THEN trueFor ELSE trueFor + 1) /\ trueFor' \in Nat
    BY <1>1 DEF Sampled
<1>4. \/ place' = "idle" /\ expected' = NoPane /\ status' \in {"satisfied", "unsatisfied", "unknown"}
         /\ (status' = "satisfied" => stable' >= expected.samples)
         /\ (status' = "unsatisfied" => s = "unsatisfied")
      \/ place' = "resolve" /\ UNCHANGED <<expected, status>> /\ ~(stable' >= expected.samples)
    BY <1>2 DEF Sampled, Count
<1>5. ~missed' => stable' <= trueFor' \/ trueFor' >= expected.samples
    <2>1. ASSUME ~missed', s = "satisfied"
          PROVE  stable' <= trueFor' \/ trueFor' >= expected.samples
        <3>1. True(expected) /\ stable <= trueFor
            BY <2>1 DEF Honest, VerdictInv
        <3> QED BY <1>1, <1>2, <1>3, <2>1, <3>1
    <2>2. ASSUME s # "satisfied"
          PROVE  stable' <= trueFor'
        BY <1>2, <1>3, <2>2
    <2> QED BY <2>1, <2>2
<1>6. Verdict
    <2>1. ~missed' /\ place' = "idle" /\ status' = "satisfied" => trueFor' >= expected.samples
        BY <1>1, <1>2, <1>3, <1>4, <1>5
    <2>2. failed' = False(expected)
        BY DEF Sampled
    <2> QED BY <1>4, <2>1, <2>2 DEF Verdict, Honest
<1>7. ~missed' /\ place' # "idle" => stable' <= trueFor'
    BY <1>1, <1>2, <1>3, <1>4, <1>5
<1>8. VerifyTypeOK'
    BY <1>2, <1>3, <1>4 DEF VerifyTypeOK, VerdictInv, worldVars, Sampled
<1>9. place' # "idle" => expected' \in Expectations
    BY <1>1, <1>4
<1> QED BY <1>6, <1>7, <1>8, <1>9 DEF VerdictInv

LEMMA SamplesKeepVerdict ==
    ASSUME VerdictInv, Sample, PaneAssumption, SamplesAssumption
    PROVE  VerdictInv' /\ Verdict
<1>0. UNCHANGED worldVars /\ place # "idle" /\ (place # "idle" => expected \in Expectations)
    BY DEF Sample, FindWindow, FindFails, Observe, ObserveFails, VerdictInv
<1>1. Honest("unknown")
    BY DEF Honest
<1>2. CASE FindFails \/ ObserveFails
    <2>1. Sampled("unknown") /\ missed' = missed
        BY <1>2 DEF FindFails, ObserveFails
    <2> QED BY <1>0, <1>1, <2>1, SamplesCount DEF VerdictInv
<1>3. CASE Observe
    <2>1. place = "read" /\ scope \in There /\ missed' = missed
        BY <1>3 DEF Observe
    <2>2. PICK seen \in SUBSET panes[scope], cut \in BOOLEAN :
              /\ ~cut => seen = panes[scope]
              /\ Sampled(IF IsMeant(expected, scope) THEN Evaluate(expected, seen, cut) ELSE "unknown")
        BY <1>3 DEF Observe
    <2>3. CASE ~IsMeant(expected, scope)
        BY <1>0, <1>1, <2>1, <2>2, <2>3, SamplesCount DEF VerdictInv
    <2>4. CASE IsMeant(expected, scope)
        <3> DEFINE s == Evaluate(expected, seen, cut)
        <3>1. Honest(s)
            BY <1>0, <2>1, <2>2, <2>4, EvaluatesHonestly
        <3>2. s \in {"satisfied", "unsatisfied", "unknown"}
            BY <1>0 DEF Evaluate, Expectations, Conditions
        <3>3. Sampled(s)
            BY <2>2, <2>4
        <3> HIDE DEF s
        <3> QED BY <1>0, <2>1, <3>1, <3>2, <3>3, SamplesCount DEF VerdictInv
    <2> QED BY <2>3, <2>4
<1>4. CASE FindWindow
    <2>1. PICK ws \in SUBSET There :
              /\ IF ws = There THEN UNCHANGED missed ELSE missed' = TRUE
              /\ \/ /\ Resolve(expected, ws) = "missing"
                    /\ Sampled(IF expected.condition = "window_absent" THEN "satisfied" ELSE "unsatisfied")
                 \/ Resolve(expected, ws) = "unknown" /\ Sampled("unknown")
                 \/ /\ Resolve(expected, ws) = "found"
                    /\ place' = "read" /\ scope' \in Resolved(expected, ws)
                    /\ UNCHANGED <<expected, stable, status, trueFor, failed>>
        BY <1>4 DEF FindWindow
    <2>2. missed' \in BOOLEAN /\ (~missed' => ~missed /\ ws = There) /\ place = "resolve"
        BY <1>4, <2>1 DEF VerdictInv, FindWindow
    <2>3. CASE Resolve(expected, ws) = "missing"
               /\ Sampled(IF expected.condition = "window_absent" THEN "satisfied" ELSE "unsatisfied")
        <3> DEFINE s == IF expected.condition = "window_absent" THEN "satisfied" ELSE "unsatisfied"
        <3>1. ~missed' => Honest(s)
            BY <1>0, <2>2, <2>3, MissingIsAbsent, NoWindowIs DEF Honest
        <3>2. s \in {"satisfied", "unsatisfied", "unknown"}
            OBVIOUS
        <3> HIDE DEF s
        <3>3. Sampled(s)
            BY <2>3 DEF s
        <3> QED BY <1>0, <2>2, <3>1, <3>2, <3>3, SamplesCount
    <2>4. CASE Sampled("unknown")
        BY <1>0, <1>1, <2>2, <2>4, SamplesCount
    <2>5. CASE place' = "read" /\ scope' \in Resolved(expected, ws)
               /\ UNCHANGED <<expected, stable, status, trueFor, failed>>
        <3>1. scope' \in Pane
            BY <2>5 DEF Resolved, There
        <3> QED BY <1>0, <2>2, <2>5, <3>1 DEF VerdictInv, VerifyTypeOK, worldVars, Verdict
    <2> QED BY <2>1, <2>3, <2>4, <2>5
<1> QED BY <1>2, <1>3, <1>4 DEF Sample

LEMMA VerdictKeeps ==
    ASSUME VerdictInv, [VerifyNext]_verifyVars, PaneAssumption, SamplesAssumption
    PROVE  VerdictInv' /\ [Verdict]_verifyVars
<1>1. CASE Sample
    BY <1>1, SamplesKeepVerdict
<1>2. ASSUME NEW c \in Conditions, NEW byId \in BOOLEAN, NEW byTitle \in BOOLEAN,
             NEW patient \in BOOLEAN, NEW n \in 1 .. MaxSamples,
             Expect(c, byId, byTitle, n, patient)
      PROVE  VerdictInv' /\ Verdict
    <2>1. expected' \in Expectations
        BY <1>2 DEF Expect, Expectations
    <2>2. VerifyTypeOK'
        BY <1>2, <2>1 DEF Expect, VerdictInv, VerifyTypeOK, worldVars, Expectations
    <2>3. place = "idle" /\ place' # "idle" /\ missed' \in BOOLEAN
        BY <1>2 DEF Expect
    <2>4. stable' = 0 /\ trueFor' = 0
        BY <1>2 DEF Expect
    <2>5. stable' <= trueFor'
        BY <2>4
    <2> QED BY <2>1, <2>2, <2>3, <2>5 DEF VerdictInv, Verdict
<1>3. CASE DeadlinePasses
    BY <1>3 DEF DeadlinePasses, VerdictInv, VerifyTypeOK, worldVars, Verdict
<1>4. ASSUME NEW w \in Pane, NEW c \in Controls \cup {Gone}, WindowChanges(w, c)
      PROVE  VerdictInv' /\ Verdict
    BY <1>4 DEF WindowChanges, VerdictInv, VerifyTypeOK, Verdict
<1>5. ASSUME NEW w \in Pane, TitleChanges(w)
      PROVE  VerdictInv' /\ Verdict
    BY <1>5 DEF TitleChanges, VerdictInv, VerifyTypeOK, Verdict
<1>6. ASSUME NEW w \in Pane, IdChanges(w)
      PROVE  VerdictInv' /\ Verdict
    BY <1>6 DEF IdChanges, VerdictInv, VerifyTypeOK, Verdict
<1>7. CASE UNCHANGED verifyVars
    BY <1>7 DEF verifyVars, VerdictInv, VerifyTypeOK
<1> QED BY <1>1, <1>2, <1>3, <1>4, <1>5, <1>6, <1>7 DEF VerifyNext

LEMMA VerdictInit == VerifyInit => VerdictInv
<1>1. VerifyInit => VerifyTypeOK
    BY DEF VerifyInit, VerifyTypeOK
<1> QED BY <1>1 DEF VerifyInit, VerdictInv

\* The verification's state is what it should be (VerifyTypeOK).
THEOREM VerifyTypeCorrect == VerifySpec => []VerifyTypeOK
<1>1. VerdictInv /\ [VerifyNext]_verifyVars => VerdictInv'
    BY VerdictKeeps, PaneAssumption, SamplesAssumption
<1>2. VerdictInv => VerifyTypeOK
    BY DEF VerdictInv
<1> QED BY <1>1, <1>2, VerdictInit, PTL DEF VerifySpec

\* "satisfied" is answered only if the condition was true in as many samples running
\* as were asked for, "unsatisfied" only if it was false in the last, of a window that
\* bore the locator's id or title then, however many may bear it (VerdictsAreTrue).
THEOREM VerdictsHold == VerifySpec => VerdictsAreTrue
<1>1. VerdictInv /\ [VerifyNext]_verifyVars => VerdictInv'
    BY VerdictKeeps, PaneAssumption, SamplesAssumption
<1>2. VerdictInv /\ [VerifyNext]_verifyVars =>
          [place # "idle" /\ place' = "idle" /\ ~missed' =>
              /\ status' = "satisfied" => trueFor' >= expected.samples
              /\ status' = "unsatisfied" => failed']_verifyVars
    BY VerdictKeeps, PaneAssumption, SamplesAssumption DEF Verdict
<1> QED BY <1>1, <1>2, VerdictInit, PTL DEF VerifySpec, VerdictsAreTrue

-----------------------------------------------------------------------------
(* Applications that are registered. *)

\* Who writes holds the lock, and writes all that is registered and one more.
Registrars == [at : {"idle", "write"}, app : Apps \cup {0}, entries : SUBSET Apps]
RegistrarInv ==
    /\ registrar \in [Registrar -> Registrars]
    /\ registered \subseteq Apps /\ acknowledged \subseteq registered
    /\ \A r \in Registrar : registrar[r].at = "write" =>
          /\ registered \subseteq registrar[r].entries /\ registrar[r].app \in registrar[r].entries
          /\ \A other \in Registrar : registrar[other].at = "write" => other = r

LEMMA RegistrarsKeep ==
    ASSUME RegistrarInv, [ListingsNext]_listVars
    PROVE  RegistrarInv'
<1>1. CASE UNCHANGED <<registered, acknowledged, registrar>>
    BY <1>1 DEF RegistrarInv
<1>2. ASSUME NEW r \in Registrar, Renames(r)
      PROVE  RegistrarInv'
    BY <1>2 DEF Renames, Free, RegistrarInv, Registrars
<1>3. ASSUME NEW r \in Registrar, SaveFails(r)
      PROVE  RegistrarInv'
    BY <1>3 DEF SaveFails, Free, RegistrarInv, Registrars
<1>4. ASSUME NEW r \in Registrar, NEW app \in Apps, Registers(r, app)
      PROVE  RegistrarInv'
    <2>1. CASE app \in registered
        BY <1>4, <2>1 DEF Registers, RegistrarInv
    <2>2. CASE app \notin registered
        BY <1>4, <2>2 DEF Registers, LockFree, RegistrarInv, Registrars
    <2> QED BY <2>1, <2>2
<1> QED
    BY <1>1, <1>2, <1>3, <1>4
    DEF ListingsNext, listVars, TurnsPage, OpensSpace, TurnsOffered, Catalogue, ScreenChanges, NewObservation

\* An application whose registration was answered stays registered (RegisteredStays):
\* register_user_application, whose WRITE_LOCK is held from the read to the rename.
THEOREM RegistrationsStay == ListingsInit /\ [][ListingsNext]_listVars => []RegisteredStays
<1>1. ListingsInit => RegistrarInv
    BY DEF ListingsInit, RegistrarInv, Registrars
<1>2. RegistrarInv /\ [ListingsNext]_listVars => RegistrarInv'
    BY RegistrarsKeep
<1>3. RegistrarInv => RegisteredStays
    BY DEF RegistrarInv, RegisteredStays
<1> QED BY <1>1, <1>2, <1>3, PTL

-----------------------------------------------------------------------------
(* Listings that are paged through. *)

\* A set of numbers up to n that is not empty has a greatest one.
LEMMA LongestIs ==
    ASSUME NEW n \in Nat, NEW ns \in SUBSET (0 .. n), ns # {}
    PROVE  Longest(ns) \in ns
<1> DEFINE T == {k \in 0 .. n : n - k \in ns}
<1>1. T \subseteq Nat /\ T # {}
    <2>1. PICK m \in ns : TRUE
        OBVIOUS
    <2>2. n - m \in 0 .. n /\ n - (n - m) = m
        BY <2>1
    <2> QED BY <2>1, <2>2
<1>2. PICK k \in T : \A j \in T : ~(<<j, k>> \in OpToRel(<, Nat))
    <2> HIDE DEF T
    <2> QED BY <1>1, NatLessThanWellFounded, WFMin
<1>3. \A j \in T : k <= j
    <2>1. OpToRel(<, Nat) = {pair \in Nat \X Nat : pair[1] < pair[2]}
        BY DEF OpToRel
    <2> HIDE DEF T
    <2> SUFFICES ASSUME NEW j \in T, j < k
                 PROVE  FALSE
        BY <1>1
    <2>2. <<j, k>> \in {pair \in Nat \X Nat : pair[1] < pair[2]}
        BY <1>1
    <2> QED BY <1>2, <2>1, <2>2
<1>4. \A m \in ns : m <= n - k
    <2> SUFFICES ASSUME NEW m \in ns
                 PROVE  m <= n - k
        OBVIOUS
    <2>1. n - m \in T
        <3>1. n - m \in 0 .. n /\ n - (n - m) = m
            OBVIOUS
        <3> QED BY <3>1
    <2>2. k <= n - m
        BY <1>3, <2>1
    <2> QED BY <2>2
<1>5. n - k \in ns
    BY DEF T
<1> QED BY <1>4, <1>5 DEF Longest

\* A page takes no more than there is.
LEMMA TakenIs ==
    ASSUME NEW of, NEW rows, NEW cursor \in Nat, Len(rows) \in Nat, cursor <= Len(rows), ListingsAssumption
    PROVE  Taken(of, rows, cursor) \in 0 .. Len(rows) - cursor
<1> DEFINE left == Len(rows) - cursor
           ns == {n \in 0 .. left : n <= PageRows /\ Size(of, rows, cursor, n) <= PageBudget}
<1>1. left \in Nat
    OBVIOUS
<1>2. 0 \in ns
    <2>1. {i \in cursor + 1 .. cursor + 0 : of # Space /\ (i = cursor + 1 \/ rows[i][1] # rows[i - 1][1])} = {}
        OBVIOUS
    <2>2. Size(of, rows, cursor, 0) = 0
        <3>1. Size(of, rows, cursor, 0) = 0 + Cardinality({})
            BY <2>1 DEF Size
        <3>2. Cardinality({}) = 0
            BY FS_EmptySet
        <3> QED BY <3>1, <3>2
    <2> QED BY <1>1, <2>2 DEF ListingsAssumption
<1>3. ns \in SUBSET (0 .. left)
    OBVIOUS
<1>4. Taken(of, rows, cursor) = Longest(ns)
    BY DEF Taken
<1> HIDE DEF left, ns
<1>5. Longest(ns) \in ns
    BY <1>1, <1>2, <1>3, LongestIs
<1> QED BY <1>3, <1>4, <1>5 DEF left

IsRows(rows) == rows \in Seq({rows[k] : k \in DOMAIN rows})

LEMMA InOrderIsRows ==
    ASSUME NEW rows, IsFiniteSet(rows)
    PROVE  IsRows(InOrder(rows))
<1> DEFINE n == Cardinality(rows)
           nth(k) == CHOOSE i \in DOMAIN Places :
                         Places[i] \in rows /\ Cardinality({j \in 1 .. i : Places[j] \in rows}) = k
           f == [k \in 1 .. n |-> Places[nth(k)]]
<1>1. n \in Nat
    BY FS_CardinalityType
<1>2. InOrder(rows) = f
    BY DEF InOrder
<1> HIDE DEF nth, n
<1>3. DOMAIN f = 1 .. n
    OBVIOUS
<1>4. f = [k \in 1 .. n |-> f[k]]
    OBVIOUS
<1> HIDE DEF f
<1>5. f \in Seq({f[k] : k \in DOMAIN f})
    BY <1>1, <1>3, <1>4, IsASeq
<1> QED BY <1>2, <1>5 DEF IsRows

LEMMA ListsAreRows ==
    ASSUME ListingsAssumption
    PROVE  /\ \A q : IsRows(CatalogSnapshot(q))
           /\ onScreen \subseteq Rows => IsRows(InOrder(onScreen))
<1>1. IsFiniteSet(Rows)
    <2>1. IsFiniteSet(Apps) /\ IsFiniteSet(0 .. LastWindow)
        BY FS_Interval DEF Apps, ListingsAssumption
    <2> QED BY <2>1, FS_Product DEF Rows
<1>2. \A S \in SUBSET Rows : IsFiniteSet(S)
    BY <1>1, FS_Subset
<1>3. \A q : IsFiniteSet({row \in Rows : Fitting(q, row)})
    BY <1>2
<1> QED BY <1>2, <1>3, InOrderIsRows DEF CatalogSnapshot

\* A step of a walk as its record says it.
AStep(of, cursor, seen, first, next) ==
    [of |-> of, cursor |-> cursor, seen |-> seen, first |-> first, next |-> next]
IsStep(step) ==
    /\ step = AStep(step.of, step.cursor, step.seen, step.first, step.next)
    /\ step.of \in Queries \cup {Space} /\ step.cursor \in Nat /\ step.next \in BOOLEAN

\* It has seen what its listing has before the cursor, and goes on if there is more.
Follows(step, rows) ==
    /\ step.first = {rows} /\ IsRows(rows) /\ step.cursor <= Len(rows)
    /\ step.seen = SubSeq(rows, 1, step.cursor)
    /\ step.next <=> step.cursor < Len(rows)

\* A page of the rows a walk follows.
LEMMA PageTurns ==
    ASSUME NEW step, IsStep(step), NEW rows, IsRows(rows), step.cursor <= Len(rows), ListingsAssumption
    PROVE  \E new : /\ Turned(step, rows) = {new} /\ IsStep(new)
                    /\ new.of = step.of /\ new.first = step.first
                    /\ step.first = {rows} /\ step.seen = SubSeq(rows, 1, step.cursor) => Follows(new, rows)
<1> DEFINE c == step.cursor
           n == Taken(step.of, rows, c)
           new == AStep(step.of, c + n, step.seen \o SubSeq(rows, c + 1, c + n), step.first, c + n < Len(rows))
<1>1. c \in Nat /\ Len(rows) \in Nat
    BY LenProperties DEF IsStep, IsRows
<1>2. n \in 0 .. Len(rows) - c
    BY <1>1, TakenIs
<1> HIDE DEF n
<1>3. c + n \in Nat /\ c <= c + n /\ c + n <= Len(rows)
    BY <1>1, <1>2
<1>4. Turned(step, rows) = {new}
    BY DEF Turned, NextCursor, AStep, n
<1>5. IsStep(new) /\ new.of = step.of /\ new.first = step.first
    BY <1>3 DEF IsStep, AStep
<1>6. ASSUME step.seen = SubSeq(rows, 1, c)
      PROVE  new.seen = SubSeq(rows, 1, c + n)
    <2> DEFINE S == {rows[k] : k \in DOMAIN rows}
    <2>1. rows \in Seq(S)
        BY DEF IsRows
    <2> HIDE DEF S
    <2>2. SubSeq(rows, 1, c) \o SubSeq(rows, c + 1, c + n) = SubSeq(rows, 1, c + n)
        <3>1. 1 \in 1 .. Len(rows) + 1 /\ c \in 0 .. Len(rows) /\ c + n \in c .. Len(rows) /\ 1 - 1 = 0
            BY <1>1, <1>3
        <3> HIDE DEF c
        <3> QED BY <2>1, <3>1, ConcatAdjacentSubSeq
    <2> QED BY <1>6, <2>2 DEF AStep
<1>7. step.first = {rows} /\ step.seen = SubSeq(rows, 1, c) => Follows(new, rows)
    BY <1>3, <1>6 DEF Follows, AStep
<1> QED BY <1>4, <1>5, <1>7

\* A walk whose rows are known follows them, and a catalogue has no other for its query.
Following(step) ==
    /\ IsStep(step)
    /\ \A rows \in step.first :
          Follows(step, rows) /\ (step.of \in Queries => catalogs[step.of] \subseteq {rows})
Walks == walk = [a \in Asker |-> walk[a]] /\ \A a \in Asker : \A step \in walk[a] : Following(step)
Catalogs ==
    /\ catalogs = [q \in Queries |-> catalogs[q]]
    /\ \A q \in Queries : \A rows \in catalogs[q] : catalogs[q] = {rows} /\ IsRows(rows)
Kept == {q \in Queries : catalogs[q] # {}}
Counted == IsFiniteSet(Kept) /\ Cardinality(Kept) <= MaxCatalogs
OnScreenInv ==
    /\ onScreen \subseteq Apps \X (1 .. LastWindow) /\ IsRows(offeredRows)
    /\ listEvents \in 0 .. MaxListEvents
PagingInv == OnScreenInv /\ Catalogs /\ Counted /\ Walks

LEMMA SpaceIsNone == ListingsAssumption => Space \notin Queries
    BY DEF ListingsAssumption, Space

LEMMA OnScreenKeeps ==
    ASSUME OnScreenInv, [ListingsNext]_listVars, ListingsAssumption
    PROVE  OnScreenInv'
<1>1. CASE UNCHANGED <<onScreen, offeredRows, listEvents>>
    BY <1>1 DEF OnScreenInv
<1>2. ASSUME NEW w \in Apps \X (1 .. LastWindow), ScreenChanges(w)
      PROVE  OnScreenInv'
    BY <1>2 DEF ScreenChanges, ListHappens, OnScreenInv, ListingsAssumption
<1>3. CASE NewObservation
    <2>1. onScreen \subseteq Rows
        BY DEF OnScreenInv, Rows, ListingsAssumption
    <2>2. IsRows(InOrder(onScreen))
        BY <2>1, ListsAreRows
    <2> QED BY <1>3, <2>2 DEF NewObservation, ListHappens, OnScreenInv, ListingsAssumption
<1> QED
    BY <1>1, <1>2, <1>3
    DEF ListingsNext, listVars, TurnsPage, OpensSpace, TurnsOffered, Catalogue, Renames, SaveFails, Registers

LEMMA CatalogsKeep ==
    ASSUME Catalogs, Counted, [ListingsNext]_listVars, ListingsAssumption
    PROVE  Catalogs' /\ Counted'
<1>1. CASE UNCHANGED catalogs
    BY <1>1 DEF Catalogs, Counted, Kept
<1>2. ASSUME NEW a \in Asker, NEW q \in Queries, Catalogue(a, q)
      PROVE  Catalogs' /\ Counted'
    <2> DEFINE rows == CatalogSnapshot(q)
               full == Cardinality(Kept) >= MaxCatalogs
    <2>1. IsRows(rows)
        BY ListsAreRows
    <2>2. catalogs' = [p \in Queries |->
              IF p = q THEN {rows} ELSE IF full /\ catalogs[q] = {} THEN {} ELSE catalogs[p]]
        BY <1>2 DEF Catalogue, Kept
    <2> HIDE DEF rows, full
    <2>3. Catalogs'
        BY <2>1, <2>2 DEF Catalogs
    <2>4. Counted'
        <3>1. CASE full /\ catalogs[q] = {}
            <4>1. Kept' = {q}
                BY <2>2, <3>1 DEF Kept
            <4>2. IsFiniteSet({q}) /\ Cardinality({q}) = 1
                BY FS_Singleton
            <4> QED BY <4>1, <4>2 DEF Counted, ListingsAssumption
        <3>2. CASE catalogs[q] # {}
            <4>1. Kept' = Kept
                BY <2>2, <3>2 DEF Kept
            <4> QED BY <4>1 DEF Counted
        <3>3. CASE ~full
            <4>1. Kept' = Kept \cup {q}
                BY <2>2, <3>3 DEF Kept
            <4>2. IsFiniteSet(Kept \cup {q}) /\ Cardinality(Kept) \in Nat
                  /\ (Cardinality(Kept \cup {q}) = Cardinality(Kept) \/ Cardinality(Kept \cup {q}) = Cardinality(Kept) + 1)
                BY FS_AddElement, FS_CardinalityType DEF Counted
            <4>3. Cardinality(Kept) < MaxCatalogs
                BY <3>3, <4>2 DEF full, ListingsAssumption
            <4> QED BY <4>1, <4>2, <4>3 DEF Counted, ListingsAssumption
        <3> QED BY <3>1, <3>2, <3>3
    <2> QED BY <2>3, <2>4
<1> QED
    BY <1>1, <1>2
    DEF ListingsNext, listVars, TurnsPage, OpensSpace, TurnsOffered, Renames, SaveFails, Registers,
        ScreenChanges, NewObservation

\* What is disturbed follows nothing any more.
LEMMA DisturbedIs ==
    ASSUME NEW of, NEW a \in Asker, NEW step \in Disturbed(of)[a], \A old \in walk[a] : IsStep(old)
    PROVE  IsStep(step) /\ ((step \in walk[a] /\ step.of # of) \/ step.first = {})
<1>1. PICK old \in walk[a] : step = IF old.of = of THEN [old EXCEPT !.first = {}] ELSE old
    BY DEF Disturbed
<1>2. CASE old.of = of
    <2>1. PICK o, c, s, f, n : old = AStep(o, c, s, f, n)
        BY DEF IsStep
    <2>2. step = AStep(o, c, s, {}, n)
        BY <1>1, <1>2, <2>1 DEF AStep
    <2>3. IsStep(old)
        OBVIOUS
    <2> QED BY <2>1, <2>2, <2>3 DEF IsStep, AStep
<1> QED BY <1>1, <1>2

\* The first page of a listing.
LEMMA FirstPage ==
    ASSUME NEW of \in Queries \cup {Space}, NEW rows, IsRows(rows), ListingsAssumption
    PROVE  \E new : Turned(AtStart(of, rows), rows) = {new} /\ IsStep(new) /\ new.of = of /\ Follows(new, rows)
<1> DEFINE start == AtStart(of, rows)
<1>1. IsStep(start) /\ start.of = of /\ start.first = {rows} /\ start.seen = <<>> /\ start.cursor = 0
    BY DEF AtStart, IsStep, AStep
<1>2. Len(rows) \in Nat /\ SubSeq(rows, 1, 0) = <<>>
    <2> DEFINE S == {rows[k] : k \in DOMAIN rows}
    <2>1. rows \in Seq(S)
        BY DEF IsRows
    <2> HIDE DEF S
    <2> QED BY <2>1, LenProperties, SubSeqEmpty
<1> HIDE DEF start
<1>3. start.cursor <= Len(rows) /\ start.seen = SubSeq(rows, 1, start.cursor)
    BY <1>1, <1>2
<1> QED BY <1>1, <1>3, PageTurns DEF start

\* A walk that changes alone, to nothing or to one sound step, leaves the walks sound.
LEMMA WalksTurn ==
    ASSUME Walks, NEW a \in Asker, NEW steps, walk' = [walk EXCEPT ![a] = steps],
           catalogs' = catalogs, \A step \in steps : Following(step)
    PROVE  Walks'
<1>1. \A step : Following(step) <=> Following(step)'
    BY DEF Following
<1> QED BY <1>1 DEF Walks

LEMMA WalksKeep ==
    ASSUME Walks, Catalogs, OnScreenInv, [ListingsNext]_listVars, ListingsAssumption
    PROVE  Walks'
<1>1. CASE UNCHANGED <<catalogs, walk>>
    BY <1>1 DEF Walks, Following
<1>2. ASSUME NEW a \in Asker, NEW q \in Queries, Catalogue(a, q)
      PROVE  Walks'
    <2> DEFINE rows == CatalogSnapshot(q)
    <2>1. PICK new : Turned(AtStart(q, rows), rows) = {new} /\ IsStep(new) /\ new.of = q /\ Follows(new, rows)
        BY ListsAreRows, FirstPage
    <2>2. catalogs'[q] = {rows} /\ \A p \in Queries : p # q => catalogs'[p] \in {{}, catalogs[p]}
        BY <1>2 DEF Catalogue
    <2>3. walk' = [Disturbed(q) EXCEPT ![a] = {new}]
        BY <1>2, <2>1 DEF Catalogue
    <2> HIDE DEF rows
    <2>4. Following(new)'
        BY <2>1, <2>2 DEF Following, Follows
    <2>5. ASSUME NEW b \in Asker, NEW step \in Disturbed(q)[b]
          PROVE  Following(step)'
        <3>1. IsStep(step) /\ ((step \in walk[b] /\ step.of # q) \/ step.first = {})
            BY DisturbedIs DEF Walks, Following
        <3>2. CASE step.first = {}
            BY <3>1, <3>2 DEF Following
        <3>3. CASE step \in walk[b] /\ step.of # q
            <4>1. Following(step)
                BY <3>3 DEF Walks
            <4> QED BY <3>3, <4>1, <2>2 DEF Following
        <3> QED BY <3>1, <3>2, <3>3
    <2>6. walk' = [b \in Asker |-> walk'[b]]
          /\ \A b \in Asker : walk'[b] = {new} \/ walk'[b] = Disturbed(q)[b]
        BY <2>3 DEF Disturbed
    <2>7. \A b \in Asker : \A step \in walk'[b] : Following(step)'
        BY <2>4, <2>5, <2>6
    <2> QED BY <2>6, <2>7 DEF Walks
<1>3. ASSUME NEW a \in Asker, TurnsPage(a)
      PROVE  Walks'
    <2>1. PICK step \in walk[a] :
              /\ step.of \in Queries
              /\ IF \E rows \in catalogs[step.of] : step.cursor <= Len(rows)
                 THEN \E rows \in catalogs[step.of] : walk' = [walk EXCEPT ![a] = Turned(step, rows)]
                 ELSE walk' = [walk EXCEPT ![a] = {}]
        BY <1>3 DEF TurnsPage, RowsOf
    <2>2. catalogs' = catalogs
        BY <1>3 DEF TurnsPage
    <2>3. CASE walk' = [walk EXCEPT ![a] = {}]
        BY <2>2, <2>3, WalksTurn
    <2>4. CASE walk' # [walk EXCEPT ![a] = {}]
        <3>1. PICK rows \in catalogs[step.of] : walk' = [walk EXCEPT ![a] = Turned(step, rows)]
            BY <2>1, <2>4
        <3>2. step.cursor <= Len(rows) /\ catalogs[step.of] = {rows} /\ IsRows(rows)
            <4>1. PICK r \in catalogs[step.of] : step.cursor <= Len(r)
                BY <2>1, <2>4
            <4>2. catalogs[step.of] = {rows} /\ IsRows(rows)
                BY <2>1, <3>1 DEF Catalogs
            <4> QED BY <4>1, <4>2
        <3>3. Following(step)
            BY DEF Walks
        <3>4. PICK new :
                  /\ Turned(step, rows) = {new} /\ IsStep(new) /\ new.of = step.of /\ new.first = step.first
                  /\ step.first = {rows} /\ step.seen = SubSeq(rows, 1, step.cursor) => Follows(new, rows)
            BY <3>2, <3>3, PageTurns DEF Following
        <3>5. \A r \in step.first : r = rows /\ step.first = {rows} /\ step.seen = SubSeq(rows, 1, step.cursor)
            BY <2>1, <3>2, <3>3 DEF Following, Follows
        <3>6. Following(new)
            BY <3>2, <3>4, <3>5 DEF Following
        <3> QED BY <2>2, <3>1, <3>4, <3>6, WalksTurn
    <2> QED BY <2>3, <2>4
<1>4. ASSUME NEW a \in Asker, OpensSpace(a)
      PROVE  Walks'
    <2>1. PICK new : Turned(AtStart(Space, offeredRows), offeredRows) = {new} /\ IsStep(new)
                     /\ new.of = Space /\ Follows(new, offeredRows)
        BY FirstPage DEF OnScreenInv
    <2>2. Following(new)
        BY <2>1, SpaceIsNone DEF Following, Follows
    <2> QED BY <1>4, <2>1, <2>2, WalksTurn DEF OpensSpace
<1>5. ASSUME NEW a \in Asker, TurnsOffered(a)
      PROVE  Walks'
    <2>1. PICK step \in walk[a] :
              step.of = Space
              /\ walk' = [walk EXCEPT ![a] = IF step.first = {offeredRows} THEN Turned(step, offeredRows) ELSE {}]
        BY <1>5 DEF TurnsOffered
    <2>2. catalogs' = catalogs
        BY <1>5 DEF TurnsOffered
    <2>3. CASE step.first = {offeredRows}
        <3>1. Following(step) /\ Follows(step, offeredRows)
            BY <2>3 DEF Walks, Following
        <3>2. PICK new : Turned(step, offeredRows) = {new} /\ IsStep(new)
                         /\ new.of = step.of /\ Follows(new, offeredRows)
            BY <3>1, PageTurns DEF Following, Follows
        <3>3. Following(new)
            BY <2>1, <3>2, SpaceIsNone DEF Following, Follows
        <3> QED BY <2>1, <2>2, <2>3, <3>2, <3>3, WalksTurn
    <2>4. CASE step.first # {offeredRows}
        <3>1. walk' = [walk EXCEPT ![a] = {}]
            BY <2>1, <2>4
        <3> QED BY <2>2, <3>1, WalksTurn
    <2> QED BY <2>3, <2>4
<1>6. CASE NewObservation
    <2>1. catalogs' = catalogs /\ walk' = Disturbed(Space)
        BY <1>6 DEF NewObservation
    <2>2. ASSUME NEW b \in Asker, NEW step \in Disturbed(Space)[b]
          PROVE  Following(step)'
        <3>1. IsStep(step) /\ (step \in walk[b] \/ step.first = {})
            BY DisturbedIs DEF Walks, Following
        <3> QED BY <2>1, <3>1 DEF Walks, Following
    <2>3. walk' = [b \in Asker |-> walk'[b]]
        BY <2>1 DEF Disturbed
    <2> QED BY <2>1, <2>2, <2>3 DEF Walks
<1> QED
    BY <1>1, <1>2, <1>3, <1>4, <1>5, <1>6
    DEF ListingsNext, listVars, Renames, SaveFails, Registers, ScreenChanges

LEMMA PagingInit == ListingsInit /\ ListingsAssumption => PagingInv
<1> SUFFICES ASSUME ListingsInit, ListingsAssumption
             PROVE  PagingInv
    OBVIOUS
<1>1. IsRows(offeredRows)
    BY DEF ListingsInit, IsRows
<1>2. OnScreenInv
    BY <1>1 DEF ListingsInit, OnScreenInv, ListingsAssumption
<1>3. Catalogs /\ Walks
    BY DEF ListingsInit, Catalogs, Walks
<1>4. Kept = {}
    BY DEF ListingsInit, Kept
<1>5. Counted
    BY <1>4, FS_EmptySet DEF Counted, ListingsAssumption
<1> QED BY <1>2, <1>3, <1>5 DEF PagingInv

LEMMA PagingKeeps == PagingInv /\ [ListingsNext]_listVars /\ ListingsAssumption => PagingInv'
    BY OnScreenKeeps, CatalogsKeep, WalksKeep DEF PagingInv

\* Whoever follows the cursors of a listing to the end has seen all of it, once and
\* in order (ListingIsWhole): catalog_page, action_space_page and region_page.
THEOREM ListingsAreWhole == ListingsInit /\ [][ListingsNext]_listVars => []ListingIsWhole
<1>1. ListingsInit => PagingInv
    BY PagingInit, ListingsAssumption
<1>2. PagingInv /\ [ListingsNext]_listVars => PagingInv'
    BY PagingKeeps, ListingsAssumption
<1>3. PagingInv => ListingIsWhole
    <2> SUFFICES ASSUME PagingInv, NEW a \in Asker, NEW step \in walk[a], step.first # {}, ~step.next
                 PROVE  step.first = {step.seen}
        BY DEF ListingIsWhole
    <2>1. PICK rows \in step.first : Follows(step, rows) /\ IsStep(step)
        BY DEF PagingInv, Walks, Following
    <2> DEFINE S == {rows[k] : k \in DOMAIN rows}
    <2>2. rows \in Seq(S) /\ step.cursor \in Nat
        BY <2>1 DEF Follows, IsRows, IsStep
    <2> HIDE DEF S
    <2>3. step.cursor = Len(rows)
        BY <2>1, <2>2, LenProperties DEF Follows
    <2>4. SubSeq(rows, 1, Len(rows)) = rows
        BY <2>2, SubSeqFull
    <2> QED BY <2>1, <2>3, <2>4 DEF Follows
<1> QED BY <1>1, <1>2, <1>3, PTL

\* The listings' state is what it should be, the catalogue cache bounded among it
\* (ListingsTypeOK).
THEOREM ListingsTypeCorrect == ListingsInit /\ [][ListingsNext]_listVars => []ListingsTypeOK
<1>1. ListingsInit => PagingInv /\ RegistrarInv
    BY PagingInit, ListingsAssumption DEF ListingsInit, RegistrarInv, Registrars
<1>2. PagingInv /\ RegistrarInv /\ [ListingsNext]_listVars => PagingInv' /\ RegistrarInv'
    BY PagingKeeps, RegistrarsKeep, ListingsAssumption
<1>3. PagingInv /\ RegistrarInv => ListingsTypeOK
    <2> SUFFICES ASSUME PagingInv, RegistrarInv
                 PROVE  ListingsTypeOK
        OBVIOUS
    <2>1. \A q \in Queries : Cardinality(catalogs[q]) <= 1
        <3> SUFFICES ASSUME NEW q \in Queries
                     PROVE  Cardinality(catalogs[q]) <= 1
            OBVIOUS
        <3>1. CASE catalogs[q] = {}
            BY <3>1, FS_EmptySet
        <3>2. CASE catalogs[q] # {}
            <4>1. PICK rows \in catalogs[q] : catalogs[q] = {rows}
                BY <3>2 DEF PagingInv, Catalogs
            <4>2. Cardinality({rows}) = 1
                BY FS_Singleton
            <4> QED BY <4>1, <4>2
        <3> QED BY <3>1, <3>2
    <2>2. Cardinality({q \in Queries : catalogs[q] # {}}) <= MaxCatalogs
        BY DEF PagingInv, Counted, Kept
    <2>3. \A a \in Asker : \A step \in walk[a] :
              step.of \in Queries \cup {Space} /\ step.cursor \in Nat /\ step.next \in BOOLEAN
        BY DEF PagingInv, Walks, Following, IsStep
    <2>4. \A r \in Registrar : registrar[r].at \in {"idle", "write"}
        BY DEF RegistrarInv, Registrars
    <2> QED BY <2>1, <2>2, <2>3, <2>4 DEF ListingsTypeOK, PagingInv, OnScreenInv, RegistrarInv
<1> QED BY <1>1, <1>2, <1>3, PTL
=============================================================================
