--------------------------------- MODULE Hud ---------------------------------
(***************************************************************************)
(* The execution hint of Windows (crates/desktop-api/src/hud.rs): every    *)
(* tool call shows a card when it starts and when it ends.  The caller     *)
(* writes a shared slot and posts a message; a window thread, started by   *)
(* whoever finds none, shows the card and hides it on a timer.  Nothing    *)
(* keeps two callers from starting two threads.                            *)
(***************************************************************************)
EXTENDS Naturals, FiniteSets

CONSTANTS
    Shower,         \* threads that show a hint
    Card,           \* windows, in the order of nothing
    NoCard,
    FadeSteps,      \* ticks of the animation that fade the card in (5)
    MaxShows        \* bound: hints shown

ASSUME HudAssumption == NoCard \notin Card /\ FadeSteps \in Nat /\ MaxShows \in Nat

VARIABLES
    shower,         \* of each thread: [at, kind]
    slot,           \* SLOT: the kind of the hint that was written last
    hwnd,           \* HWND_SLOT: the window hints are posted to
    card,           \* of each window: "none", "starting", "empty", "shown", "hidden"
    refresh,        \* windows with a refresh message in their queue
    hiding,         \* windows whose hide timer runs
    tick,           \* ANIM_TICK
    animated,       \* windows whose animation timer runs
    shows

hudVars == <<shower, slot, hwnd, card, refresh, hiding, tick, animated, shows>>
windows == <<card, refresh, hiding, animated>>

Kinds == {"Start", "Done", "Fail"}
Away == [at |-> "idle", kind |-> "Start"]
At(t, place) == shower[t].at = place
Moves(t, place) == shower' = [shower EXCEPT ![t].at = place]

-----------------------------------------------------------------------------
(* show *)

\* ensure_thread: a window thread is spawned if there is none yet to post to; the
\* spawn may fail.
Show(t, kind) ==
    /\ At(t, "idle") /\ shows < MaxShows /\ shows' = shows + 1
    /\ shower' = [shower EXCEPT ![t] = [at |-> "wait", kind |-> kind]]
    /\ \/ hwnd = NoCard /\ \E c \in Card : card[c] = "none" /\ card' = [card EXCEPT ![c] = "starting"]
       \/ UNCHANGED card
    /\ UNCHANGED <<slot, hwnd, refresh, hiding, tick, animated>>

\* 300 ms without a window: this hint is not shown.
GivesUp(t) ==
    /\ At(t, "wait") /\ hwnd = NoCard
    /\ Moves(t, "idle")
    /\ UNCHANGED <<slot, hwnd, windows, tick, shows>>

WritesSlot(t) ==
    /\ At(t, "wait") /\ hwnd # NoCard
    /\ slot' = shower[t].kind
    /\ Moves(t, "post")
    /\ UNCHANGED <<hwnd, windows, tick, shows>>

\* The window is read again; a message to a window that is gone is lost.
Posts(t) ==
    /\ At(t, "post")
    /\ Moves(t, "idle")
    /\ refresh' = IF hwnd = NoCard THEN refresh ELSE refresh \cup {hwnd}
    /\ UNCHANGED <<slot, hwnd, card, hiding, tick, animated, shows>>

-----------------------------------------------------------------------------
(* hud_thread and wndproc *)

\* The window is shown, without a size, and takes the place of any other.
Ready(c) ==
    /\ card[c] = "starting"
    /\ card' = [card EXCEPT ![c] = "empty"] /\ hwnd' = c
    /\ UNCHANGED <<shower, slot, refresh, hiding, tick, animated, shows>>

\* Mutant: only the hint of an ended call is hidden by itself.
ArmsWhenOver(c) == IF slot = "Start" THEN hiding ELSE hiding \cup {c}

ArmsHide(c) == hiding \cup {c}

\* WM_APP_REFRESH: shown, laid out, faded in, and to be hidden after its time.
Refreshes(c) ==
    /\ c \in refresh
    /\ refresh' = refresh \ {c}
    /\ card' = [card EXCEPT ![c] = "shown"]
    /\ tick' = 0 /\ animated' = animated \cup {c}
    /\ hiding' = ArmsHide(c)
    /\ UNCHANGED <<shower, slot, hwnd, shows>>

\* The timer goes on after it has fired; a hint may come just before it fires.
Hides(c) ==
    /\ c \in hiding /\ c \notin refresh
    /\ card' = [card EXCEPT ![c] = "hidden"]
    /\ animated' = animated \ {c}
    /\ UNCHANGED <<shower, slot, hwnd, refresh, hiding, tick, shows>>

\* The animation: fading in, turning while the call runs, or over.
Ticks(c) ==
    /\ c \in animated
    /\ tick' = IF tick < FadeSteps THEN tick + 1 ELSE tick
    /\ animated' = IF tick < FadeSteps \/ slot = "Start" THEN animated ELSE animated \ {c}
    /\ UNCHANGED <<shower, slot, hwnd, card, refresh, hiding, shows>>

\* WM_DESTROY ends the thread, and with it whatever window hints were posted to.
Destroyed(c) ==
    /\ card[c] \in {"empty", "shown", "hidden"}
    /\ card' = [card EXCEPT ![c] = "none"] /\ hwnd' = NoCard
    /\ refresh' = refresh \ {c} /\ hiding' = hiding \ {c} /\ animated' = animated \ {c}
    /\ UNCHANGED <<shower, slot, tick, shows>>

HudInit ==
    /\ shower = [t \in Shower |-> Away] /\ slot = "Start" /\ hwnd = NoCard
    /\ card = [c \in Card |-> "none"]
    /\ refresh = {} /\ hiding = {} /\ animated = {} /\ tick = 0 /\ shows = 0

Posting(t) == GivesUp(t) \/ WritesSlot(t) \/ Posts(t)
Loop(c) == Ready(c) \/ Refreshes(c)

HudNext ==
    \/ \E t \in Shower, kind \in Kinds : Show(t, kind)
    \/ \E t \in Shower : Posting(t)
    \/ \E c \in Card : Loop(c) \/ Hides(c) \/ Ticks(c) \/ Destroyed(c)

\* Message loops run and timers fire.
HudFair ==
    /\ \A t \in Shower : WF_hudVars(Posting(t))
    /\ \A c \in Card : WF_hudVars(Loop(c)) /\ WF_hudVars(Hides(c)) /\ WF_hudVars(Ticks(c))

HudSpec == HudInit /\ [][HudNext]_hudVars /\ HudFair

-----------------------------------------------------------------------------
HudTypeOK ==
    /\ shower \in [Shower -> [at : {"idle", "wait", "post"}, kind : Kinds]]
    /\ slot \in Kinds /\ hwnd \in Card \cup {NoCard}
    /\ card \in [Card -> {"none", "starting", "empty", "shown", "hidden"}]
    /\ refresh \subseteq Card /\ hiding \subseteq Card /\ animated \subseteq Card
    /\ tick \in 0 .. FadeSteps

\* No card stays on the screen when the calls stop, as the bound on them has it: whatever two callers did to the
\* window, and whether or not the end of the call was ever shown (show 195-214,
\* wndproc 321-393).
HudEndsHidden == <>[](\A c \in Card : card[c] # "shown")
=============================================================================
