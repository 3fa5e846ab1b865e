--------------------------- MODULE DesktopTargets ---------------------------
(***************************************************************************)
(* The desktop target catalogue (crates/desktop-api/src/semantic/          *)
(* targets.rs): applications and windows are listed page by page, a window *)
(* is bound to a token or remembered for a saved locator, and later calls  *)
(* find it again.  Between any two awaits of a call windows open, close,   *)
(* change their titles and, on Windows, take over each other's handles.    *)
(*                                                                         *)
(* One call runs at a time (one execution owner).  An enumeration is one   *)
(* step here; the windows of a process that does not answer it are missing *)
(* from it, without an error.                                              *)
(***************************************************************************)
EXTENDS Naturals, FiniteSets

CONSTANTS
    Handle, App,
    Appearance,     \* what a window may be: [pid, app, title]
    Token,          \* target tokens
    Locator,        \* saved targets: [app, id, title], id if it holds a stable window id
    Installed,      \* applications with a launch path
    Nil,            \* no window, no title, nothing
    MaxBindings, MaxSaved,                  \* 256 each in the code
    Polls,          \* how often a launched application is looked for (30)
    MaxEvents       \* bound: what windows and processes do

ASSUME PositiveAssumption == {MaxBindings, MaxSaved, Polls} \subseteq Nat \ {0}
ASSUME AppearanceAssumption ==
    Installed \subseteq App /\ MaxEvents \in Nat /\ \A w \in Appearance : w # Nil /\ w.app \in App
\* There is always a fresh token.
ASSUME TokenAssumption == Cardinality(Token) > MaxBindings

VARIABLES
    screen,         \* of each handle: its window [pid, app, title], or Nil
    known,          \* State.windows: the windows references may name
    apps,           \* State.apps
    bindings,       \* of each token: the window bound to it, or Nil
    saved,          \* saved_windows, of each locator
    call,           \* the call under way: [op, arg, fg], op = "none" between calls
    at,             \* the await it is in
    chosen,         \* its window: named, retained or chosen
    polls,          \* polls left of a launched application
    lived,          \* history: the windows that have lived at some moment of the call
    stuck,          \* history, of each locator: the window its last replay used, if it
                    \* has been there in every enumeration since
    events

targetVars == <<screen, known, apps, bindings, saved, call, at, chosen, polls,
                lived, stuck, events>>

Windows == {[hwnd |-> h, pid |-> screen[h].pid, app |-> screen[h].app, title |-> screen[h].title]
              : h \in {g \in Handle : screen[g] # Nil}}

Id(w) == <<w.hwnd, w.pid, w.app>>

\* Mutant: a window is taken for the one its handle used to denote.
SameHandle(v, w) == v.hwnd = w.hwnd

\* same_window
SameWindow(v, w) == Id(v) = Id(w)

\* Windows as references name them: window_reference leaves the title out.
Named(ws) == {[hwnd |-> w.hwnd, pid |-> w.pid, app |-> w.app] : w \in ws}

Idle == [op |-> "none", arg |-> Nil, fg |-> FALSE]

\* running: what answers, filtered by an application.
Enumerations == {{w \in Windows : w.pid \notin silent} : silent \in SUBSET {w.pid : w \in Windows}}
Enumerate(answering) ==
    /\ answering \in Enumerations
    /\ IF answering = Windows THEN UNCHANGED events
       ELSE events < MaxEvents /\ events' = events + 1
Of(ws, a) == {w \in ws : w.app = a}

Finish ==
    /\ call' = Idle /\ at' = "none" /\ chosen' = Nil /\ polls' = 0
    /\ lived' = {}
Goto(step) == at' = step /\ UNCHANGED <<call, lived>>

Registry == <<known, apps, bindings, saved>>

-----------------------------------------------------------------------------
(* desktop_targets_list *)

Begins(op, arg, window, fg) ==
    /\ call.op = "none"
    /\ call' = [op |-> op, arg |-> arg, fg |-> fg]
    /\ chosen' = window
    /\ lived' = Named(Windows)
    /\ UNCHANGED <<screen, Registry, polls, stuck, events>>

BeginList == Begins("list", Nil, Nil, FALSE) /\ at' = "enumerate"

\* cursor = 0: the references are those of this enumeration and no others.  The
\* page may still fail, if its first entry is too large for any page.
List(answering) ==
    /\ call.op = "list" /\ at = "enumerate"
    /\ Enumerate(answering)
    /\ apps' = Installed \cup {w.app : w \in answering}
    /\ known' = Named(answering)
    /\ Finish
    /\ UNCHANGED <<screen, bindings, saved, stuck>>

-----------------------------------------------------------------------------
(* desktop_target_bind and the calls that look a window up again. *)

\* bind_with_delivery: the references must come from the catalogue.
BeginBind(a, window, fg) ==
    /\ a \in apps
    /\ window # Nil => window \in known /\ window.app = a
    /\ Begins("bind", a, window, fg) /\ at' = "enumerate"

\* ensure_saved_scope, with the launch reference or without.
BeginSaved(l, fg) == Begins("saved", l, Nil, fg) /\ at' = "enumerate"

\* bound_scope, and ensure, which goes to the activation at once.
BeginScope(k, fg) ==
    /\ bindings[k] # Nil
    /\ Begins("scope", k, bindings[k], fg) /\ at' = "enumerate"

BeginEnsure(k) ==
    /\ bindings[k] # Nil
    /\ Begins("scope", k, bindings[k], TRUE) /\ at' = "activate"

Quietly == UNCHANGED screen

\* What an answering call leaves in the tables, where it does not say otherwise.
Tables == <<apps, bindings>>

Fail == Finish /\ UNCHANGED known

Choose(w) ==
    /\ chosen' = [hwnd |-> w.hwnd, pid |-> w.pid, app |-> w.app]
    /\ Goto(IF call.fg THEN "activate" ELSE "answer") /\ UNCHANGED <<known, polls>>

AppOf == IF call.op = "bind" THEN call.arg ELSE call.arg.app

\* choose_window and choose_saved_window among the windows of the application.
Fits(ws) ==
    IF call.op = "bind" \/ (call.arg.id /\ Cardinality(ws) = 1) \/ call.arg.title = Nil THEN ws
    ELSE {w \in ws : w.title = call.arg.title}

\* One is taken, none fails, and of several none is: a binding offers them.
ChooseAmong(ws) ==
    IF chosen # Nil
    THEN \/ \E w \in ws : SameWindow(w, chosen) /\ Choose(w)
         \/ (\A w \in ws : ~SameWindow(w, chosen)) /\ Fail
    ELSE \/ \E w \in Fits(ws) : Fits(ws) = {w} /\ Choose(w)
         \/ Cardinality(Fits(ws)) # 1 /\ Finish
            /\ known' = IF call.op = "bind" THEN known \cup Named(Fits(ws)) ELSE known

\* Nothing runs: launch, if there is an entry to launch.
Launch ==
    \/ AppOf \in Installed /\ Goto("launch") /\ polls' = Polls /\ UNCHANGED <<known, chosen>>
    \/ Fail

\* Mutant: the saved window is chosen anew by its title.
NeverRetained(w) == FALSE

\* The window a saved locator was resolved to is retained while it lives.
Retained(w) == saved[call.arg] # Nil /\ SameWindow(w, saved[call.arg])

Forgets(answering) ==
    /\ saved' = [saved EXCEPT ![call.arg] = Nil]
    /\ stuck' = IF stuck[call.arg] \in Named(answering) THEN stuck
                ELSE [stuck EXCEPT ![call.arg] = Nil]

LookForSaved(answering) ==
    /\ call.op = "saved" /\ at = "enumerate"
    /\ Enumerate(answering) /\ Quietly /\ UNCHANGED Tables
    /\ LET ws == Of(answering, AppOf)
       IN  \/ \E w \in ws : Retained(w) /\ Choose(w) /\ UNCHANGED <<saved, stuck>>
           \/ /\ \A w \in ws : ~Retained(w)
              /\ IF ws = {} THEN Launch ELSE ChooseAmong(ws)
              /\ Forgets(answering)

\* bind_with_delivery, once the references have been looked up.
LookForBinding(answering) ==
    /\ call.op = "bind" /\ at = "enumerate"
    /\ Enumerate(answering) /\ Quietly /\ UNCHANGED <<Tables, saved, stuck>>
    /\ LET ws == Of(answering, AppOf)
       IN  IF ws = {} /\ chosen = Nil THEN Launch ELSE ChooseAmong(ws)

\* windows::launch, macos::launch
Launched ==
    /\ at = "launch"
    /\ \/ Goto("poll") /\ UNCHANGED <<known, chosen, polls>>
       \/ Fail
    /\ Quietly /\ UNCHANGED <<Tables, saved, stuck, events>>

\* Mutant: an application that opens no window is looked for without end.
PollsAgain == polls

PollsLeft == polls - 1

\* One poll; after the last one, or when there is a window, the choice is made.
Poll(answering) ==
    /\ at = "poll"
    /\ Enumerate(answering) /\ Quietly /\ UNCHANGED <<Tables, saved, stuck>>
    /\ LET ws == Of(answering, AppOf)
       IN  IF ws = {} /\ polls > 1
           THEN polls' = PollsLeft /\ UNCHANGED <<known, call, at, chosen, lived>>
           ELSE ChooseAmong(ws)

\* bound_scope: the bound window is looked for.
LookForBound(answering) ==
    /\ call.op = "scope" /\ at = "enumerate"
    /\ Enumerate(answering) /\ Quietly /\ UNCHANGED <<Tables, saved, stuck>>
    /\ IF \E w \in answering : SameWindow(w, chosen) THEN Choose(chosen) ELSE Fail

\* activate: it is looked for once more, and then its handle is raised.
CheckBeforeRaise(answering) ==
    /\ at = "activate"
    /\ Enumerate(answering) /\ Quietly /\ UNCHANGED <<Tables, saved, stuck>>
    /\ IF \E w \in answering : SameWindow(w, chosen)
       THEN Goto("raise") /\ UNCHANGED <<known, chosen, polls>>
       ELSE Fail

Raise ==
    /\ at = "raise"
    /\ \/ screen[chosen.hwnd] # Nil /\ Goto("answer") /\ UNCHANGED <<known, chosen, polls>>
       \/ Fail
    /\ Quietly /\ UNCHANGED <<Tables, saved, stuck, events>>

\* At the cap everything else is dropped.
Keep(table, key, cap) ==
    LET full == Cardinality({k \in DOMAIN table : table[k] # Nil}) >= cap
    IN  [k \in DOMAIN table |-> IF k = key THEN chosen ELSE IF full THEN Nil ELSE table[k]]

Answered ==
    /\ at = "answer"
    /\ Finish /\ Quietly /\ UNCHANGED <<known, apps, events>>

\* A dropped token stands for a fresh one.
AnswerBinding ==
    /\ Answered /\ call.op = "bind"
    /\ \E k \in Token : bindings[k] = Nil /\ bindings' = Keep(bindings, k, MaxBindings)
    /\ UNCHANGED <<saved, stuck>>

AnswerSaved ==
    /\ Answered /\ call.op = "saved"
    /\ IF saved[call.arg] = chosen THEN UNCHANGED saved ELSE saved' = Keep(saved, call.arg, MaxSaved)
    /\ stuck' = [l \in Locator |-> IF l = call.arg THEN chosen ELSE IF saved'[l] = saved[l] THEN stuck[l] ELSE Nil]
    /\ UNCHANGED bindings

AnswerScope ==
    /\ Answered /\ call.op = "scope"
    /\ UNCHANGED <<bindings, saved, stuck>>

-----------------------------------------------------------------------------
(* Windows and processes. *)

Happens == events < MaxEvents /\ events' = events + 1
Unheeded == UNCHANGED <<Registry, call, at, chosen, polls>>
Lives == lived' = IF call.op = "none" THEN {} ELSE lived \cup Named(Windows')

\* A process belongs to one application.
OneApp(windows) == \A v, w \in windows : v.pid = w.pid => v.app = w.app

Opens(h, w) ==
    /\ screen[h] = Nil /\ Happens
    /\ screen' = [screen EXCEPT ![h] = w] /\ OneApp(Windows')
    /\ Lives /\ Unheeded /\ UNCHANGED stuck

Closes(h) ==
    /\ screen[h] # Nil /\ Happens
    /\ screen' = [screen EXCEPT ![h] = Nil]
    /\ stuck' = [l \in Locator |-> IF stuck[l] # Nil /\ stuck[l].hwnd = h THEN Nil ELSE stuck[l]]
    /\ Lives /\ Unheeded

Retitles(h, t) ==
    /\ screen[h] # Nil /\ Happens
    /\ \E w \in Appearance \ {screen[h]} :
          w = [screen[h] EXCEPT !.title = t] /\ screen' = [screen EXCEPT ![h] = w]
    /\ Lives /\ Unheeded /\ UNCHANGED stuck

TargetsInit ==
    /\ screen \in [Handle -> Appearance \cup {Nil}] /\ OneApp(Windows)
    /\ known = {} /\ apps = {}
    /\ bindings = [k \in Token |-> Nil]
    /\ saved = [l \in Locator |-> Nil] /\ stuck = saved
    /\ call = Idle /\ at = "none" /\ chosen = Nil /\ polls = 0
    /\ lived = {} /\ events = 0

Calls ==
    \/ BeginList
    \/ \E a \in App, window \in known \cup {Nil}, fg \in BOOLEAN : BeginBind(a, window, fg)
    \/ \E l \in Locator, fg \in BOOLEAN : BeginSaved(l, fg)
    \/ \E k \in Token : BeginEnsure(k) \/ \E fg \in BOOLEAN : BeginScope(k, fg)

CallRuns ==
    \/ \E answering \in Enumerations :
          \/ List(answering)
          \/ LookForBinding(answering) \/ LookForSaved(answering) \/ Poll(answering)
          \/ LookForBound(answering) \/ CheckBeforeRaise(answering)
    \/ Launched \/ Raise \/ AnswerBinding \/ AnswerSaved \/ AnswerScope

Desktop ==
    \/ \E h \in Handle, w \in Appearance : Opens(h, w) \/ Retitles(h, w.title)
    \/ \E h \in Handle : Closes(h)

TargetsNext == Calls \/ CallRuns \/ Desktop

\* Every await of a call ends; callers and windows do as they like.
TargetsFair == WF_targetVars(CallRuns)

TargetsSpec == TargetsInit /\ [][TargetsNext]_targetVars /\ TargetsFair

-----------------------------------------------------------------------------
Identity == [hwnd : Handle, pid : {w.pid : w \in Appearance}, app : App]

TargetsTypeOK ==
    /\ screen \in [Handle -> Appearance \cup {Nil}]
    /\ known \subseteq Identity /\ lived \subseteq Identity /\ apps \subseteq App
    /\ bindings \in [Token -> Identity \cup {Nil}]
    /\ saved \in [Locator -> Identity \cup {Nil}] /\ stuck \in [Locator -> Identity \cup {Nil}]
    /\ at \in {"none", "enumerate", "launch", "poll", "activate", "raise", "answer"}
    /\ chosen \in Identity \cup {Nil}
    /\ polls \in 0 .. Polls /\ events \in 0 .. MaxEvents

\* A call that answers with a window answers with one that has lived while the
\* call ran: a token or a saved locator whose window is gone, its handle taken
\* over or not, is an error (same_window 810, bound_scope 554, activate 412).
AnswersWhatLived == [][at = "answer" /\ at' = "none" => chosen \in lived]_targetVars

\* As long as the window a saved locator was last resolved to answers every
\* enumeration, the locator is resolved to it and no other, whatever has become
\* of its title; only the cap of saved_windows ends that (ensure_saved_scope, 476-552).
SavedSticks == [][AnswerSaved /\ stuck[call.arg] # Nil => chosen = stuck[call.arg]]_targetVars

\* Every call ends, also one that has launched an application that never opens a
\* window (bind_with_delivery 344-363, ensure_saved_scope 516-531).
TargetCallsEnd == call.op # "none" ~> call.op = "none"
=============================================================================
