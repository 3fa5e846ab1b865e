--------------------------- MODULE BrowserClient ---------------------------
(***************************************************************************)
(* BrowserClient (crates/nuphus-browser/src/client.rs): one Chrome profile *)
(* or one external CDP endpoint, the connection to it, the task's tab, and *)
(* what the client remembers about both.  An async method is a sequence of *)
(* frames on `stack`; one action runs the top frame from one await to the  *)
(* next, and `res` is what the last callee returned.  Chrome itself, its   *)
(* user and other processes of the same profile are the environment: they  *)
(* may do something inconvenient MaxFaults times.                          *)
(*                                                                         *)
(* Left out: launched_headless (every caller asks for a headed browser, so *)
(* it never matters), the injected-helpers and download flags, which are   *)
(* re-established where they are needed, and everything about a page but   *)
(* the tab it lives in.                                                    *)
(***************************************************************************)
EXTENDS Naturals, Sequences

CONSTANTS
    Chrome,         \* browser processes
    Tab,            \* page targets
    None,           \* no process, no tab
    MaxFaults       \* bound: inconvenient events

ASSUME NoneAssumption == None \notin Chrome \cup Tab
ASSUME FaultsAssumption == MaxFaults \in Nat

VARIABLES
    external,       \* an external endpoint is configured: never launch
    status,         \* of each process: "off", "up", or "deaf" (alive, port closed)
    headless,       \* resident processes without a window
    owned,          \* history: live processes this client launched
    tab,            \* the process each tab lives in, or None
    port,           \* whom DevToolsActivePort, or the endpoint, points at
    browser, link,  \* the connection: to whom, and whether its handler works
    page,           \* the page handle
    selected,       \* selected_target_id
    pending,        \* page_creation_pending
    refs,           \* the tab the cached @N references were taken from, or None
    child,          \* child_process
    spawned,        \* a process launch has started and not yet kept
    stack, res,     \* frames of the call under way; what the last one returned
    doubt,          \* history: a tab was asked for and nobody knows whether it opened
    faults          \* inconvenient events so far

chromeVars == <<external, headless, owned, port, status>>
linkVars == <<browser, link>>
pageVars == <<page, selected, refs>>
clientVars == <<linkVars, pageVars, pending, child, spawned, doubt>>

LinkUp == browser # None /\ link /\ status[browser] # "off"
Reachable(c) == c # None /\ status[c] = "up"
Success == res \in {"ok", "no"}

At(frame) == stack # <<>> /\ Head(stack) = frame
Call(frames) == stack' = frames \o Tail(stack) /\ UNCHANGED res
Return(result) == stack' = Tail(stack) /\ res' = result

Calm == UNCHANGED faults
Fault == faults < MaxFaults /\ faults' = faults + 1

\* Processes that end, with their tabs.
Ends(dead) ==
    /\ status' = [c \in Chrome |-> IF c \in dead THEN "off" ELSE status[c]]
    /\ owned' = owned \ dead
    /\ tab' = [t \in Tab |-> IF tab[t] \in dead THEN None ELSE tab[t]]

\* A process nobody refers to, standing for one that is about to start.
Startable == {c \in Chrome : status[c] = "off" /\ c \notin {port, child, browser}}
FreeTabs == {t \in Tab : tab[t] = None /\ t \notin {selected, refs}}

-----------------------------------------------------------------------------
(* The task's page. *)

OpenTabs == {t \in Tab : browser # None /\ tab[t] = browser}

\* existing_task_page looks for the selected target, and takes any page only
\* when none has been selected yet.
TaskTabs == IF selected = None THEN OpenTabs ELSE OpenTabs \cap {selected}

\* Mutant: references survive the change of page.
SelectKeepsRefs(t) ==
    /\ page' = t /\ selected' = t
    /\ UNCHANGED refs

\* select_page
Select(t) ==
    /\ page' = t /\ selected' = t
    /\ refs' = IF page = None \/ selected # t THEN None ELSE refs

\* adopt_existing_page: "no" if the page is confirmed to be gone.
Adopt ==
    /\ At("adopt")
    /\ UNCHANGED <<chromeVars, tab, linkVars, pending, child, spawned, doubt>>
    /\ \/ /\ LinkUp /\ Calm
          /\ \E t \in TaskTabs : Select(t)
          /\ Return("ok")
       \/ /\ LinkUp /\ Calm /\ TaskTabs = {}
          /\ Return("no") /\ UNCHANGED pageVars
       \/ ~LinkUp /\ Calm /\ Return("conn") /\ UNCHANGED pageVars
       \/ Fault /\ Return("conn") /\ UNCHANGED pageVars
       \/ Fault /\ Return("err") /\ UNCHANGED pageVars

\* get_or_create_page
GetOrCreate ==
    /\ At("page") /\ Calm
    /\ UNCHANGED <<chromeVars, tab, clientVars>>
    /\ IF pending \/ browser = None THEN Return("err") ELSE Call(<<"adopt", "absent">>)

\* Its second half: only a confirmed absence asks for a tab.
CreateIfAbsent ==
    /\ At("absent") /\ Calm
    /\ UNCHANGED <<chromeVars, tab, clientVars>>
    /\ IF res = "no" THEN Call(<<"create">>) ELSE Return(res)

\* Mutant: the request is marked when it has been answered.
MarkLate == UNCHANGED pending

MarkPending == pending' = TRUE

\* new_tab_with_options, up to sending Target.createTarget.
RefuseCreate ==
    /\ At("create") /\ Calm
    /\ pending \/ browser = None
    /\ UNCHANGED <<chromeVars, tab, clientVars>>
    /\ Return("err")

SendCreate ==
    /\ At("create") /\ Calm
    /\ ~pending /\ browser # None
    /\ MarkPending
    /\ doubt' = TRUE
    /\ UNCHANGED <<chromeVars, tab, linkVars, pageVars, child, spawned>>
    /\ Call(<<"created">>)

Opens(t) == tab' = [tab EXCEPT ![t] = browser]

\* The answer to it.
Created ==
    /\ At("created") /\ LinkUp /\ Calm
    /\ \E t \in FreeTabs : Opens(t) /\ selected' = t
    /\ page' = None
    /\ pending' = FALSE /\ doubt' = FALSE
    /\ UNCHANGED <<chromeVars, linkVars, refs, child, spawned>>
    /\ Call(<<"adopt", "opened">>)

\* Mutant: an error is taken for "no tab was opened".
ForgetsOnError == pending' = FALSE

KeepsOnError == UNCHANGED pending

\* A timeout or an error: the tab may have opened all the same.
CreateFails ==
    /\ At("created")
    /\ \/ ~LinkUp /\ Calm
       \/ FreeTabs = {} /\ Calm
       \/ Fault
    /\ \/ UNCHANGED tab
       \/ LinkUp /\ \E t \in FreeTabs : Opens(t)
    /\ KeepsOnError
    /\ UNCHANGED <<chromeVars, linkVars, pageVars, child, spawned, doubt>>
    /\ \E r \in {"err", "conn"} : Return(r)

\* The new tab has to be there to be selected.
Opened ==
    /\ At("opened") /\ Calm
    /\ UNCHANGED <<chromeVars, tab, clientVars>>
    /\ Return(IF res = "no" THEN "err" ELSE res)

\* switch_tab_with_options, the tab chosen by its index among the open ones.
SwitchTo(t) ==
    /\ Select(t)
    /\ pending' = FALSE /\ doubt' = FALSE

-----------------------------------------------------------------------------
(* The connection. *)

\* A connection to process c replaces the one there was.
Connects(c) ==
    /\ browser' = c /\ link' = TRUE
    /\ page' = None

\* try_attach
Attach ==
    /\ At("attach")
    /\ UNCHANGED <<chromeVars, tab, selected, refs, pending, child, spawned, doubt>>
    /\ \/ /\ Reachable(port) /\ Calm
          /\ Connects(port)
          /\ Call(<<"adopt">>)
       \/ /\ (~Reachable(port) /\ Calm) \/ Fault
          /\ Return("err")
          /\ UNCHANGED <<linkVars, page>>

\* launch: a connection is trusted whatever its probe says.
Launch ==
    /\ At("launch") /\ ~external /\ Calm
    /\ UNCHANGED <<chromeVars, tab, clientVars>>
    /\ IF browser # None THEN Return("ok") ELSE Call(<<"attach", "attached">>)

\* With an external endpoint the probe decides.
LaunchExternal ==
    /\ At("launch") /\ external
    /\ UNCHANGED <<chromeVars, tab, clientVars>>
    /\ \/ LinkUp /\ Calm /\ Return("ok")
       \/ ((~LinkUp /\ Calm) \/ Fault) /\ Call(<<"endpoint", "heal">>)

\* try_attach_external; the answer of a first attempt goes to "heal".
AttachExternal ==
    /\ At("endpoint")
    /\ UNCHANGED <<external, headless, port, selected, refs, pending, spawned, doubt>>
    /\ \/ /\ Reachable(port) /\ Calm
          /\ Connects(port)
          /\ child' = None /\ Ends({child} \ {None})
          /\ Call(<<"adopt">>)
       \/ /\ (~Reachable(port) /\ Calm) \/ Fault
          /\ Return("err")
          /\ UNCHANGED <<linkVars, page, child, owned, status, tab>>

\* find_identity_processes, resolve_debug_port: the browser whose command line
\* or DevToolsActivePort tells a port that answers.
Reopened(c) == Reachable(c)

\* attach_external: the window may have been opened again on another port; or
\* not, or nothing is known that it could be recognised by.
Heal ==
    /\ At("heal") /\ Calm
    /\ UNCHANGED <<external, headless, owned, status, tab, clientVars>>
    /\ \/ Success /\ Return("ok") /\ UNCHANGED port
       \/ ~Success /\ Return("err") /\ UNCHANGED port
       \/ ~Success /\ \E c \in Chrome : Reopened(c) /\ port' = c /\ Call(<<"endpoint">>)

\* Mutant: whoever is connected to is closed.
SendsCloseAlways == LinkUp

\* close: Browser.close goes out only when there is a child of ours.
SendsClose == child # None /\ LinkUp

\* close, up to the answer of Browser.close.
Close ==
    /\ At("close") /\ Calm
    /\ Ends(IF SendsClose THEN {browser} ELSE {})
    /\ browser' = None /\ link' = FALSE
    /\ UNCHANGED <<external, headless, port, pageVars, pending, child, spawned, doubt>>
    /\ Call(<<"closed">>)

Forget ==
    /\ page' = None /\ selected' = None /\ refs' = None
    /\ pending' = FALSE /\ doubt' = FALSE
    /\ child' = None

\* Then everything about the session is forgotten and the child killed.
Closed ==
    /\ At("closed") /\ Calm
    /\ Forget /\ Ends({child} \ {None})
    /\ UNCHANGED <<external, headless, port, linkVars, spawned>>
    /\ Return("ok")

\* launch: the attached instance serves, unless it has no window.
Attached ==
    /\ At("attached") /\ Calm
    /\ UNCHANGED <<chromeVars, tab, clientVars>>
    /\ \/ Success /\ browser \notin headless /\ Return("ok")
       \/ Success /\ browser \in headless /\ Call(<<"close", "kill">>)
       \/ ~Success /\ Call(<<"singleton">>)

\* kill_chrome_for_profile: every browser of the profile, or nothing is found.
Kill ==
    /\ At("kill") /\ Calm
    /\ UNCHANGED <<external, headless, port, clientVars>>
    /\ \/ Ends({c \in Chrome : status[c] # "off"}) /\ Call(<<"singleton">>)
       \/ UNCHANGED <<owned, status, tab>> /\ Return("err")

\* attach_target_alive: nobody listens on the recorded port.
MayDeleteLocks == ~Reachable(port)

\* A profile somebody still serves gets a second attempt, never a launch.
Singleton ==
    /\ At("singleton") /\ Calm
    /\ ~MayDeleteLocks
    /\ UNCHANGED <<chromeVars, tab, clientVars>>
    /\ Call(<<"attach", "refuse">>)

Refuse ==
    /\ At("refuse") /\ Calm
    /\ UNCHANGED <<chromeVars, tab, clientVars>>
    /\ Return(IF Success THEN "ok" ELSE "err")

\* The locks are deleted and Chrome is spawned, with a tab of its own.
Spawn ==
    /\ At("singleton") /\ Calm
    /\ MayDeleteLocks
    /\ UNCHANGED <<external, headless, linkVars, pageVars, pending, child, doubt>>
    /\ \E c \in Startable :
          /\ spawned' = c
          /\ status' = [status EXCEPT ![c] = "up"]
          /\ owned' = owned \cup {c}
          /\ port' = c
          /\ IF FreeTabs = {} THEN UNCHANGED tab
             ELSE \E t \in FreeTabs : tab' = [tab EXCEPT ![t] = c]
    /\ Call(<<"starting">>)

\* Mutant: the handle of an earlier child is forgotten instead of dropped.
ForgottenChild == {}

\* The handle that self.child_process = Some(child) overwrites kills on drop.
DroppedChild == {child} \ {None}

\* It has announced its endpoint: the handle is kept.
Started ==
    /\ At("starting") /\ Calm
    /\ Reachable(spawned)
    /\ Connects(spawned)
    /\ selected' = None /\ pending' = FALSE /\ doubt' = FALSE
    /\ child' = spawned /\ spawned' = None
    /\ Ends(DroppedChild)
    /\ UNCHANGED <<external, headless, port, refs>>
    /\ Call(<<"adopt">>)

\* No endpoint, or no connection: the local handle is dropped, which kills.
StartFails ==
    /\ At("starting")
    /\ (~Reachable(spawned) /\ Calm) \/ Fault
    /\ Ends({spawned})
    /\ spawned' = None
    /\ UNCHANGED <<external, headless, port, linkVars, pageVars, pending, child, doubt>>
    /\ Return("err")

ChildAlive == child # None /\ status[child] # "off"

\* reconnect: the same browser if it may still live, else wait for the child's
\* end and launch.
Reconnect ==
    /\ At("reconnect") /\ Calm
    /\ browser' = None /\ link' = FALSE
    /\ page' = None /\ refs' = None
    /\ UNCHANGED <<chromeVars, tab, selected, pending, spawned, doubt>>
    /\ IF ~external /\ (ChildAlive \/ Reachable(port))
       THEN Call(<<"attach", "reattached">>) /\ UNCHANGED child
       ELSE child' = None /\ Call(<<"launch", "reattached">>)

\* And the task's page again.
Reattached ==
    /\ At("reattached") /\ Calm
    /\ UNCHANGED <<chromeVars, tab, clientVars>>
    /\ IF Success THEN Call(<<"page">>) ELSE Return(res)

-----------------------------------------------------------------------------
(* The environment. *)

Undisturbed == UNCHANGED <<external, headless, stack, res, page, selected, pending, refs,
                           child, spawned, doubt>>

\* A browser crashes, or its user quits it.
ChromeDies(c) ==
    /\ status[c] # "off" /\ Fault
    /\ Ends({c})
    /\ UNCHANGED <<port, linkVars>> /\ Undisturbed

\* A browser stops listening but does not end.
ChromeGoesDeaf(c) ==
    /\ status[c] = "up" /\ Fault
    /\ status' = [status EXCEPT ![c] = "deaf"]
    /\ UNCHANGED <<owned, tab, port, linkVars>> /\ Undisturbed

LinkBreaks ==
    /\ LinkUp /\ Fault
    /\ link' = FALSE
    /\ UNCHANGED <<owned, status, tab, port, browser>> /\ Undisturbed

\* The user closes a tab.
TabCloses(t) ==
    /\ tab[t] # None /\ Fault
    /\ tab' = [tab EXCEPT ![t] = None]
    /\ UNCHANGED <<owned, status, port, linkVars>> /\ Undisturbed

\* Another process starts a browser on the free profile, or the user opens the
\* external browser's window again.
OtherStarts(c, t) ==
    /\ c \in Startable /\ t \in FreeTabs /\ Fault
    /\ \A d \in Chrome : status[d] = "off"
    /\ status' = [status EXCEPT ![c] = "up"]
    /\ tab' = [tab EXCEPT ![t] = c]
    /\ port' = IF external THEN port ELSE c
    /\ UNCHANGED <<owned, linkVars>> /\ Undisturbed

Environment ==
    \/ LinkBreaks
    \/ \E c \in Chrome : ChromeDies(c) \/ ChromeGoesDeaf(c)
    \/ \E t \in Tab : TabCloses(t)
    \/ \E c \in Chrome, t \in Tab : OtherStarts(c, t)

ClientStep ==
    \/ Adopt \/ GetOrCreate \/ CreateIfAbsent
    \/ RefuseCreate \/ SendCreate \/ Created \/ CreateFails \/ Opened
    \/ Launch \/ Attach \/ Attached \/ Close \/ Closed \/ Kill
    \/ Singleton \/ Refuse \/ Spawn \/ Started \/ StartFails
    \/ LaunchExternal \/ AttachExternal \/ Heal
    \/ Reconnect \/ Reattached
=============================================================================
