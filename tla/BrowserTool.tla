---------------------------- MODULE BrowserTool ----------------------------
(***************************************************************************)
(* The browser_* tools (crates/nuphus-mcp/src/tools/browser.rs) and the    *)
(* operations of BrowserClient they run: a call waits for a browser, sends *)
(* its operation, and if the connection died on the way reconnects and     *)
(* repeats a read.  An outer timeout may drop the whole call at any await. *)
(***************************************************************************)
EXTENDS BrowserClient

CONSTANT Tools      \* the operations clients ask for

ASSUME ToolsAssumption == "none" \notin Tools

VARIABLES
    tool,           \* the operation under way, or "none"
    sends,          \* history: how often it has been sent to the page
    answer,         \* of the last call
    arriving,       \* history: the tab whose navigation by this call has not committed yet
    held,           \* history: a key or button of this call is down in the page
    shut            \* shutdown_browser has run

toolVars == <<tool, sends, answer, arriving, held, shut>>
browserVars == <<chromeVars, tab, clientVars, stack, res, faults, toolVars>>

\* READ_ONLY_BROWSER_TOOLS; "read" is extract, screenshot, cookies_get or
\* list_downloads, and "write" any other tool that is one command.
ReadOnly == {"snapshot", "read", "list_tabs"}

\* Mutant: history navigation counts as a read.
ReadOnlyTooMany(t) == t \in ReadOnly \cup {"history"}

IsReadOnly(t) == t \in ReadOnly

Once == INSTANCE OnceCall WITH
    kind <- IF tool = "none" THEN "none" ELSE IF tool \in ReadOnly THEN "read" ELSE "write",
    sent <- sends

ClientIdle == UNCHANGED <<chromeVars, tab, clientVars>>
Quiet == UNCHANGED <<tool, answer, shut>>
PageOnly == UNCHANGED <<chromeVars, tab, linkVars, page, selected, pending, child, spawned, doubt>>
Untouched == UNCHANGED <<sends, arriving, held>>
NotSent == UNCHANGED sends
Sent == sends' = sends + 1

\* What get_page finds out before an operation: no other tab stands in.
PageState ==
    IF page = None \/ browser = None THEN "err"
    ELSE IF ~LinkUp THEN "conn"
    ELSE IF tab[selected] # browser THEN "err"
    ELSE "ok"

\* A CDP call on the page answers, unless something goes wrong.
Results == {"ok", "conn", "err"}
Replies(r) ==
    \/ Calm /\ r = PageState
    \/ Fault /\ PageState = "ok" /\ r \in {"conn", "err"}

SentIfThere == IF PageState = "ok" THEN Sent ELSE NotSent

\* An operation that is one command on the page.
Command == SentIfThere /\ \E r \in Results : Replies(r) /\ Return(r)

-----------------------------------------------------------------------------
(* The executor. *)

CallBegins ==
    /\ stack = <<>> /\ ~shut
    /\ stack' = <<"launch", "begin">> /\ res' = "none"
    /\ ClientIdle /\ Calm /\ UNCHANGED toolVars

Answers(a) ==
    /\ stack' = <<>> /\ res' = "none"
    /\ answer' = a /\ tool' = "none" /\ sends' = 0
    /\ held' = FALSE /\ arriving' = None
    /\ UNCHANGED shut

\* run_tool: get_or_launch has returned.
NoBrowser ==
    /\ At("begin") /\ ~Success
    /\ Answers("error")
    /\ ClientIdle /\ Calm

RunTool(t) ==
    /\ At("begin") /\ Success
    /\ tool' = t /\ sends' = 0 /\ answer' = "none"
    /\ Call(<<"op", "judge">>)
    /\ ClientIdle /\ Calm /\ UNCHANGED <<arriving, held, shut>>

\* A missing or refused argument.
RefuseArguments ==
    /\ At("op")
    /\ Return("err")
    /\ ClientIdle /\ Calm /\ UNCHANGED toolVars

\* Mutant: a transport error is not recognised as one.
OnlyTimeouts == res = "timeout"

\* is_connection_error, or the time of the attempt has run out.
MaybeDead == res \in {"conn", "timeout"}

\* run_op_with_reconnect, after the first attempt: only a dead connection leads on.
Settled ==
    /\ At("judge") /\ ~MaybeDead
    /\ Answers(IF res = "ok" THEN "ok" ELSE "error")
    /\ ClientIdle /\ Calm

StillAlive ==
    /\ At("judge") /\ MaybeDead
    /\ LinkUp
    /\ Answers("error")
    /\ ClientIdle /\ Calm

ConnectionLost ==
    /\ At("judge") /\ MaybeDead
    /\ (~LinkUp /\ Calm) \/ Fault
    /\ Call(<<"reconnect", "rejudge">>)
    /\ ClientIdle /\ UNCHANGED toolVars

\* Mutant: a repeated read may be repeated again.
RepeatForever == <<"op", "judge">>

RepeatOnce == <<"op", "final">>

\* The browser is back: a read runs again, a write is left to the caller.
Repeat ==
    /\ At("rejudge") /\ Success /\ IsReadOnly(tool)
    /\ Call(RepeatOnce)
    /\ ClientIdle /\ Calm /\ UNCHANGED toolVars

GiveUp ==
    /\ At("rejudge") /\ ~(Success /\ IsReadOnly(tool))
    /\ Answers("error")
    /\ ClientIdle /\ Calm

Final ==
    /\ At("final")
    /\ Answers(IF res = "ok" THEN "ok" ELSE "error")
    /\ ClientIdle /\ Calm

\* The budget of one attempt is spent: its future is dropped.
AttemptTimesOut ==
    /\ Len(stack) > 1 /\ Fault
    /\ stack[Len(stack)] \in {"judge", "final"}
    /\ stack' = <<stack[Len(stack)]>> /\ res' = "timeout"
    /\ ClientIdle /\ UNCHANGED toolVars

\* execute: the budget of the whole call is spent.  A process that launch still
\* held in a local variable is killed with it.
CallTimesOut ==
    /\ stack # <<>> /\ Fault
    /\ Answers("error")
    /\ Ends({spawned} \ {None}) /\ spawned' = None
    /\ UNCHANGED <<external, headless, port, linkVars, pageVars, pending, child, doubt>>

\* shutdown_browser
Shutdown ==
    /\ stack = <<>> /\ ~shut
    /\ shut' = TRUE
    /\ browser' = None /\ link' = FALSE /\ Forget
    /\ Ends((IF SendsClose THEN {browser} ELSE {}) \cup ({child} \ {None}))
    /\ UNCHANGED <<external, headless, port, spawned, stack, res, tool, sends, answer,
                   arriving, held>>
    /\ Calm

-----------------------------------------------------------------------------
(* The operations. *)

Running(t) == At("op") /\ tool = t
Reads == Running("read") /\ ClientIdle /\ Quiet /\ UNCHANGED <<arriving, held>>
Writes == Running("write") /\ ClientIdle /\ Quiet /\ UNCHANGED <<arriving, held>>

\* snapshot_ax_tree empties the reference table and fills it from the tree,
\* if that is not empty.
AxTable(r) == Replies(r) /\ refs' \in IF r = "ok" THEN {None, selected} ELSE {None, refs}

\* snapshot_js, after an error in the tree: no new references.
DomTable(r) == Replies(r) /\ UNCHANGED refs

Snapshot(r) == AxTable(r) \/ DomTable(r)

SnapshotTool ==
    /\ Running("snapshot")
    /\ \E r \in Results : Snapshot(r) /\ Return(r)
    /\ SentIfThere
    /\ PageOnly /\ Quiet /\ UNCHANGED <<arriving, held>>

\* The snapshot that follows an action: its failure is a note.
Look ==
    /\ At("look")
    /\ \E r \in Results : Snapshot(r)
    /\ Return("ok")
    /\ PageOnly /\ Quiet /\ Untouched

Extract == Reads /\ Command
CookiesGet == Reads /\ Command

\* Saving the image may fail, after it has been taken.
Screenshot == Reads /\ (Command \/ (PageState = "ok" /\ Calm /\ Sent /\ Return("err")))

\* A directory is listed, whatever becomes of the browser.
ListDownloads == Reads /\ Sent /\ Return("ok") /\ Calm

ListTabs ==
    /\ Running("list_tabs")
    /\ \/ browser = None /\ Return("err") /\ NotSent /\ Calm
       \/ browser # None /\ ~LinkUp /\ Return("conn") /\ Sent /\ Calm
       \/ LinkUp /\ Return("ok") /\ Sent /\ Calm
       \/ LinkUp /\ Return("conn") /\ Sent /\ Fault
    /\ ClientIdle /\ Quiet /\ UNCHANGED <<arriving, held>>

\* navigate: the references go first, then the page is found or made.
Navigate ==
    /\ Running("navigate")
    /\ refs' = None
    /\ Call(<<"page", "goto">>)
    /\ PageOnly /\ Calm /\ Quiet /\ Untouched

NoPageToNavigate ==
    /\ At("goto") /\ ~Success
    /\ Return(res)
    /\ ClientIdle /\ Calm /\ Quiet /\ Untouched

\* goto returns in time.
Arrives ==
    /\ At("goto") /\ Success
    /\ LinkUp /\ Calm
    /\ Sent /\ arriving' = None
    /\ Call(<<"look">>)
    /\ ClientIdle /\ Quiet /\ UNCHANGED held

\* goto is refused, or its connection breaks; both are navigation errors.
Rejected ==
    /\ At("goto") /\ Success
    /\ (~LinkUp /\ Calm) \/ Fault
    /\ Sent /\ Return("err")
    /\ ClientIdle /\ Quiet /\ UNCHANGED <<arriving, held>>

\* No load event in time.  wait_for_dom_usable takes a document that is
\* complete for the new one, be it the one that is being left.
SlowToLoad ==
    /\ At("goto") /\ Success
    /\ LinkUp /\ Fault
    /\ Sent /\ arriving' \in {None, page}
    /\ Call(<<"look">>)
    /\ ClientIdle /\ Quiet /\ UNCHANGED held

NeverUsable ==
    /\ At("goto") /\ Success
    /\ LinkUp /\ Fault
    /\ Sent /\ arriving' = page
    /\ Return("err")
    /\ ClientIdle /\ Quiet /\ UNCHANGED held

\* click and type (both "click" here): the change detector is armed.
Arm ==
    /\ Running("click")
    /\ \E r \in Results :
          /\ Replies(r)
          /\ IF r = "ok" THEN Call(<<"act", "effect">>) ELSE Return(r)
    /\ ClientIdle /\ Quiet /\ Untouched

\* Or not, with another button or when NUPHUS_MCP_EFFECT_TIMEOUT_MS is 0.
Unverified ==
    /\ Running("click")
    /\ Call(<<"act", "shown">>)
    /\ ClientIdle /\ Calm /\ Quiet /\ Untouched

\* A reference beyond the table, or one that stays stale through every retry.
NoElement ==
    /\ At("act") /\ Calm
    /\ Return("err")
    /\ ClientIdle /\ Quiet /\ Untouched

\* Mutant: a stale node found after the click counts as one found before.
ActTwice == sends' \in {sends + 1, sends + 2}

ActOnce == Sent

\* click: by reference or by selector.
Act ==
    /\ At("act")
    /\ \E r \in Results : Replies(r) /\ Return(r)
    /\ IF PageState = "ok" THEN ActOnce ELSE NotSent
    /\ ClientIdle /\ Quiet /\ UNCHANGED <<arriving, held>>

\* type_text: the field is focused and emptied, and then the text inserted.
ClearField ==
    /\ At("act")
    /\ \E r \in Results :
          /\ Replies(r)
          /\ IF r = "ok" THEN Call(<<"insert">>) ELSE Return(r)
    /\ SentIfThere
    /\ ClientIdle /\ Quiet /\ UNCHANGED <<arriving, held>>

InsertText ==
    /\ At("insert")
    /\ \E r \in Results : Replies(r) /\ Return(r)
    /\ ClientIdle /\ Quiet /\ Untouched

\* element_center: a trusted click first asks where the element is.
ElementCenter ==
    /\ At("act")
    /\ \E r \in Results :
          /\ Replies(r)
          /\ IF r = "ok" THEN Call(<<"down">>) ELSE Return(r)
    /\ ClientIdle /\ Quiet /\ Untouched

\* wait_for_change: no change is an error, no answer counts as a change.
Effect ==
    /\ At("effect") /\ Calm
    /\ \/ res # "ok" /\ Return(res)
       \/ res = "ok" /\ PageState # "ok" /\ Return(PageState)
       \/ res = "ok" /\ PageState = "ok" /\ Return("err")
       \/ res = "ok" /\ PageState = "ok" /\ Call(<<"shown">>)
    /\ ClientIdle /\ Quiet /\ Untouched

\* The page is shown after the action, if that is asked for.
Shown ==
    /\ At("shown") /\ Calm
    /\ \/ Return(res)
       \/ res = "ok" /\ Call(<<"look">>)
    /\ ClientIdle /\ Quiet /\ Untouched

\* press_key: that nothing changes is a note only.
PressKey ==
    /\ Running("press")
    /\ IF PageState = "ok" THEN Call(<<"down", "shown">>) ELSE Return(PageState)
    /\ ClientIdle /\ Calm /\ Quiet /\ Untouched

\* press_key and click_trusted: down, and then up.
Down ==
    /\ At("down")
    /\ \E r \in Results :
          /\ Replies(r)
          /\ IF r = "ok" THEN Call(<<"release">>) ELSE Return(r)
          /\ held' = (held \/ r = "ok")
    /\ SentIfThere
    /\ ClientIdle /\ Quiet /\ UNCHANGED arriving

\* Mutant: a failing release is not reported.
ReleaseQuietly(r) == "ok"

ReleaseReports(r) == r

Release ==
    /\ At("release")
    /\ \E r \in Results :
          /\ (LinkUp /\ Calm /\ r = "ok") \/ (~LinkUp /\ Calm /\ r = "conn") \/ (Fault /\ r # "ok")
          /\ Return(ReleaseReports(r))
          /\ held' = (held /\ r # "ok")
    /\ ClientIdle /\ Quiet /\ UNCHANGED <<sends, arriving>>

\* batch_exec: helpers are injected and looked for before the script runs.
InjectHelpers ==
    /\ Running("exec")
    /\ \E r \in Results :
          /\ Replies(r)
          /\ IF r = "ok" THEN Call(<<"script">>) ELSE Return(r)
    /\ ClientIdle /\ Quiet /\ Untouched

\* A script that outlives its page, or its ten seconds, is answered as of
\* unknown outcome, not as a failure.
Script ==
    /\ At("script")
    /\ \/ PageState # "ok" /\ Calm /\ Return(PageState)
       \/ PageState = "ok" /\ Calm /\ Return("ok")
       \/ PageState = "ok" /\ Fault /\ \E r \in Results : Return(r)
    /\ SentIfThere
    /\ ClientIdle /\ Quiet /\ UNCHANGED <<arriving, held>>

\* The other writes, one command each unless they say otherwise.
Evaluate == Writes /\ Command
Scroll == Writes /\ Command
CookiesSet == Writes /\ Command
DragFiles == Writes /\ Command

\* The file is read when the page has been found.
Upload == Writes /\ (Command \/ (PageState = "ok" /\ Calm /\ NotSent /\ Return("err")))

\* Cookies that cannot be set are counted.
ImportCookies ==
    /\ Writes
    /\ \/ PageState = "ok" /\ (Calm \/ Fault) /\ Sent /\ Return("ok")
       \/ PageState # "ok" /\ Calm /\ NotSent /\ Return(PageState)

\* Whatever goes wrong after the page has been found is "element not found".
WaitFor ==
    /\ Writes
    /\ \/ PageState = "ok" /\ (Calm \/ Fault) /\ Sent /\ \E r \in {"ok", "err"} : Return(r)
       \/ PageState # "ok" /\ Calm /\ NotSent /\ Return(PageState)

\* back and forward: sent, and then the address is watched for a while.
History ==
    /\ Running("history")
    /\ \E r \in Results :
          /\ Replies(r)
          /\ IF r = "ok" THEN Call(<<"watch">>) ELSE Return(r)
    /\ IF PageState = "ok" THEN Sent ELSE NotSent
    /\ ClientIdle /\ Quiet /\ UNCHANGED <<arriving, held>>

Watch ==
    /\ At("watch") /\ Calm
    /\ \E r \in {"ok", "err"} : Return(r)
    /\ ClientIdle /\ Quiet /\ Untouched

NewTab ==
    /\ Running("new_tab")
    /\ IF pending \/ browser = None THEN NotSent ELSE Sent
    /\ Call(<<"create">>)
    /\ ClientIdle /\ Calm /\ Quiet /\ UNCHANGED <<arriving, held>>

SwitchTab ==
    /\ Running("switch_tab")
    /\ LinkUp /\ Calm
    /\ \E t \in OpenTabs : SwitchTo(t)
    /\ Sent /\ Return("ok")
    /\ UNCHANGED <<chromeVars, tab, linkVars, child, spawned, arriving, held>> /\ Quiet

NoTabToSwitchTo ==
    /\ Running("switch_tab")
    /\ \/ OpenTabs = {} /\ LinkUp /\ Calm /\ Return("err")
       \/ browser = None /\ Calm /\ Return("err")
       \/ browser # None /\ ~LinkUp /\ Calm /\ Return("conn")
       \/ Fault /\ Return("conn")
    /\ ClientIdle /\ Quiet /\ Untouched

CloseTool ==
    /\ Running("close")
    /\ Sent /\ Call(<<"close">>)
    /\ ClientIdle /\ Calm /\ Quiet /\ UNCHANGED <<arriving, held>>

\* A navigation commits after all.
ArrivesLate ==
    /\ arriving # None
    /\ arriving' = None
    /\ ClientIdle /\ Calm /\ UNCHANGED <<stack, res, tool, sends, answer, held, shut>>

-----------------------------------------------------------------------------
BrowserInit ==
    /\ external \in BOOLEAN
    /\ \E resident \in {None} \cup Chrome, t \in Tab :
          /\ status = [c \in Chrome |-> IF c = resident THEN "up" ELSE "off"]
          /\ tab = [u \in Tab |-> IF u = t THEN resident ELSE None]
          /\ port = resident
          /\ headless \in {{}, {resident} \ {None}}
    /\ owned = {}
    /\ browser = None /\ link = FALSE /\ page = None /\ selected = None
    /\ pending = FALSE /\ doubt = FALSE /\ refs = None
    /\ child = None /\ spawned = None
    /\ stack = <<>> /\ res = "none" /\ faults = 0
    /\ tool = "none" /\ sends = 0 /\ answer = "none"
    /\ arriving = None /\ held = FALSE /\ shut = FALSE

Executor ==
    \/ NoBrowser \/ RefuseArguments \/ Settled \/ StillAlive \/ ConnectionLost
    \/ Repeat \/ GiveUp \/ Final
    \/ \E t \in Tools : RunTool(t)

Operation ==
    \/ SnapshotTool \/ Look \/ Extract \/ CookiesGet \/ Screenshot \/ ListDownloads \/ ListTabs
    \/ Navigate \/ NoPageToNavigate \/ Arrives \/ Rejected \/ SlowToLoad \/ NeverUsable
    \/ Arm \/ Unverified \/ NoElement \/ Act \/ ClearField \/ InsertText \/ ElementCenter
    \/ Effect \/ Shown \/ PressKey \/ Down \/ Release \/ InjectHelpers \/ Script
    \/ Evaluate \/ Scroll \/ CookiesSet \/ DragFiles \/ Upload \/ ImportCookies \/ WaitFor
    \/ History \/ Watch
    \/ NewTab \/ SwitchTab \/ NoTabToSwitchTo \/ CloseTool

CallStep == Executor \/ Operation \/ (ClientStep /\ UNCHANGED toolVars)

BrowserNext ==
    \/ CallBegins \/ CallStep
    \/ AttemptTimesOut \/ CallTimesOut \/ Shutdown \/ ArrivesLate
    \/ Environment /\ UNCHANGED toolVars

BrowserSpec == BrowserInit /\ [][BrowserNext]_browserVars

\* Every await ends, each within its own bound, and the client goes on calling;
\* again and again it asks for a tab by its index, as the errors tell it to.
BrowserFair ==
    /\ WF_browserVars(CallBegins)
    /\ WF_browserVars(CallStep)
    /\ SF_browserVars(RunTool("switch_tab"))
    /\ SF_browserVars(SwitchTab \/ NoTabToSwitchTo)

FairBrowserSpec == BrowserSpec /\ BrowserFair

-----------------------------------------------------------------------------
Frames == {"launch", "begin", "op", "judge", "rejudge", "final", "reconnect", "reattached",
           "attach", "attached", "close", "closed", "kill", "singleton",
           "refuse", "starting", "endpoint", "heal", "adopt", "page", "absent", "create", "created", "opened",
           "goto", "look", "act", "insert", "effect", "shown", "down", "release", "script", "watch"}

BrowserTypeOK ==
    /\ external \in BOOLEAN
    /\ status \in [Chrome -> {"off", "up", "deaf"}]
    /\ headless \subseteq Chrome /\ owned \subseteq Chrome
    /\ tab \in [Tab -> Chrome \cup {None}]
    /\ {port, browser, child, spawned} \subseteq Chrome \cup {None}
    /\ {page, selected, refs, arriving} \subseteq Tab \cup {None}
    /\ {link, pending, doubt, held, shut} \subseteq BOOLEAN
    /\ stack \in Seq(Frames)
    /\ res \in {"none", "ok", "no", "conn", "err", "timeout"}
    /\ tool \in Tools \cup {"none"}
    /\ sends \in 0 .. 2
    /\ answer \in {"none", "ok", "error"}
    /\ faults \in 0 .. MaxFaults

\* References are only ever looked up on the tab they were taken from: no
\* switch, new tab, reconnect or launch, and no call dropped in the middle of
\* one, leaves the table of one tab with the page of another (ax_ref, 2730).
RefsOnTheirPage == page # None /\ refs # None => refs = page /\ page = selected

\* While nobody knows whether a requested tab has opened no other is requested,
\* until the caller has chosen a tab, closed the browser or got a new one
\* (page_creation_pending, 3868-3905, 4107).
NoBlindCreate == [][SendCreate => ~doubt]_browserVars

\* Every live browser this client has launched is held by a handle that ends
\* it: dropped calls, failing launches and replaced children leave none behind
\* (launch, 1189-1455; shared.rs, 70-89).
NoStrayChrome == owned \subseteq {child, spawned} \ {None}

\* With an external endpoint no browser is ever launched, and the user's browser
\* never ends by what the client does (launch 1195-1197, attach_external, close).
ExternalIsTheUsers ==
    [][external /\ (CallStep \/ CallTimesOut \/ Shutdown) =>
        owned' = {} /\ UNCHANGED status]_browserVars

\* A call keeps the promise of OnceCall: a write is never repeated, also when
\* it timed out or its connection broke, and a read once (run_op_with_reconnect).
KeepsOnce == Once!OnceSpec

\* Success is not answered while a key or a button of this call is still down
\* (press_key, click_trusted).
OkMeansReleased ==
    [][tool # "none" /\ tool' = "none" /\ answer' = "ok" => ~held]_browserVars

\* launch trusts a connection whatever its probe says (1212-1224); still a dead
\* one does not last: an operation finds out, and the client is connected again
\* (or shut down), whatever became of the browser at the other end.
DeadConnection == browser # None /\ ~LinkUp
Recovers == ~external /\ headless = {} /\ DeadConnection ~> LinkUp \/ shut

\* navigate answers for the page it has been sent to: the stale previous page,
\* whose readyState is also "complete", is told apart (wait_for_dom_usable).
NavigateArrives == [][tool = "navigate" /\ tool' = "none" /\ answer' = "ok" => arriving = None]_browserVars

\* Only an instance launched by this process is sent Browser.close; an attached
\* one belongs to another process (close, 3717-3718).
OnlyOwnIsClosed ==
    [][browser # None /\ browser \notin headless /\ status[browser] # "off"
        /\ (Close \/ Shutdown) /\ status'[browser] = "off" => browser \in owned]_browserVars

\* A live managed process is never killed because its CDP connection failed
\* (reconnect, 3807-3812).
LiveChildIsKept ==
    [][Started /\ child # None => status[child] = "off"]_browserVars
=============================================================================
