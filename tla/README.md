# A formal model of nuphus-mcp

nuphus-mcp is an MCP server in Rust: it reads JSON-RPC lines on stdin and lets an agent
operate the desktop (`crates/desktop-api`) and a browser (`crates/nuphus-browser`). This
directory holds TLA+ models of its parts that have a protocol to get right, the TLC runs that
check them on small instances, and theorems about them that TLAPS checks for every instance.

Paths below are relative to `crates/`. `PROJECT.json` maps every modelling definition to the
lines it stands for and lists runs, mutants, hazards, findings and theorems.

## 1. Inventory

| component (source) | state it keeps | operations | hard behaviour |
|---|---|---|---|
| cross-process lock (`nuphus-mcp/src/automation_lock.rs`) | one lock file; per call a guard with a token and a heartbeat thread | acquire, publish, reclaim, renew, release | several processes on one path, crashes, leases, threads |
| tool dispatch (`nuphus-mcp/src/tools/mod.rs`) | process-wide mutex | execute | two locks around each call |
| MCP session (`nuphus-mcp/src/server.rs`, `protocol.rs`) | initialized, shutdown and exit flags | handle_line, dispatch, tools/call | lifecycle order, panicking tools |
| stdio loop (`nuphus-mcp/src/main.rs`) | read buffer, current line, drain | serve, read_line_capped | framing across chunks, cap, faults, a client that goes away |
| semantic tools (`nuphus-mcp/src/tools/semantic.rs`) | last action space, its token | observe, bind, execute, action, verify_state | the desktop moves between any two reads; input that cannot be undone |
| Windows adapter (`desktop-api/src/semantic/windows_uia.rs`) | candidates of the last observation | observe, execute_candidate, dispatch, rebuild | native calls that time out after taking effect, toggles |
| outcomes, risk, policy (`outcome.rs`, `risk.rs`, `types.rs`, `verification.rs`) | none | encode, classify | what the client may repeat |
| bounded loop (`desktop-api/src/semantic/runner.rs`) | steps, stalls, trace | run | limits, partial failure |
| desktop targets (`desktop-api/src/semantic/targets.rs`, `targets/`) | catalogues, bindings, saved windows, registered applications | list, bind, activate, ensure, scopes, save | bounded caches, window numbers that are reused, launches that are polled |
| macOS adapter (`macos_accessibility.rs`, `native.rs`) | worker thread, channel of one, retained windows and regions, last snapshot | observe, observe_locator, execute | callers that have given up, windows that look alike |
| macOS window service (`desktop-api/src/platform/macos.rs`) | job queue, table of handles | list, inspect, activate, foreground | jobs whose caller has timed out |
| hint card (`desktop-api/src/hud.rs`) | shared slot, window thread, timers | show, window procedure | two threads started at once, timers |
| screen-space tools (`nuphus-mcp/src/tools/desktop.rs`, `desktop-api/src/input/`, `clipboard.rs`) | registry of captured elements, the user's clipboard | desktop_input, _mouse, _mouse_drag | the user moves the focus between two keys |
| vision (`nuphus-mcp/src/vision.rs`, `models.rs`, `desktop-api/src/vision/`) | model files shared by processes, temporary image | ensure, load, capture, perceive | downloads that race, die or are not the file |
| browser tools (`nuphus-mcp/src/tools/browser.rs`) | none | execute, run_op_with_reconnect | cancellation by timeout, retry |
| browser client (`nuphus-browser/src/client.rs`) | connection, child process, page, selected target, references, pending page creation | launch, attach, reconnect, close, tabs, references | dead connections, unknown outcomes, cancelled futures |
| shared client (`nuphus-browser/src/shared.rs`) | one client behind a mutex | get_or_launch, shutdown_browser | bounded waits |
| security checks, tool schemas, HTTP API, discovery, npm | none | - | constant tables, predicates, I/O |

How they interact. `serve` reads a line and awaits `handle_line`; a `tools/call` goes through
`tools::execute`, which takes the process mutex and then the lock file, runs the tool and drops
both. Desktop tools that use semantics go through the one `SemanticDesktopBackend` of the process
and its adapter; browser tools through the shared client. On exit and at end of input `serve` closes
the shared browser. So inside a process calls are sequential; concurrency comes from other
server processes (the lock file), from the heartbeat thread, from the desktop and the browser, which
change at any time, from timeouts that cancel, and from the client, which can die.

What makes each part correct:

- lock: one call at a time on the machine; a live call keeps its lease; a dead one loses it; acquire and release end; a release touches only its own record.
- stdio: lines are handled whole, in order, once; bad ones are answered and skipped; the server ends when its input does, without leaving a browser; memory is bounded.
- semantic tools: one native dispatch per observation; honest answers about what was sent; no success on evidence of another window; every call is answered.
- runner: never more inputs than the limit, none after one whose effect is unknown, an outcome that counts what was sent, an end.
- targets: a token names one live window of the application it was given for, or is refused.
- listings and trees: following the cursors shows everything once.
- verification: a verdict is about what was there.
- input: no key goes to a window nobody checked; nothing stays pressed or on the clipboard.
- model files: what is at its place is whole.
- threads (adapter, window service, hint card): nothing is done for a caller that has left; everything is served.
- browser: a write is never sent twice; a live browser is never killed for a dead connection; a reference is used only on the page it was taken from; no second page while the fate of one is unknown.

## 2. Modules

| module | what it is | run |
|---|---|---|
| `AutomationLock`, `AutomationLockProofs` | the lock file and its users | Lock... |
| `ActionSpace`, `ActionSpaceProofs` | semantic tools on the Windows adapter | ActionSpace |
| `McpSession` | what one line does: flags, answers, browser, exit | Stdio... |
| `LineServer` | abstract server: whole lines, one at a time (extends `McpSession`) | StdioLines |
| `StdioServer`, `StdioServerProofs` | the chunked reader (extends `McpSession`), shown to implement `LineServer` | Stdio... |
| `BoundedRun` | abstract run: what inputs may be sent, and when it ends | Runner |
| `AutomationRunner`, `AutomationRunnerProofs` | the loop, shown to implement `BoundedRun` | Runner |
| `OnceCall` | abstract browser call: a write at most once, a read at most twice | Browser |
| `BrowserClient` | connection, child process, tabs, references, page creation | Browser |
| `BrowserTool` | executor and operations on `BrowserClient`, shown to implement `OnceCall` | Browser |
| `BrowserProofs` | theorems about both, the refinement among them | |
| `DesktopTargets` | window tokens, saved windows, launches | Desktop |
| `DesktopVerify` | desktop_verify_state | Desktop |
| `AxAdapter` | the macOS adapter: worker, channel, session | Desktop |
| `WindowService` | the macOS window service | Desktop |
| `Hud` | the hint card of Windows | Desktop |
| `ScreenTools` | keyboard, clipboard, capture and mouse tools | Desktop |
| `ModelFiles` | downloading and loading the model files | Desktop |
| `Listings` | catalogue and candidate pages, registered applications | Desktop |
| `UiaTree` | how the Windows adapter reads a tree, and replays a locator | Desktop |
| `UiaTreeProofs` | theorems about `UiaTree` | |
| `DesktopLayerProofs` | theorems about the threads (`AxAdapter`, `WindowService`, `Hud`) and about `DesktopTargets`, `DesktopVerify`, `Listings` | |
| `DesktopProofs` | theorems about `ScreenTools`, `ModelFiles`, and about all layers in one (`MCDesktop`) | |
| `MC...` | instances for TLC (symmetry, definitions for constants) | |

`BrowserTool` composes the executor with the client. The nine modules of the run Desktop do not share
variables: `MCDesktop` chooses one of them (`part`) in the initial state, and the others rest. They are
nine machines checked in one run, not a product; its invariants and liveness properties are conjunctions of theirs.

### AutomationLock

A variable `path` is the lock file; `scratch[p]` is the private file process `p` has renamed or
written aside; `pc[p]` stands between two file-system calls of the tool thread, `beat[p]` of the
heartbeat thread. One action is one file-system call with the code up to the next: `Draft` and
`LinkOk`/`LinkFails` are `publish_new`; `Inspect` is the read in `acquire`; `Capture`,
`RecheckStale`/`RecheckLive`, `Restore` are `reclaim_stale`; `Join`, `DropCapture`, `VerifyOwn`/`VerifyForeign`, `PutBack` are the
guard's drop; `BeatDue`, `BeatRead`, `BeatWrite`, `BeatStop` are the heartbeat. `fs::rename` replaces
an existing file on every platform the code is built for, `hard_link` does not: the model is built on that difference.
Expiry is the number of seconds a record has left, counted down by `Tick`, so no clock grows. `Crash`
ends a process in any state, leaving its record. `IoFaults` lets any file call fail. `Prompt` says
that threads run before the next second when a beat or a publication is due; without it they may be delayed for ever.
The history variable `disturbed` is set when a rename takes the record of a running call, or puts a file over it.

### ActionSpace

The desktop is `front` (the foreground window) and `ctl` (the state of the control the current call is about). Everything
that makes a candidate usable is `space` (the stored action space), `served` (the candidates the adapter still knows) and `told` (tokens the client
has seen). `cur` is the call under way, with the state of its control in the read right before dispatch.
A step is one read of the desktop or one native call; between any two steps `UiChanges` may move the foreground or the
control, also inside the two-toggle loop of SetChecked. Errors of the adapter come in both kinds the code
produces: plain ones, which become `needs_observation` with dispatch state "unknown", and encoded ones.
The risk classes that matter are an ordinary action, an external commit and a critical one: `classify` never
yields Restricted, and a critical action is always refused with "not sent", because this server has nobody to confirm it.
A receipt for another candidate is refused by the code too; the Windows adapter cannot produce one.

### Stdio

A byte is a line feed, a blank, or a whole message, which keeps lines of one and two bytes interesting: empty, valid,
invalid, exactly at the cap and over it. `Fill` brings any chunk; `Collect`, `Drain` and `AtEof` are the branches of `read_line_capped`
together with what `serve` does with the result; `ReadFails` is a failing read, which the loop answers like an oversized line.
`ClientGone` closes the pipe answers are written to. The mapping to `LineServer` hands it the bytes
not yet handled, `line \o rest \o buffer`; that the chunking, the cap and the drain cannot be seen from
outside is `ImplementsLines`.

### AutomationRunner

`pc` is the await the loop stands at. `steps` and `stalls` are its counters, `late` says that the time limit has
passed, `decider` whether it decides itself or a model does; `sent` and `open` are history: inputs sent, and whether the effect of the last one is
still to be judged. Every `?` is `CallFails`: the run ends with an error and its counts are lost.

### BrowserClient and BrowserTool

An async method is a list of frames on `stack`, and an action runs the top frame from one `await` to the next; `res` is what the callee returned. That keeps
the model short and makes cancellation one action: `CallTimesOut` (the outer timeout of `execute`) and `AttemptTimesOut` (the budget of one attempt) drop
frames in any state, and what had been assigned by then stays assigned, as with a dropped future. What a future owns
goes with it: the process that `launch` has spawned and not yet stored (`spawned`) is killed with the frame.
`run_op_with_reconnect` is `RunTool`, `Settled`, `StillAlive`, `ConnectionLost`, `Repeat`, `GiveUp`, `Final`; `get_or_launch` is the frame "launch" in front of every call.
The environment may do something inconvenient `MaxFaults` times: a browser dies, stops listening ("deaf"), the connection breaks, a tab is closed,
somebody else starts a browser on the profile, a reply is lost or is an error, a probe fails, a timeout fires. Operations are one command each
(`Command`) or the commands whose order matters: `navigate` (page, goto, and what a slow load is taken for), `click` and
`type_text` (arm the change detector, act, wait), trusted clicks and keys (down, up), `batch_exec`, `history`, the tab operations and `close`.
Tools that are one read or one write share a name in `tool`; a mutant shows that the difference counts.
`doubt`, `sends`, `owned`, `held` and `arriving` are history. `OnceCall` sees a call as its kind and how often it has been sent.

### DesktopTargets

`screen` says which window a handle denotes; `Opens`, `Closes` and `Retitles` change it between any two awaits, and a handle that was closed may be opened again
as another window. `at` is the await a call stands at. `List`, `ChooseAmong`, `Launch`, `Poll`, `CheckBeforeRaise`, `Raise` and the three answers are
the code of list, bind, ensure and activate. `Enumerations` leaves out windows of processes that do not answer. `lived` (windows that have been there during the call)
and `stuck` (what a saved locator was last resolved to and still answers) are history.

### DesktopVerify

A sample is `FindWindow` and `Observe`, each of which may fail or be cut by the deadline; `Evaluate` is `DesktopExpectation::evaluate` over what was found, with
a partial tree as in the code. `trueFor` counts the samples for which the condition was really true, by a definition (`True`, `False`) that does not use
`Evaluate`: that is what verdicts are compared with.
A locator has an id, a title, both or neither. `bearers` are the windows with its id, any number of them: one for a live id, all of a class or all twins for a stable one;
`IdChanges` lets a window take or lose it, as on macOS with the titles it is made of. So "true" is said of the windows that the id fits, else the title, else of all of the
application, and of the one that is read once one is read. `Origin`, the window the locator was made from, only serves `VerdictsAreOfItsWindow` (finding 18).

### AxAdapter

One worker, a channel that holds one request, callers that give up. A request carries whether it was given up or ran out, and whether that happened before the last look at it ("before") or while it
acts ("acting"). Windows that bear the same title have the same `keys`; only the token of the session tells them apart. `LocateRound` is one round of
`observe_locator_scoped`; `Recapture`, `Raised`/`InPlace`, `Recheck`, `Dispatch` are the parts of `execute` between its looks at the deadline.

### WindowService

A queue of jobs and a thread that serves them one by one. `owner` is the history of who a handle was first given to. `DeadlinePassed` makes a job late, `WaitEnds` lets its caller leave.

### Hud

The slot and the window are shared, the two steps of a caller (write the slot, post the message) are separate, and two callers may each start a window thread. Timers are the sets `refresh`, `hiding`, `animated`.

### ScreenTools

One call of `desktop_input` (short text, long text by paste, hotkey), `desktop_perceive`, `desktop_mouse` or `desktop_mouse_drag` at a time, one step per key, click
or native call, while the user moves the focus, another program copies, or a display is moved. `held` is what the call has put down; `strayed` says that a key went to
another window before the call had seen its own in the foreground.
Three definitions state what a caller would expect and the code does not give: `PressesAreThere`, `PastesItsText`, `NothingStaysDown` (findings 12, 14, 15).

### ModelFiles

Server processes share a directory. A file is absent, empty, a page of something else, cut off, or whole. `Body` writes the scratch file piece by piece, `Dies` may come at any step, and
the scratch name carries the process id (`PartOf`). The OCR models are checked by a trial load, the dictionary and the icon model as `ChecksBytes` says.

### Listings

A listing is a snapshot for a query; `walk` is what an agent has seen of it and the cursor it goes on with. A page is bounded in rows and in size (`Taken`). Windows come and go, other agents list, and an agent whose query
is listed anew is excused (`Disturbed`). Registration (`registered.rs`) is read, write to a scratch file, rename, under the mutex of the process.

### UiaTree

`Page` is `capture_native`: breadth first with an offset, the depth cap, menus that are regions of their own, a full queue. `Search` looks for a region's root in each read anew.
The loops of the two are `PageStep` and `SearchStep`, one round each, repeated often enough to empty the queue.
`Locates`, `LocateRead` and `Decides` are `observe_locator_scoped` and its rounds. Node identities exist for the properties only; the adapter has what a node is and its chain of ancestors.

## 3. Runs

`Spec` where only safety is asked, `FairSpec` where something must happen.

| run | instance | shows |
|---|---|---|
| LockSafety | 2 processes, TTL 2, beat every 1, 3 attempts, 2 crashes, all file faults, any delays | `TypeOK`, `ExclusionUntilDisturbed`, `NoRenewalAfterRelease` |
| LockLease | 2 processes, TTL 3, beat every 1, 2 attempts, 1 crash, prompt | `LeaseKeptUntilDisturbed`, `CrashRecovery`, `AcquireTerminates`, `ReleaseTerminates` |
| LockExclusion | 3 processes, prompt, no crash, no fault | the claim fails, see findings; with 2 processes it takes a stall of a whole TTL in a reclaim |
| LockLongCall | 2 processes, prompt, no crash, no fault | the claim fails |
| LockLateDrop | delays, no crash, no fault | the claim fails |
| ActionSpace | 3 windows of 2 applications, 2 observations, 3 settle reads | five properties of the semantic tools |
| StdioLines | cap 2, chunks of at most 3, 5 bytes, 5 messages, 1 read fault | refinement and the end of the server |
| StdioBrowser, StdioBuffer | 4 and 8 bytes | two claims fail |
| Runner | 4 steps, 2 stalls | accounting, refinement, termination |
| Browser | 3 browser processes, 2 tabs, 2 inconvenient events, 12 kinds of tools; about 1.1 million states | references, pages in doubt, stray and foreign browsers, `KeepsOnce`, `OkMeansReleased`, `Recovers` |
| Desktop | the nine layers, each with its own bounds, below; about 930 000 states | six invariants, six action and liveness properties, each of one layer or a conjunction over layers |

Bounds, and why they are enough. Two processes already reach every conflict of the lock: one holder, one reclaimer, and a crashed
owner's record; the theorems hold for any number. Tokens are recycled when no file carries them (`Fresh`): with two processes at most
three are in use. TTL 2 and an interval of 1 keep the order of beat, expiry and reclaim that 90 and 30 have. In `ActionSpace`, `MaxObs` bounds observations stored:
two let a token be stale because a newer one exists. Three windows of two applications give "same window", "same application", "another application".
`SettleReads` is 6 in the code; 3 has a first, a middle and a last read. In the stdio runs `MaxBytes` bounds the input and `MaxFaults` failing reads: five bytes hold an oversized line and a good one after it.
The runner's limits are small values of numbers the theorems quantify over.

Browser: three processes are a dead one that is still held, a live one, and one about to start or somebody else's; two tabs are the task's and another; two
events give every pair of faults, such as a lost connection and then a lost reply, or a cancelled launch after a failed reattachment. The
theorems about this model hold for any number of each.

Desktop, by layer:

| layer | instance | enough for |
|---|---|---|
| targets | 2 handles, 2 applications with 3 appearances, 2 tokens, 2 locators, caps of 1, 2 polls, 2 events | a handle taken over by another process, full tables, a launch that opens its window late or never |
| verify | 2 windows, the second with a matching control or gone at first, id borne by none, one or both, up to 2 samples, 1 change | the deadline before, in and after each sample; a window that vanishes, changes, or takes or loses the title or id between two; twins, of which one is left |
| ax | 2 windows, 2 titles, 1 retained, 2 rounds, 2 requests, 1 event | twins with one title, a token whose window the session has dropped, a second request behind one that is given up |
| service | 2 windows, 2 callers, 2 handles, 2 looks, 2 jobs | a late job behind another, a window that goes and comes back, no handle left |
| hud | 2 callers, 2 window threads, 1 tick, 3 hints | two threads started at once, a hint between two timers |
| screen | 2 windows, 2 places, 2 characters, 1 drag step, 1 capture kept, 1 slip | one change of focus, clipboard or display between any two steps |
| files | 2 processes, 3 files, 2 sources, 1 death | a race for one file, a death at every step, a bad source followed by a good one |
| listings | 2 applications, 3 windows, 2 queries, pages of 3 rows or 4 units, 1 catalogue kept, 2 agents, 2 registering threads, 1 event | several pages, an evicted catalogue, a window between two pages |
| tree | 3 trees, pages of 2 nodes, depth 3, chains of 2, 5 rounds, 1 change | several pages, rows in rows, window menus and open menus, a tree that changes in a replay |

Deadlock is checked in all lock runs and in `ActionSpace`. The stdio runs and `Runner` switch it off: a process that has exited and a run that has ended stop.
`Browser` and `Desktop` switch it off too: after `shutdown_browser` nothing is left to do, callers need not call again, and requests, jobs and hints are bounded in number.
What a layer has begun still ends: `CallsEnd` and `HudEndsHidden` say so.

Every property of a passing run has a mutant in `PROJECT.json`: the change of one definition, such as a guard a plausible bug would drop, that makes TLC find it violated.

### Fairness

- Lock: weak fairness of each process's tool thread, heartbeat thread, of time, and of taking up another call (an agent that keeps working; without it a dead process's record would stay, and nobody would mind). Not of `Finish`: a tool call may run for ever. Not of `Crash`.
- ActionSpace: weak fairness of the steps of a call under way, because the runtime polls it. The desktop owes nothing.
- Stdio: weak fairness of handling bytes already there. The client owes nothing; what must happen is promised only after end of input.
- Runner: weak fairness of its own steps (each await is assumed to return: the trait implementations have timeouts, the loop has none) and of the clock passing the limit.

- Browser: weak fairness of a call's own steps (every await in `client.rs` has a timeout) and of beginning another call; strong fairness of choosing `switch_tab` and of its success or plain failure among the outcomes, because a page in doubt is only left by a tab the caller chooses, as the error message tells it. `Recovers` needs it: a client that never calls again never finds out that its connection is dead, which is what the code does.
- Desktop: weak fairness of each layer's own steps (`TargetsFair`, `VerifyFair`, `AxFair`, `HudFair`, `ScreenFair`, `FilesFair`, `TreeFair`), among them the deadlines the code sets and the timers of the hint card. Nothing of callers beginning a call, of the user or of the desktop. `WindowService` and `Listings` have safety properties only.

## 4. Findings

The first five are runs that expect TLC to refute what the code's own documentation says.

1. `LockExclusion` - "at most one Agent may run an automation operation at any given moment" (`automation_lock.rs` 4-5). `reclaim_stale` captures whatever is at the path at that time: a process that has found no live record there (an expired one, or none, its holder having released it in between) may capture the fresh record of another, and while it holds that aside the path is free and lets a third process in. TLC's trace has no tick of the clock.
2. `LockLongCall` - a long call "cannot outlive its own lock" (24-25). A heartbeat that reads during such a capture finds no record, takes the lock for lost, and ends for good (331-333); the record expires while the call runs, still aside (as in TLC's trace) or after it has been put back.
3. `LockLateDrop` - "a late Drop can never delete another owner's freshly published lock" (31-32). Putting a foreign record back uses `fs::rename`, which replaces a record published meanwhile (293; 270 in reclaim), although the comments expect it to fail (268-269, 290-292).
4. `StdioBrowser` - without shutdown "a launched Chrome would be orphaned" (`main.rs` 118-120): a failed write of an answer returns from `serve` before any shutdown (107-109).
5. `StdioBuffer` - "rather than letting the buffer grow without bound" (132-134): the drain collects the rest of the line in an unbounded vector (159-160).

`ExclusionUntilDisturbed` and `LeaseKeptUntilDisturbed` are the complement of 1 and 2: displacing renames are the only way in which exclusion or a lease is lost.

The others were met while modelling. They have no run of their own. Where a definition is named it stands in the module, in no configuration, and TLC
refutes it when it is added to the one of the component; the models keep the behaviour.

6. `wait_for_dom_usable` is said to tell the new document from the one being left (`client.rs` 3497-3499), and takes any complete document for it (3535): `NavigateArrives` (`BrowserTool`).
7. "Only send Browser.close to an instance launched by this process" (3717): the test is that there is a child handle (3720), also when the child has died and the connection is to somebody else's browser: `OnlyOwnIsClosed` (`BrowserTool`).
8. "A live managed process is never killed because its CDP connection failed" (3809): the launch after a failed reattachment replaces its handle, which kills (1440): `LiveChildIsKept` (`BrowserTool`).
9. A snapshot "must never silently imply a whole page" (1900): frames beyond the caps are left out without a word (256).
10. `browser_extract` is listed as a pure read that may be repeated (`tools/browser.rs` 190-198), but its script removes elements of the live page (`client.rs` 3328).
11. A window whose title or process cannot be read is missing from an enumeration (`targets.rs` 833-840), and its absence is then verified (`semantic.rs` 825-827). `VerdictsAreTrue` makes the exception.
12. The capture registry is said to hold screen positions (`tools/desktop.rs` 17-18, 29-30) and holds positions in the image (45): `PressesAreThere` (`ScreenTools`).
13. The clipboard is "never silently clobbered" (698-700), but is when it could not be read (703), or when it changed during the paste (714).
14. The old clipboard comes back at once after ctrl+v (714), perhaps before the window has read it: `PastesItsText` (`ScreenTools`).
15. A drag whose move fails leaves the button down (`input/mouse.rs` 230-237): `NothingStaysDown` (`ScreenTools`).
16. The geometry reported for a captured region is not where its pixels are when the first monitor is not at the origin (`vision/capture.rs` 79-81).
17. An ambiguous saved locator is to be refused (`windows_uia.rs` 514-533, 855-866, and a test), but matches are counted on one page only: `ReplayIsUnique` (`UiaTree`).
18. A "stable, locally-derived window identity" (`types.rs` 144) is shared by all windows of a class (`windows_uia.rs` 1078-1086) or by twins (`native.rs` 771-786). The macOS adapter refuses to act where it is (`macos_accessibility.rs` 811, 985) and a test refuses to choose a window by it (`targets.rs` 953-954), but a verification reads the window that is left, or that bears the title (604, 607), and accepts it by its equal id (`windows_uia.rs` 601-620): when the window of the locator has closed, the verdict is about its twin. `VerdictsAreOfItsWindow` (`DesktopVerify`). `VerdictsAreTrue` asks that the window read bears the id.
19. Registered applications are kept under a mutex of one process (`registered.rs` 36-57), while another application writes the same file (14-16). `RegisteredStays` is about one process.

## 5. Proofs

All are for every value of the constants that meets the modules' named assumptions, which TLC evaluates in the runs. The assumptions ask that the
value standing for "none" is none of the real ones, that bounds are natural numbers and capacities positive, and in a few places more, each with its reason in the code:
`ConstantsAssumption` that a lease leaves room for a beat (90 s and 30 s), `TokenAssumption` that there are more tokens than the table of bindings holds (they are fresh random numbers),
`AppearanceAssumption` that a window belongs to an application, `FilesAssumption` that the three model files are three, `ListingsAssumption` that a page holds any one row (`fit_page`
always takes the first), `SessionAssumption` that the cap is positive, `TreesAssumption` that a tree has a root and a control comes after its parent (controls are numbered in the order of the document, and the order of siblings is that of their numbers).

A theorem whose name ends in `TypeCorrect` states the type invariant of its module. Below, "`T`: `I`" says that theorem `T` follows from the inductive invariant `I`,
and what `I` adds to the property that makes it inductive.

**AutomationLockProofs.** `TypeCorrect`, `NoLateRenewal`, `Exclusion`, `LeaseKept`, in three layers. `TypeInv` adds to the types what each label keeps at hand (`Shape`): a private file where the next step reads one, a token during a call, no heartbeat outside a call, and a renewal that carries the call's own token. `NoRenewalAfterRelease` is a part of it. `ExclusionUntilDisturbed` alone is not inductive, because a free path would let a second call in: `ExclusionInv` adds that the record at the path of an undisturbed call carries that call's token, and then `hard_link` fails for everybody else. `LeaseInv` adds how many seconds that record (and a draft about to be linked) has left against the seconds to the next beat.

**ActionSpaceProofs.** `TypeCorrect`, `OneDispatch`, `RetryIsSafe`, `ExecutedHasHappened`. `TokenInv` ties the token of the call under way to the stored action space: only in front of the fresh read may the space still be there, and then it is the call's; behind it there is none; no token of a stored space, and none not yet issued, has been used for a dispatch. `RetryInv` says where in a call no input has been sent yet, and that a call which verifies under "not sent" has sent none.
`WatchInv`: from the read right before dispatch until the settle loop ends, an effect that is there has been noted, and a call under way has no answer yet; so a read-back that shows the effect in the observed window has a moment to refer to.

**StdioServerProofs.** `TypeCorrect`, and `Refinement`: the chunked reader implements `LineServer`. `StdioInv` adds to the types that neither the collected nor the drained bytes contain a line feed,
that nothing has been drained unless the line is, and that a line is only drained when what has been read of it and what the buffer holds of it pass the cap (`AtHand`). Then the first line of `line \o rest \o buffer`
is found where the chunk ends it (`FirstLineOpen` and the lemmas around it, which need the least number of a set, hence `WellFoundedInduction`), `Collect`, `Drain` and `AtEof` at the end of a line are `HandleLine` with the same verdict on its
length, and inside a line they are stutters.

**AutomationRunnerProofs.** `TypeCorrect`, `Accounting`, and `Implementation`: the loop implements `BoundedRun`. `RunInv` keeps, between the check of the limits and the dispatch, room for one more step and no input whose effect is open.

**BrowserProofs.** For any number of browsers, tabs and faults.

- `References`: `PageInv` says that the page handle, if there is one, is of the selected tab, and the table is empty or of that page; `RefsOnTheirPage` alone does not say where a reference may point while there is no page.
- `NoSecondPage`: `DoubtInv`, doubt implies the mark that refuses a page.
- `HeldOrEnded`: a started process is in the hands of the frame that waits for it, so `StackInv` describes which frames may lie where (an attempt that may be dropped alone contains no launch), and `StrayInv` adds that `spawned` is only set while "starting" is the top frame.
- `UsersBrowser`: with an external endpoint no launching frame is ever on the stack and there is no child to end.
- `OncePromise`: the executor implements `OnceCall`. `OnceInv` adds to `StackInv` what may still be sent: a budget by the bottom frame (one in the first attempt, two in the repeated one, which only a read reaches), at most one frame that sends, with less sent than the budget while it is there, and that what is about to be answered with success has been sent. It needs that no tool is called "none" (`ToolsAssumption`), the abstract state between calls.
- `ReleasedBeforeOk`: `HeldInv`, only a click and a key press take hold of anything, and while something is held its release is next, or a failure is on its way to the answer, or the attempt is being judged anew; no read holds anything.
- `BrowserTypeCorrect`: the types in groups, because a step disturbs few of them; the bound on `sends` comes from `OnceInv`.

**UiaTreeProofs.** `TreeTypeCorrect` and `TreePagesTile`, for any trees, any page size, depth, offset and search budget, and whatever changes between two reads. The argument in four parts:

- *The order of a region.* `IsOrder` describes, without any page in it, the breadth-first sequence of a region's nodes: `ends[k]` is how far the sequence reaches once its first `k` entries have been opened (`Opened`), every entry but the first was put there by one before it, and no node stands there twice (`Rooted`). `RegionHasOrder`: every region of every tree has one. It is built one entry at a time (`OpensOneMore`), and as nodes do not repeat it is no longer than the tree (`OrderIsBounded`). `OrderIsVisible`: its nodes are exactly `Visible`, the definition by depth that `PagesTile` compares with.
- *One page.* `OnTrack` relates the state of `capture_native`'s loop to that order: the queue is the stretch of it from the nodes visited to the nodes found, cut off where the traversal limit cuts it; the page is the stretch from the offset; and what is not marked as truncated is the beginning of the order with nothing found left out. `PageStart` and `PageKeepsTrack` say that the loop begins and stays on the track, so `PageShows`: a page is the order from its offset on, at most as long as a page may be, and if there is no more to come it reaches the end of the order.
- *The region's root.* `SearchFinds`: what the search of a container finds fits it, so the root of a container in one read is like that of the read before (`RegionRootIs`).
- *The invariant.* `TreeInv`. `PagesTile` alone does not say where the next page begins. `Tiles` does: what a client has seen is the first `offset + Len(ids)` nodes of the order of the tree it reads, for a root the search still finds there. `ScopeInv` keeps the name of a region and its root together, `MetadataInv`, `SpaceInv`, `ReplayInv` are what the types need beside.

Recursive functions come with no theorem about what they compute that the installed provers could use; here it is shown that they exist and what they are. `AllOfNat` is induction over a *set* of numbers (from the well-foundedness of `<`), `Iterates` says that for a step `F`, a function on a set, there is a function that repeats it `n` times, and the recursive definition is then that function by extensionality. This works where the step is a function into one set given beforehand: `PageStep`, `SearchStep`, `Visible`, `Chain`.

**DesktopLayerProofs.**

- `AxAdapter`. `InItsWindow`: `SessionInv`, tokens are given in order and one token denotes one window; then every observation, candidate and request carries a token that was given to its window (`KnownInv`, `RequestInv`), and behind the recapture the target is that window (`TargetInv`), whatever has been dropped from the session. `NotAfterGivingUp`, from the same invariant: behind the last look a request can only have been given up since. `AxTypeCorrect` adds `StageInv`: the worker is idle exactly when it has no request, and what the session retains is within its bound.
- `WindowService`. `HandlesAreForever`: `TableInv`, handles are given out in order, those beyond the last have never had an owner, and the table shows the owner or nothing. `NothingStartsLate`: `QueueInv`, a job that is not late has somebody waiting for it; a job's number is in the queue once. `ServiceTypeCorrect` adds the counters (`CountsInv`).
- `Hud`. `HudTypeCorrect`, which is inductive as it stands.
- `DesktopTargets`. `AnswersLived`: `LivedInv`, while a call runs every window that is there has been noted, and what is about to be raised or answered is a window that has been seen in it. `SavedLocatorsStick`: `SavedInv`, a locator that sticks has its window saved, and a call for it goes to that window or has not chosen yet; while it waits for a launch the locator sticks to nothing. `TargetsTypeCorrect`.
- `DesktopVerify`. `VerdictsHold`: `VerdictInv`, while nothing was missing from an enumeration the streak the loop counts is at most the streak of samples in which the condition was true; the lemmas before it compare `Evaluate` with `True` and `False` case by case, for any set of windows bearing the locator's id. `VerifyTypeCorrect`.
- `Listings`. `ListingsAreWhole`: `PagingInv`, a walk has seen exactly the rows before its cursor and goes on exactly if there are more (`Following`), a query has one listing at a time, and no more are kept than the cap. That a page takes at least one row and none beyond the end is a lemma about `Taken`. `RegistrationsStay`: `RegistrarInv`, whoever writes holds the mutex and writes all that is registered. `ListingsTypeCorrect`. `Rows` is the listing in order, by the least row not yet listed (`InOrder`); `ListingsAreWhole` compares with the listing, not with the desktop.

**DesktopProofs.**

- `ScreenTools`, from one invariant, `ScreenInv`. `KeysGoWhereAsked`: behind the activation every step that sends a key has seen its window (`KeysInv`). `NothingLeftBehind`: what is pressed is let go of before the next thing is done (`HeldInv`), and a paste has put back what it read when its keys are sent (`PasteInv`). `PlacesTold`: a capture under way that differs from the display has cost a move, and two if it looks the same again (`MakingInv`), and what is registered is true (`CapturesInv`). `ScreenTypeCorrect`.
- `ModelFiles`. `ModelsStayWhole`: `FilesInv`, what a process is about to rename lies in its own scratch file, has its floor, and is whole if the file is one that is tried out; no other process writes there. `FilesTypeCorrect`.
- All layers. `LayersRunAlone`: a behaviour of `DesktopSpec` is one of every layer's own specification, which carries the theorems above to the run Desktop. From it, and from the theorems about the tree: `DesktopTypeCorrect` (`DesktopTypeOK`), `NothingIsPartial` (`NothingPartial`), `NothingIsLate` (`NothingLate`), and `LayersKeepTheirWord`, the other eight safety properties of the run under its own specification.

### Only model-checked

- Liveness and everything with ENABLED: `CrashRecovery`, `AcquireTerminates`, `ReleaseTerminates`, `CallReturns`, `ServesToTheEnd`, `RunEnds`, `Recovers`, `HudEndsHidden`, `CallsEnd`.
- What the runs that expect a violation refute, and the definitions named in section 4.

Every safety property of a passing run is the statement of a theorem.

## 6. Not modelled

- Text: messages, schemas, argument parsing, the scoring of locators, keyword lists of the risk classes, fingerprints, names of keys. A locator finds its control once, more than once, or not at all. A title reads the same in an enumeration and in an observation (on macOS the second is redacted, `native.rs` 796: a locator without an id whose title is a redacted one is outside `DesktopVerify`).
- Numeric data: inference, scaling and merging of boxes (`vision/yolo.rs`, `ocr.rs`, `locate.rs`), drawing and DPI of the hint card. Positions are along one axis.
- The content of pages: scripts (`helpers.js`), frames, the accessibility tree behind a snapshot, download files, cookies. An operation is the commands it sends and when.
- Platform calls: a native call returns, times out or fails; none blocks for ever. Reading shortcuts, bundles and processes is one step that may miss some.
- Wall clocks set back; file systems without atomic rename and hard links; processes that get another's number while its scratch file lies there.
- Scrolling, `desktop_shell`, the macOS card (one `osascript` call) and the macOS and Linux input back ends: a call that sends one request to the system and returns.
- `security.rs` (predicates over arguments), `schemas.rs`, `chrome_finder.rs`, `cookie_source.rs`, the HTTP API (not built into this server) and npm packaging: no state that changes over time.
- The process-wide mutex's 30 s bound: one stdio loop has one call at a time.
- Compositions across the desktop layers: `ActionSpace` takes an adapter's answer as an outcome of its own, and does not contain `AxAdapter` or `UiaTree`. The product is beyond TLC at any bound where both sides are interesting.

## 7. What is left

1. An abstract adapter that `ActionSpace` uses and both `AxAdapter` and the Windows adapter implement.
2. The hazards, or parts of them, without a property (`PROJECT.json` gives the reasons): a read of stdin that fails for ever keeps the loop spinning (`main.rs` 81); a process that dies with another's live record aside (`automation_lock.rs` 258), which the lock's properties except; an error of the runner says nothing of what was sent (`runner.rs` 353); the foreground changes between the last look and a key (`input/mod.rs` 178); a call that fails leaves a key or button down (finding 15); a verification goes on with a twin (finding 18). The code gives nothing there that a property could hold on to.
