---------------------------- MODULE BrowserProofs ----------------------------
(* Theorems about the browser tools and their client, for any number of         *)
(* browsers, tabs and inconvenient events; that they implement OnceCall is one. *)
EXTENDS BrowserTool, SequenceTheorems, TLAPS

-----------------------------------------------------------------------------
(* The references. *)

\* The page handle is of the selected tab, and the references are of that page.
PageInv == page # None => page = selected /\ refs \in {None, page}

\* What a step may do to them.
PageMoves ==
    \/ UNCHANGED pageVars
    \/ page' = None /\ selected' \in Tab \cup {None, selected} /\ refs' \in {None, refs}
    \/ \E t \in Tab : Select(t)
    \/ UNCHANGED <<page, selected>> /\ refs' \in {None, refs}
    \/ UNCHANGED <<page, selected>> /\ page # None /\ refs' \in {None, selected}

LEMMA ClientMovesPage == ASSUME ClientStep PROVE PageMoves
<1>. USE DEF PageMoves, pageVars, clientVars
<1>1. CASE Adopt
  BY <1>1 DEF Adopt, TaskTabs, OpenTabs
<1>2. CASE Attach \/ Launch \/ LaunchExternal \/ AttachExternal \/ Heal \/ Attached
  BY <1>2 DEF Attach, Launch, LaunchExternal, AttachExternal, Heal, Attached, Connects
<1>3. CASE GetOrCreate \/ CreateIfAbsent \/ RefuseCreate \/ SendCreate \/ Created \/ CreateFails \/ Opened
  BY <1>3 DEF GetOrCreate, CreateIfAbsent, RefuseCreate, SendCreate, Created, CreateFails, Opened, FreeTabs
<1>4. CASE Close \/ Closed \/ Kill \/ Singleton \/ Refuse \/ Spawn
  BY <1>4 DEF Close, Closed, Kill, Singleton, Refuse, Spawn, Forget
<1>5. CASE Started \/ StartFails \/ Reconnect \/ Reattached
  BY <1>5 DEF Started, StartFails, Reconnect, Reattached, Connects
<1>. QED
  BY <1>1, <1>2, <1>3, <1>4, <1>5 DEF ClientStep

LEMMA OperationMovesPage == ASSUME Operation PROVE PageMoves
<1>. USE DEF PageMoves, pageVars, clientVars, ClientIdle, PageOnly
<1>1. CASE SnapshotTool \/ Look
  BY <1>1 DEF SnapshotTool, Look, Snapshot, AxTable, DomTable, Replies, PageState
<1>2. CASE Navigate
  BY <1>2 DEF Navigate
<1>3. CASE SwitchTab
  BY <1>3 DEF SwitchTab, SwitchTo, OpenTabs
<1>4. CASE \/ Extract \/ CookiesGet \/ Screenshot \/ ListDownloads \/ ListTabs
           \/ Evaluate \/ Scroll \/ CookiesSet \/ DragFiles \/ Upload \/ ImportCookies \/ WaitFor
  BY <1>4 DEF Extract, CookiesGet, Screenshot, ListDownloads, ListTabs, Evaluate, Scroll, CookiesSet,
     DragFiles, Upload, ImportCookies, WaitFor, Reads, Writes
<1>5. CASE \/ NoPageToNavigate \/ Arrives \/ Rejected \/ SlowToLoad \/ NeverUsable
           \/ Arm \/ Unverified \/ NoElement \/ Act \/ ClearField \/ InsertText \/ ElementCenter
  BY <1>5 DEF NoPageToNavigate, Arrives, Rejected, SlowToLoad, NeverUsable, Arm, Unverified,
     NoElement, Act, ClearField, InsertText, ElementCenter
<1>6. CASE \/ Effect \/ Shown \/ PressKey \/ Down \/ Release \/ InjectHelpers \/ Script
           \/ History \/ Watch \/ NewTab \/ NoTabToSwitchTo \/ CloseTool
  BY <1>6 DEF Effect, Shown, PressKey, Down, Release, InjectHelpers, Script, History, Watch,
     NewTab, NoTabToSwitchTo, CloseTool
<1>. QED
  BY <1>1, <1>2, <1>3, <1>4, <1>5, <1>6 DEF Operation

LEMMA StepMovesPage == ASSUME [BrowserNext]_browserVars PROVE PageMoves
<1>. USE DEF PageMoves, pageVars, clientVars, ClientIdle
<1>1. CASE ClientStep
  BY <1>1, ClientMovesPage
<1>2. CASE Operation
  BY <1>2, OperationMovesPage
<1>3. CASE Executor
  BY <1>3 DEF Executor, NoBrowser, RefuseArguments, Settled, StillAlive, ConnectionLost, Repeat,
     GiveUp, Final, RunTool
<1>4. CASE CallBegins \/ AttemptTimesOut \/ CallTimesOut \/ Shutdown \/ ArrivesLate
  BY <1>4 DEF CallBegins, AttemptTimesOut, CallTimesOut, Shutdown, ArrivesLate, Forget
<1>5. CASE Environment
  BY <1>5 DEF Environment, LinkBreaks, ChromeDies, ChromeGoesDeaf, TabCloses, OtherStarts, Undisturbed
<1>6. CASE UNCHANGED browserVars
  BY <1>6 DEF browserVars
<1>. QED
  BY <1>1, <1>2, <1>3, <1>4, <1>5, <1>6 DEF BrowserNext, CallStep

\* References are only ever used on the page they were taken from (RefsOnTheirPage):
\* no switch, new tab, reconnect or dropped call mixes the tables of two tabs.
THEOREM References == BrowserSpec => []RefsOnTheirPage
<1>1. BrowserInit => PageInv
  BY DEF BrowserInit, PageInv
<1>2. PageInv /\ [BrowserNext]_browserVars => PageInv'
  BY StepMovesPage DEF PageInv, PageMoves, pageVars, Select
<1>3. PageInv => RefsOnTheirPage
  BY DEF PageInv, RefsOnTheirPage
<1>. QED
  BY <1>1, <1>2, <1>3, PTL DEF BrowserSpec

-----------------------------------------------------------------------------
(* Pages in doubt. *)

\* As long as there is doubt the mark is set that refuses another page.
DoubtInv == doubt => pending

DoubtMoves ==
    \/ UNCHANGED <<pending, doubt>>
    \/ pending' = FALSE /\ doubt' = FALSE
    \/ pending' = TRUE

LEMMA StepMovesDoubt == ASSUME [BrowserNext]_browserVars PROVE DoubtMoves
<1>. USE DEF DoubtMoves, clientVars, ClientIdle
<1>1. CASE ClientStep
  <2>1. CASE \/ Adopt \/ GetOrCreate \/ CreateIfAbsent \/ RefuseCreate \/ SendCreate \/ Created
             \/ CreateFails \/ Opened
    BY <2>1 DEF Adopt, GetOrCreate, CreateIfAbsent, RefuseCreate, SendCreate, Created,
       CreateFails, Opened, MarkPending, KeepsOnError
  <2>2. CASE \/ Launch \/ Attach \/ Attached \/ Close \/ Closed \/ Kill \/ Singleton \/ Refuse \/ Spawn
    BY <2>2 DEF Launch, Attach, Attached, Close, Closed, Kill, Singleton, Refuse, Spawn, Forget
  <2>3. CASE \/ Started \/ StartFails \/ LaunchExternal \/ AttachExternal \/ Heal \/ Reconnect \/ Reattached
    BY <2>3 DEF Started, StartFails, LaunchExternal, AttachExternal, Heal, Reconnect, Reattached
  <2>. QED
    BY <1>1, <2>1, <2>2, <2>3 DEF ClientStep
<1>2. CASE Operation
  <2>. USE DEF PageOnly
  <2>1. CASE SnapshotTool \/ Look \/ Navigate \/ SwitchTab
    BY <2>1 DEF SnapshotTool, Look, Navigate, SwitchTab, SwitchTo
  <2>2. CASE \/ Extract \/ CookiesGet \/ Screenshot \/ ListDownloads \/ ListTabs
             \/ Evaluate \/ Scroll \/ CookiesSet \/ DragFiles \/ Upload \/ ImportCookies \/ WaitFor
    BY <2>2 DEF Extract, CookiesGet, Screenshot, ListDownloads, ListTabs, Evaluate, Scroll, CookiesSet,
       DragFiles, Upload, ImportCookies, WaitFor, Reads, Writes
  <2>3. CASE \/ NoPageToNavigate \/ Arrives \/ Rejected \/ SlowToLoad \/ NeverUsable
             \/ Arm \/ Unverified \/ NoElement \/ Act \/ ClearField \/ InsertText \/ ElementCenter
    BY <2>3 DEF NoPageToNavigate, Arrives, Rejected, SlowToLoad, NeverUsable, Arm, Unverified,
       NoElement, Act, ClearField, InsertText, ElementCenter
  <2>4. CASE \/ Effect \/ Shown \/ PressKey \/ Down \/ Release \/ InjectHelpers \/ Script
             \/ History \/ Watch \/ NewTab \/ NoTabToSwitchTo \/ CloseTool
    BY <2>4 DEF Effect, Shown, PressKey, Down, Release, InjectHelpers, Script, History, Watch,
       NewTab, NoTabToSwitchTo, CloseTool
  <2>. QED
    BY <1>2, <2>1, <2>2, <2>3, <2>4 DEF Operation
<1>3. CASE Executor
  BY <1>3 DEF Executor, NoBrowser, RefuseArguments, Settled, StillAlive, ConnectionLost, Repeat,
     GiveUp, Final, RunTool
<1>4. CASE CallBegins \/ AttemptTimesOut \/ CallTimesOut \/ Shutdown \/ ArrivesLate
  BY <1>4 DEF CallBegins, AttemptTimesOut, CallTimesOut, Shutdown, ArrivesLate, Forget
<1>5. CASE Environment
  BY <1>5 DEF Environment, LinkBreaks, ChromeDies, ChromeGoesDeaf, TabCloses, OtherStarts, Undisturbed
<1>6. CASE UNCHANGED browserVars
  BY <1>6 DEF browserVars
<1>. QED
  BY <1>1, <1>2, <1>3, <1>4, <1>5, <1>6 DEF BrowserNext, CallStep

\* While the fate of a requested tab is unknown no other one is requested
\* (NoBlindCreate), however calls are cancelled.
THEOREM NoSecondPage == BrowserSpec => NoBlindCreate
<1>1. BrowserInit => DoubtInv
  BY DEF BrowserInit, DoubtInv
<1>2. DoubtInv /\ [BrowserNext]_browserVars => DoubtInv'
  BY StepMovesDoubt DEF DoubtInv, DoubtMoves
<1>3. DoubtInv => [SendCreate => ~doubt]_browserVars
  BY DEF DoubtInv, SendCreate
<1>. QED
  BY <1>1, <1>2, <1>3, PTL DEF BrowserSpec, NoBlindCreate

-----------------------------------------------------------------------------
(* Processes. *)

\* The frames at the bottom of a call, those an operation runs, and those that
\* only a launch of our own runs.
Bottoms == {"begin", "judge", "rejudge", "final"}
OpFrames == {"op", "page", "absent", "adopt", "create", "created", "opened", "goto", "look", "act",
             "insert", "effect", "shown", "down", "release", "script", "watch", "close", "closed"}
LaunchFrames == {"attach", "attached", "kill", "singleton", "refuse", "starting"}
Inner == Frames \ Bottoms
Attaching == Inner \ LaunchFrames

\* An attempt whose future may be dropped alone launches nothing, and nothing is
\* launched with an external endpoint.
StackInv ==
    /\ external \in BOOLEAN
    /\ stack \in Seq(Frames)
    /\ \A i \in 1 .. Len(stack) : stack[i] \in Bottoms <=> i = Len(stack)
    /\ \A i \in 1 .. Len(stack) :
          stack[Len(stack)] \in {"judge", "final"} /\ i < Len(stack) => stack[i] \in OpFrames
    /\ \A i \in 1 .. Len(stack) : external => stack[i] \notin LaunchFrames

\* What a step may do to the stack.
Calls(S) == \E frames \in Seq(S) : Len(frames) \in 1 .. 2 /\ stack' = frames \o Tail(stack)
StackMoves ==
    \/ UNCHANGED stack
    \/ stack' = <<>>
    \/ stack' \in {<<"launch", "begin">>, <<"op", "judge">>, <<"op", "final">>, <<"reconnect", "rejudge">>}
    \/ /\ Len(stack) > 1 /\ stack[Len(stack)] \in {"judge", "final"}
       /\ stack' = <<stack[Len(stack)]>>
    \/ (\E h \in Inner : At(h)) /\ stack' = Tail(stack)
    \/ (\E h \in OpFrames : At(h)) /\ Calls(OpFrames)
    \/ (\E h \in Inner \ OpFrames : At(h)) /\ Calls(Attaching)
    \/ ~external /\ (\E h \in Inner \ OpFrames : At(h)) /\ Calls(Inner)

\* A frame that is not at the bottom is replaced.
LEMMA Replaced ==
    ASSUME StackInv, NEW h \in Inner, At(h),
           NEW frames \in Seq(Inner), stack' = frames \o Tail(stack)
    PROVE  /\ stack # <<>> /\ stack[1] = h /\ Len(stack) \in Nat /\ Len(stack) > 1 /\ Len(frames) \in Nat
           /\ stack' \in Seq(Frames) /\ Len(stack') = Len(frames) + Len(stack) - 1
           /\ \A i \in 1 .. Len(frames) : stack'[i] = frames[i] /\ frames[i] \in Inner
           /\ \A i \in Len(frames) + 1 .. Len(frames) + Len(stack) - 1 :
                 stack'[i] = stack[i - Len(frames) + 1]
<1>. DEFINE n == Len(frames)  m == Len(stack)
<1>1. /\ stack # <<>> /\ stack[1] = h /\ m \in Nat /\ m > 1 /\ n \in Nat
      /\ Tail(stack) \in Seq(Frames) /\ Len(Tail(stack)) = m - 1
      /\ \A i \in 1 .. m - 1 : Tail(stack)[i] = stack[i + 1]
  <2>1. stack # <<>> /\ stack \in Seq(Frames) /\ stack[1] = h /\ h \notin Bottoms
    BY DEF StackInv, At, Inner
  <2>2. m \in Nat /\ m > 0
    BY <2>1
  <2>3. m # 1
    BY <2>1, <2>2 DEF StackInv
  <2>4. /\ Tail(stack) \in Seq(Frames) /\ Len(Tail(stack)) = m - 1
        /\ \A i \in 1 .. m - 1 : Tail(stack)[i] = stack[i + 1]
    BY <2>1, HeadTailProperties
  <2>5. n \in Nat
    OBVIOUS
  <2>. QED
    BY <2>1, <2>2, <2>3, <2>4, <2>5
<1>2. /\ stack' \in Seq(Frames) /\ Len(stack') = n + m - 1
      /\ \A i \in 1 .. n : stack'[i] = frames[i] /\ frames[i] \in Inner
      /\ \A i \in n + 1 .. n + m - 1 : stack'[i] = stack[i - n + 1]
  <2>1. frames \in Seq(Frames)
    BY DEF Inner
  <2>. QED
    BY <1>1, <2>1
<1>. QED
  BY <1>1, <1>2

\* By frames of its kind.
LEMMA ReplaceKeepsStack ==
    ASSUME StackInv, external' = external, NEW h \in Inner, At(h),
           NEW S \in SUBSET Inner, h \in OpFrames => S \subseteq OpFrames, external => S \cap LaunchFrames = {},
           NEW frames \in Seq(S), stack' = frames \o Tail(stack)
    PROVE  StackInv'
<1>. DEFINE n == Len(frames)  m == Len(stack)
<1>0. frames \in Seq(Inner) /\ \A i \in 1 .. n : frames[i] \in S
  OBVIOUS
<1>1. stack # <<>> /\ stack[1] = h /\ m \in Nat /\ m > 1 /\ n \in Nat
  BY <1>0, Replaced
<1>2. /\ stack' \in Seq(Frames) /\ Len(stack') = n + m - 1
      /\ \A i \in 1 .. n : stack'[i] = frames[i] /\ frames[i] \in S
      /\ \A i \in n + 1 .. n + m - 1 : stack'[i] = stack[i - n + 1]
  BY <1>0, Replaced
<1>3. stack'[Len(stack')] = stack[m]
  BY <1>1, <1>2
<1>4. \A i \in 1 .. Len(stack') : stack'[i] \in Bottoms <=> i = Len(stack')
  <2>. TAKE i \in 1 .. Len(stack')
  <2>1. CASE i \in 1 .. n
    BY <2>1, <1>1, <1>2 DEF Inner
  <2>2. CASE i \in n + 1 .. n + m - 1
    <3>1. i - n + 1 \in 1 .. m
      BY <2>2, <1>1
    <3>2. stack[i - n + 1] \in Bottoms <=> i - n + 1 = m
      BY <3>1 DEF StackInv
    <3>3. i - n + 1 = m <=> i = n + m - 1
      BY <1>1, <2>2
    <3>. QED
      BY <2>2, <3>2, <3>3, <1>2
  <2>. QED
    BY <2>1, <2>2, <1>1, <1>2
<1>5. \A i \in 1 .. Len(stack') :
         stack'[Len(stack')] \in {"judge", "final"} /\ i < Len(stack') => stack'[i] \in OpFrames
  <2>. SUFFICES ASSUME NEW i \in 1 .. Len(stack'), stack[m] \in {"judge", "final"}, i < Len(stack')
                PROVE  stack'[i] \in OpFrames
    BY <1>3
  <2>1. \A j \in 1 .. m : j < m => stack[j] \in OpFrames
    BY DEF StackInv
  <2>2. h \in OpFrames
    BY <2>1, <1>1
  <2>3. CASE i \in 1 .. n
    BY <2>2, <2>3, <1>2
  <2>4. CASE i \in n + 1 .. n + m - 1
    <3>1. i - n + 1 \in 1 .. m /\ i - n + 1 < m
      BY <2>4, <1>1, <1>2
    <3>. QED
      BY <2>1, <2>4, <3>1, <1>2
  <2>. QED
    BY <2>3, <2>4, <1>1, <1>2
<1>6. \A i \in 1 .. Len(stack') : external' => stack'[i] \notin LaunchFrames
  <2>. SUFFICES ASSUME NEW i \in 1 .. Len(stack'), external PROVE stack'[i] \notin LaunchFrames
    OBVIOUS
  <2>1. CASE i \in 1 .. n
    BY <2>1, <1>2
  <2>2. CASE i \in n + 1 .. n + m - 1
    <3>1. i - n + 1 \in 1 .. m
      BY <2>2, <1>1
    <3>. QED
      BY <2>2, <3>1, <1>2 DEF StackInv
  <2>. QED
    BY <2>1, <2>2, <1>1, <1>2
<1>. QED
  BY <1>2, <1>4, <1>5, <1>6 DEF StackInv

LEMMA MovesKeepStack == ASSUME StackInv, external' = external, StackMoves PROVE StackInv'
<1>1. CASE UNCHANGED stack
  BY <1>1 DEF StackInv
<1>2. CASE stack' = <<>>
  BY <1>2 DEF StackInv
<1>3. CASE stack' \in {<<"launch", "begin">>, <<"op", "judge">>, <<"op", "final">>, <<"reconnect", "rejudge">>}
  <2>1. PICK h \in {"launch", "op", "reconnect"}, b \in Bottoms :
           stack' = <<h, b>> /\ (b \in {"judge", "final"} => h = "op")
    BY <1>3 DEF Bottoms
  <2>2. /\ Len(stack') = 2 /\ stack'[1] = h /\ stack'[2] = b
        /\ h \in Frames \ Bottoms /\ b \in Frames
        /\ h \notin LaunchFrames /\ b \notin LaunchFrames /\ "op" \in OpFrames
    BY <2>1 DEF Frames, Bottoms, OpFrames, LaunchFrames
  <2>3. stack' \in Seq(Frames)
    BY <2>1, <2>2
  <2>4. \A i \in 1 .. Len(stack') : i \in {1, 2}
    BY <2>2
  <2>. QED
    BY <2>1, <2>2, <2>3, <2>4 DEF StackInv
<1>4. CASE /\ Len(stack) > 1 /\ stack[Len(stack)] \in {"judge", "final"}
           /\ stack' = <<stack[Len(stack)]>>
  BY <1>4 DEF StackInv, Frames, Bottoms, OpFrames, LaunchFrames
<1>5. CASE (\E h \in Inner : At(h)) /\ stack' = Tail(stack)
  <2>1. PICK h \in Inner : At(h)
    BY <1>5
  <2>2. <<>> \in Seq({}) /\ Tail(stack) = <<>> \o Tail(stack)
    BY DEF StackInv, At
  <2>. QED
    BY <1>5, <2>1, <2>2, ReplaceKeepsStack
<1>6. CASE (\E h \in OpFrames : At(h)) /\ Calls(OpFrames)
  <2>1. OpFrames \subseteq Inner /\ OpFrames \cap LaunchFrames = {}
    BY DEF OpFrames, Inner, LaunchFrames, Frames, Bottoms
  <2>. QED
    BY <1>6, <2>1, ReplaceKeepsStack DEF Calls
<1>7. CASE (\E h \in Inner \ OpFrames : At(h)) /\ Calls(Attaching)
  <2>1. Attaching \subseteq Inner /\ Attaching \cap LaunchFrames = {}
    BY DEF Attaching
  <2>. QED
    BY <1>7, <2>1, ReplaceKeepsStack DEF Calls
<1>8. CASE ~external /\ (\E h \in Inner \ OpFrames : At(h)) /\ Calls(Inner)
  BY <1>8, ReplaceKeepsStack DEF Calls
<1>. QED
  BY <1>1, <1>2, <1>3, <1>4, <1>5, <1>6, <1>7, <1>8 DEF StackMoves

\* What a step calls, of whatever kind.
LEMMA CallsOf ==
    ASSUME NEW S
    PROVE  /\ \A f \in S : Call(<<f>>) => Calls(S)
           /\ \A f, g \in S : Call(<<f, g>>) => Calls(S)
<1>1. ASSUME NEW f \in S, Call(<<f>>) PROVE Calls(S)
  <2>. DEFINE frames == <<f>>
  <2>1. frames \in Seq(S) /\ Len(frames) \in 1 .. 2 /\ stack' = frames \o Tail(stack)
    BY <1>1 DEF Call
  <2>. HIDE DEF frames
  <2>. QED
    BY <2>1 DEF Calls
<1>2. ASSUME NEW f \in S, NEW g \in S, Call(<<f, g>>) PROVE Calls(S)
  <2>. DEFINE frames == <<f, g>>
  <2>1. frames \in Seq(S) /\ Len(frames) \in 1 .. 2 /\ stack' = frames \o Tail(stack)
    BY <1>2 DEF Call
  <2>. HIDE DEF frames
  <2>. QED
    BY <2>1 DEF Calls
<1>. QED
  BY <1>1, <1>2

LEMMA CallsOp ==
    /\ \A f \in OpFrames : Call(<<f>>) => Calls(OpFrames)
    /\ \A f, g \in OpFrames : Call(<<f, g>>) => Calls(OpFrames)
BY CallsOf

LEMMA CallsAttaching ==
    /\ \A f \in Attaching : Call(<<f>>) => Calls(Attaching)
    /\ \A f, g \in Attaching : Call(<<f, g>>) => Calls(Attaching)
BY CallsOf

LEMMA CallsInner ==
    /\ \A f \in Inner : Call(<<f>>) => Calls(Inner)
    /\ \A f, g \in Inner : Call(<<f, g>>) => Calls(Inner)
BY CallsOf

\* In a launch of our own there is no external endpoint.
LEMMA OwnLaunch == ASSUME StackInv, NEW h \in LaunchFrames, At(h) PROVE ~external
<1>1. stack # <<>> /\ stack \in Seq(Frames) /\ stack[1] = h /\ 1 \in 1 .. Len(stack)
  BY DEF StackInv, At
<1>. QED
  BY <1>1 DEF StackInv

LEMMA ClientMovesStack == ASSUME StackInv, ClientStep PROVE StackMoves
<1>0. /\ OpFrames \subseteq Inner
      /\ LaunchFrames \subseteq Inner \ OpFrames
      /\ {"launch", "reattached", "endpoint", "heal", "reconnect"} \subseteq Inner \ OpFrames
      /\ {"launch", "reattached", "endpoint", "heal", "adopt", "page"} \subseteq Attaching
  BY DEF OpFrames, Inner, LaunchFrames, Frames, Bottoms, Attaching
<1>. USE DEF StackMoves
<1>1. CASE Adopt \/ Opened \/ RefuseCreate \/ CreateFails
  <2>1. stack' = Tail(stack)
    BY <1>1 DEF Adopt, Opened, RefuseCreate, CreateFails, Return
  <2>2. At("adopt") \/ At("opened") \/ At("create") \/ At("created")
    BY <1>1 DEF Adopt, Opened, RefuseCreate, CreateFails
  <2>. QED
    BY <1>0, <2>1, <2>2 DEF OpFrames
<1>2. CASE GetOrCreate \/ CreateIfAbsent \/ SendCreate \/ Created
  <2>1. stack' = Tail(stack) \/ Calls(OpFrames)
    BY <1>2, CallsOp DEF GetOrCreate, CreateIfAbsent, SendCreate, Created, Return, OpFrames
  <2>2. At("page") \/ At("absent") \/ At("create") \/ At("created")
    BY <1>2 DEF GetOrCreate, CreateIfAbsent, SendCreate, Created
  <2>. QED
    BY <1>0, <2>1, <2>2 DEF OpFrames
<1>3. CASE Close \/ Closed
  <2>1. stack' = Tail(stack) \/ Calls(OpFrames)
    BY <1>3, CallsOp DEF Close, Closed, Return, OpFrames
  <2>2. At("close") \/ At("closed")
    BY <1>3 DEF Close, Closed
  <2>. QED
    BY <1>0, <2>1, <2>2 DEF OpFrames
<1>4. CASE Launch
  <2>1. At("launch") /\ ~external /\ (stack' = Tail(stack) \/ Calls(Inner))
    BY <1>0, <1>4, CallsInner DEF Launch, Return, LaunchFrames
  <2>. QED
    BY <1>0, <2>1
<1>5. CASE LaunchExternal \/ AttachExternal \/ Heal
  <2>1. stack' = Tail(stack) \/ Calls(Attaching)
    BY <1>0, <1>5, CallsAttaching DEF LaunchExternal, AttachExternal, Heal, Return
  <2>2. At("launch") \/ At("endpoint") \/ At("heal")
    BY <1>5 DEF LaunchExternal, AttachExternal, Heal
  <2>. QED
    BY <1>0, <2>1, <2>2
<1>6. CASE Attach \/ Attached \/ Kill \/ Singleton \/ Refuse \/ Spawn \/ Started \/ StartFails
  <2>1. stack' = Tail(stack) \/ Calls(Inner)
    <3>1. CASE Attach \/ Kill \/ Singleton \/ Refuse
      BY <1>0, <3>1, CallsInner DEF Attach, Kill, Singleton, Refuse, Return, LaunchFrames, Attaching
    <3>2. CASE Spawn \/ Started \/ StartFails
      BY <1>0, <3>2, CallsInner DEF Spawn, Started, StartFails, Return, LaunchFrames, Attaching
    <3>3. CASE Attached
      <4>1. "close" \in Inner /\ "kill" \in Inner /\ "singleton" \in Inner
        BY <1>0 DEF OpFrames, LaunchFrames
      <4>. QED
        BY <3>3, <4>1, CallsInner DEF Attached, Return
    <3>. QED
      BY <1>6, <3>1, <3>2, <3>3
  <2>2. PICK h \in LaunchFrames : At(h)
    BY <1>6 DEF Attach, Attached, Kill, Singleton, Refuse, Spawn, Started, StartFails, LaunchFrames
  <2>. QED
    BY <1>0, <2>1, <2>2, OwnLaunch
<1>7. CASE Reconnect
  <2>1. At("reconnect") /\ (Calls(Attaching) \/ (~external /\ Calls(Inner)))
    BY <1>0, <1>7, CallsAttaching, CallsInner DEF Reconnect, LaunchFrames
  <2>. QED
    BY <1>0, <2>1
<1>8. CASE Reattached
  <2>1. At("reattached") /\ (stack' = Tail(stack) \/ Calls(Attaching))
    BY <1>0, <1>8, CallsAttaching DEF Reattached, Return
  <2>. QED
    BY <1>0, <2>1
<1>. QED
  BY <1>1, <1>2, <1>3, <1>4, <1>5, <1>6, <1>7, <1>8 DEF ClientStep

LEMMA OperationMovesStack == ASSUME Operation PROVE StackMoves /\ ~At("starting")
<1>0. OpFrames \subseteq Inner /\ "starting" \notin OpFrames
  BY DEF OpFrames, Inner, Frames, Bottoms
<1>. SUFFICES \E h \in OpFrames : At(h) /\ (stack' = Tail(stack) \/ Calls(OpFrames))
  <2>1. PICK h \in OpFrames : At(h) /\ (stack' = Tail(stack) \/ Calls(OpFrames))
    OBVIOUS
  <2>2. ~At("starting") /\ h \in Inner
    BY <1>0, <2>1 DEF At
  <2>. QED
    BY <2>1, <2>2 DEF StackMoves
<1>. USE DEF OpFrames
<1>1. CASE \/ Extract \/ CookiesGet \/ Screenshot \/ ListDownloads \/ ListTabs
           \/ Evaluate \/ Scroll \/ CookiesSet \/ DragFiles \/ Upload \/ ImportCookies \/ WaitFor
  <2>1. stack' = Tail(stack)
    BY <1>1 DEF Extract, CookiesGet, Screenshot, ListDownloads, ListTabs, Evaluate, Scroll, CookiesSet,
       DragFiles, Upload, ImportCookies, WaitFor, Command, Return
  <2>2. At("op")
    BY <1>1 DEF Extract, CookiesGet, Screenshot, ListDownloads, ListTabs, Evaluate, Scroll, CookiesSet,
       DragFiles, Upload, ImportCookies, WaitFor, Reads, Writes, Running
  <2>. QED
    BY <2>1, <2>2
<1>2. CASE \/ SnapshotTool \/ Look \/ NoPageToNavigate \/ Rejected \/ NeverUsable
           \/ NoElement \/ Act \/ InsertText \/ Watch \/ SwitchTab \/ NoTabToSwitchTo \/ Release
  <2>1. stack' = Tail(stack)
    BY <1>2 DEF SnapshotTool, Look, NoPageToNavigate, Rejected, NeverUsable, NoElement, Act, InsertText,
       Watch, SwitchTab, NoTabToSwitchTo, Release, Return
  <2>2. \E h \in OpFrames : At(h)
    BY <1>2 DEF SnapshotTool, Look, NoPageToNavigate, Rejected, NeverUsable, NoElement, Act, InsertText,
       Watch, SwitchTab, NoTabToSwitchTo, Release, Running
  <2>. QED
    BY <2>1, <2>2
<1>3. CASE \/ Navigate \/ Arrives \/ SlowToLoad \/ Arm \/ Unverified \/ ClearField \/ ElementCenter
  <2>1. stack' = Tail(stack) \/ Calls(OpFrames)
    BY <1>3, CallsOp DEF Navigate, Arrives, SlowToLoad, Arm, Unverified, ClearField, ElementCenter, Return
  <2>2. \E h \in OpFrames : At(h)
    BY <1>3 DEF Navigate, Arrives, SlowToLoad, Arm, Unverified, ClearField, ElementCenter, Running
  <2>. QED
    BY <2>1, <2>2
<1>4. CASE \/ Effect \/ Shown \/ PressKey \/ Down \/ InjectHelpers \/ Script \/ History \/ NewTab \/ CloseTool
  <2>1. stack' = Tail(stack) \/ Calls(OpFrames)
    BY <1>4, CallsOp DEF Effect, Shown, PressKey, Down, InjectHelpers, Script, History, NewTab,
       CloseTool, Return
  <2>2. \E h \in OpFrames : At(h)
    BY <1>4 DEF Effect, Shown, PressKey, Down, InjectHelpers, Script, History, NewTab, CloseTool, Running
  <2>. QED
    BY <2>1, <2>2
<1>. QED
  BY <1>1, <1>2, <1>3, <1>4 DEF Operation

\* A frame of the executor is the only one.
LEMMA AtBottom == ASSUME StackInv, NEW b \in Bottoms, At(b) PROVE Tail(stack) = <<>>
<1>1. stack \in Seq(Frames) /\ stack # <<>> /\ stack[1] = b
  BY DEF StackInv, At
<1>2. 1 \in 1 .. Len(stack)
  BY <1>1
<1>3. Len(stack) = 1
  BY <1>1, <1>2 DEF StackInv
<1>4. Tail(stack) \in Seq(Frames) /\ Len(Tail(stack)) = 0
  BY <1>1, <1>3, HeadTailProperties
<1>. QED
  BY <1>4, EmptySeq

LEMMA ExecutorMovesStack == ASSUME StackInv, Executor PROVE StackMoves /\ ~At("starting")
<1>. USE DEF StackMoves
<1>1. CASE RefuseArguments
  BY <1>1 DEF RefuseArguments, Return, At, Inner, Frames, Bottoms
<1>2. CASE NoBrowser \/ Settled \/ StillAlive \/ GiveUp \/ Final
  BY <1>2 DEF NoBrowser, Settled, StillAlive, GiveUp, Final, Answers, At
<1>3. CASE ConnectionLost \/ Repeat \/ \E t \in Tools : RunTool(t)
  <2>1. \E b \in Bottoms : At(b) /\ ~At("starting")
    BY <1>3 DEF ConnectionLost, Repeat, RunTool, At, Bottoms
  <2>2. Tail(stack) = <<>>
    BY <2>1, AtBottom
  <2>3. \A s \in Seq(Frames) : s \o <<>> = s
    OBVIOUS
  <2>4. stack' \in {<<"op", "judge">>, <<"op", "final">>, <<"reconnect", "rejudge">>}
    <3>1. {<<"op", "judge">>, <<"op", "final">>, <<"reconnect", "rejudge">>} \subseteq Seq(Frames)
      BY DEF Frames
    <3>. QED
      BY <1>3, <2>2, <2>3, <3>1 DEF ConnectionLost, Repeat, RunTool, RepeatOnce, Call
  <2>. QED
    BY <2>1, <2>4
<1>. QED
  BY <1>1, <1>2, <1>3 DEF Executor

LEMMA StepMovesStack == ASSUME StackInv, [BrowserNext]_browserVars PROVE StackMoves
<1>1. CASE ClientStep
  BY <1>1, ClientMovesStack
<1>2. CASE Operation
  BY <1>2, OperationMovesStack
<1>3. CASE Executor
  BY <1>3, ExecutorMovesStack
<1>4. CASE CallBegins \/ AttemptTimesOut \/ CallTimesOut \/ Shutdown \/ ArrivesLate
  BY <1>4 DEF CallBegins, AttemptTimesOut, CallTimesOut, Shutdown, ArrivesLate, Answers, StackMoves
<1>5. CASE Environment
  BY <1>5 DEF Environment, LinkBreaks, ChromeDies, ChromeGoesDeaf, TabCloses, OtherStarts, Undisturbed, StackMoves
<1>6. CASE UNCHANGED browserVars
  BY <1>6 DEF browserVars, StackMoves
<1>. QED
  BY <1>1, <1>2, <1>3, <1>4, <1>5, <1>6 DEF BrowserNext, CallStep

\* What a step may do to the processes and their handles.
Alive == \A c \in owned : status[c] # "off"
ProcessMoves ==
    \/ UNCHANGED <<owned, status, child, spawned>> /\ (UNCHANGED stack \/ ~At("starting"))
    \/ UNCHANGED <<owned, child, spawned, stack>> /\ status' \in [Chrome -> {"off", "up", "deaf"}]
       /\ \A c \in Chrome : status[c] # "off" => status'[c] # "off"
    \/ \E dead : Ends(dead) /\ UNCHANGED <<child, spawned>> /\ (UNCHANGED stack \/ ~At("starting"))
    \/ \E dead : Ends(dead) /\ {child} \ {None} \subseteq dead
                 /\ child' = None /\ spawned' = spawned /\ ~At("starting")
    \/ \E dead : Ends(dead) /\ {spawned} \ {None} \subseteq dead /\ child' = child /\ spawned' = None
    \/ Ends({child} \ {None}) /\ child' = spawned /\ spawned' = None /\ ~external
    \/ UNCHANGED <<owned, status, spawned>> /\ child' = None /\ (external \/ ~ChildAlive) /\ ~At("starting")
    \/ \E c \in Chrome : At("singleton") /\ At("starting")' /\ child' = child /\ spawned' = c
                         /\ status' = [status EXCEPT ![c] = "up"] /\ owned' = owned \cup {c}

LEMMA ClientMovesProcesses == ASSUME StackInv, ClientStep PROVE ProcessMoves /\ UNCHANGED external
<1>. USE DEF ProcessMoves, clientVars, chromeVars
<1>1. CASE \/ Adopt \/ GetOrCreate \/ CreateIfAbsent \/ RefuseCreate \/ SendCreate \/ Created
           \/ CreateFails \/ Opened
  BY <1>1 DEF Adopt, GetOrCreate, CreateIfAbsent, RefuseCreate, SendCreate, Created, CreateFails, Opened, At
<1>2. CASE Launch \/ LaunchExternal \/ Heal \/ Attach \/ Attached \/ Singleton \/ Refuse \/ Reattached
  BY <1>2 DEF Launch, LaunchExternal, Heal, Attach, Attached, Singleton, Refuse, Reattached, At
<1>3. CASE AttachExternal \/ Close \/ Kill
  BY <1>3 DEF AttachExternal, Close, Kill, At
<1>4. CASE Closed
  BY <1>4 DEF Closed, Forget, At
<1>5. CASE Spawn
  <2>1. stack' = <<"starting">> \o Tail(stack) /\ Tail(stack) \in Seq(Frames)
    BY <1>5, HeadTailProperties DEF Spawn, Call, StackInv, At
  <2>2. <<"starting">> \in Seq(Frames)
    BY DEF Frames
  <2>3. Head(stack') = "starting" /\ stack' # <<>>
    BY <2>1, <2>2
  <2>. QED
    BY <1>5, <2>3 DEF Spawn, Startable, At
<1>6. CASE Started
  <2>1. ~external
    BY <1>6, OwnLaunch DEF Started, LaunchFrames
  <2>. QED
    BY <1>6, <2>1 DEF Started, DroppedChild
<1>7. CASE StartFails
  BY <1>7 DEF StartFails
<1>8. CASE Reconnect
  BY <1>8 DEF Reconnect, At
<1>. QED
  BY <1>1, <1>2, <1>3, <1>4, <1>5, <1>6, <1>7, <1>8 DEF ClientStep

LEMMA OperationKeepsProcesses == ASSUME Operation PROVE UNCHANGED <<chromeVars, child, spawned>>
<1>. USE DEF clientVars, ClientIdle, PageOnly
<1>1. CASE SnapshotTool \/ Look \/ Navigate \/ SwitchTab
  BY <1>1 DEF SnapshotTool, Look, Navigate, SwitchTab
<1>2. CASE \/ Extract \/ CookiesGet \/ Screenshot \/ ListDownloads \/ ListTabs
           \/ Evaluate \/ Scroll \/ CookiesSet \/ DragFiles \/ Upload \/ ImportCookies \/ WaitFor
  BY <1>2 DEF Extract, CookiesGet, Screenshot, ListDownloads, ListTabs, Evaluate, Scroll, CookiesSet,
     DragFiles, Upload, ImportCookies, WaitFor, Reads, Writes
<1>3. CASE \/ NoPageToNavigate \/ Arrives \/ Rejected \/ SlowToLoad \/ NeverUsable
           \/ Arm \/ Unverified \/ NoElement \/ Act \/ ClearField \/ InsertText \/ ElementCenter
  BY <1>3 DEF NoPageToNavigate, Arrives, Rejected, SlowToLoad, NeverUsable, Arm, Unverified,
     NoElement, Act, ClearField, InsertText, ElementCenter
<1>4. CASE \/ Effect \/ Shown \/ PressKey \/ Down \/ Release \/ InjectHelpers \/ Script
           \/ History \/ Watch \/ NewTab \/ NoTabToSwitchTo \/ CloseTool
  BY <1>4 DEF Effect, Shown, PressKey, Down, Release, InjectHelpers, Script, History, Watch,
     NewTab, NoTabToSwitchTo, CloseTool
<1>. QED
  BY <1>1, <1>2, <1>3, <1>4 DEF Operation

LEMMA ExecutorKeepsProcesses == ASSUME Executor PROVE UNCHANGED <<chromeVars, child, spawned>>
BY DEF Executor, NoBrowser, RefuseArguments, Settled, StillAlive, ConnectionLost, Repeat, GiveUp, Final,
   RunTool, clientVars, ClientIdle

\* The launch under way is never in an attempt that is dropped alone.
LEMMA AttemptLaunchesNothing == ASSUME StackInv, AttemptTimesOut PROVE ~At("starting")
<1>1. SUFFICES ASSUME At("starting") PROVE FALSE
  OBVIOUS
<1>2. /\ stack \in Seq(Frames) /\ Len(stack) > 1 /\ stack[1] = "starting"
      /\ stack[Len(stack)] \in {"judge", "final"}
  BY <1>1 DEF StackInv, At, AttemptTimesOut
<1>3. 1 \in 1 .. Len(stack) /\ 1 < Len(stack)
  BY <1>2
<1>4. stack[1] \in OpFrames
  BY <1>2, <1>3 DEF StackInv
<1>. QED
  BY <1>2, <1>4 DEF OpFrames

LEMMA StepKeepsExternal == ASSUME StackInv, [BrowserNext]_browserVars PROVE UNCHANGED external
<1>. USE DEF chromeVars
<1>1. CASE ClientStep
  BY <1>1, ClientMovesProcesses
<1>2. CASE Operation \/ Executor
  BY <1>2, OperationKeepsProcesses, ExecutorKeepsProcesses
<1>3. CASE CallBegins \/ AttemptTimesOut \/ CallTimesOut \/ Shutdown \/ ArrivesLate
  BY <1>3 DEF CallBegins, AttemptTimesOut, CallTimesOut, Shutdown, ArrivesLate, ClientIdle
<1>4. CASE Environment
  BY <1>4 DEF Environment, LinkBreaks, ChromeDies, ChromeGoesDeaf, TabCloses, OtherStarts, Undisturbed
<1>5. CASE UNCHANGED browserVars
  BY <1>5 DEF browserVars
<1>. QED
  BY <1>1, <1>2, <1>3, <1>4, <1>5 DEF BrowserNext, CallStep

LEMMA StepMovesProcesses ==
    ASSUME StackInv, status \in [Chrome -> {"off", "up", "deaf"}], [BrowserNext]_browserVars
    PROVE  ProcessMoves
<1>. USE DEF ProcessMoves, clientVars, chromeVars
<1>1. CASE ClientStep
  BY <1>1, ClientMovesProcesses
<1>2. CASE Operation
  BY <1>2, OperationMovesStack, OperationKeepsProcesses
<1>3. CASE Executor
  BY <1>3, ExecutorMovesStack, ExecutorKeepsProcesses
<1>4. CASE CallBegins \/ ArrivesLate
  BY <1>4 DEF CallBegins, ArrivesLate, ClientIdle, At
<1>5. CASE AttemptTimesOut
  BY <1>5, AttemptLaunchesNothing DEF AttemptTimesOut, ClientIdle
<1>6. CASE CallTimesOut
  BY <1>6 DEF CallTimesOut
<1>7. CASE Shutdown
  BY <1>7 DEF Shutdown, Forget, At
<1>8. CASE Environment
  BY <1>8 DEF Environment, LinkBreaks, ChromeDies, ChromeGoesDeaf, TabCloses, OtherStarts, Undisturbed
<1>9. CASE UNCHANGED browserVars
  BY <1>9 DEF browserVars
<1>. QED
  BY <1>1, <1>2, <1>3, <1>4, <1>5, <1>6, <1>7, <1>8, <1>9 DEF BrowserNext, CallStep

\* A launched browser lives as long as its handle, and one that is starting is
\* in the hands of the launch on top of the stack.
StrayInv ==
    /\ StackInv
    /\ status \in [Chrome -> {"off", "up", "deaf"}] /\ owned \subseteq Chrome
    /\ Alive
    /\ spawned # None => At("starting")
    /\ external => child = None
    /\ NoStrayChrome

LEMMA StrayInvInductive == ASSUME StrayInv, [BrowserNext]_browserVars PROVE StrayInv'
<1>1. StackMoves /\ ProcessMoves /\ external' = external
  BY StepMovesStack, StepMovesProcesses, StepKeepsExternal DEF StrayInv
<1>2. StackInv'
  BY <1>1, MovesKeepStack DEF StrayInv
<1>3. external => ~At("starting") /\ ~At("singleton")
  BY OwnLaunch DEF StrayInv, LaunchFrames
<1>. USE DEF StrayInv, Alive, NoStrayChrome
<1>4. CASE UNCHANGED <<owned, status, child, spawned>> /\ (UNCHANGED stack \/ ~At("starting"))
  BY <1>1, <1>2, <1>4 DEF At
<1>5. CASE /\ UNCHANGED <<owned, child, spawned, stack>> /\ status' \in [Chrome -> {"off", "up", "deaf"}]
           /\ \A c \in Chrome : status[c] # "off" => status'[c] # "off"
  BY <1>1, <1>2, <1>5 DEF At
<1>6. CASE \E dead : Ends(dead) /\ UNCHANGED <<child, spawned>> /\ (UNCHANGED stack \/ ~At("starting"))
  BY <1>1, <1>2, <1>6 DEF At, Ends
<1>7. CASE \E dead : Ends(dead) /\ {child} \ {None} \subseteq dead
                     /\ child' = None /\ spawned' = spawned /\ ~At("starting")
  BY <1>1, <1>2, <1>7 DEF Ends
<1>8. CASE \E dead : Ends(dead) /\ {spawned} \ {None} \subseteq dead /\ child' = child /\ spawned' = None
  BY <1>1, <1>2, <1>8 DEF Ends
<1>9. CASE Ends({child} \ {None}) /\ child' = spawned /\ spawned' = None /\ ~external
  BY <1>1, <1>2, <1>9 DEF Ends
<1>10. CASE UNCHANGED <<owned, status, spawned>> /\ child' = None /\ (external \/ ~ChildAlive) /\ ~At("starting")
  BY <1>1, <1>2, <1>10 DEF ChildAlive
<1>11. CASE \E c \in Chrome : At("singleton") /\ At("starting")' /\ child' = child /\ spawned' = c
                              /\ status' = [status EXCEPT ![c] = "up"] /\ owned' = owned \cup {c}
  <2>1. ~external /\ ~At("starting")
    BY <1>3, <1>11 DEF At
  <2>. QED
    BY <1>1, <1>2, <1>11, <2>1, NoneAssumption
<1>. QED
  BY <1>1, <1>4, <1>5, <1>6, <1>7, <1>8, <1>9, <1>10, <1>11 DEF ProcessMoves

LEMMA StrayInvAlways == BrowserSpec => []StrayInv
<1>1. BrowserInit => StrayInv
  BY NoneAssumption DEF BrowserInit, StrayInv, Alive, NoStrayChrome, StackInv
<1>2. StrayInv /\ [BrowserNext]_browserVars => StrayInv'
  BY StrayInvInductive
<1>. QED
  BY <1>1, <1>2, PTL DEF BrowserSpec

\* Every live browser the client launched is held by a handle that ends it
\* (NoStrayChrome), wherever a call is dropped.
THEOREM HeldOrEnded == BrowserSpec => []NoStrayChrome
<1>1. StrayInv => NoStrayChrome
  BY DEF StrayInv
<1>. QED
  BY <1>1, StrayInvAlways, PTL

LEMMA NobodyEnds == ASSUME status \in [Chrome -> {"off", "up", "deaf"}], Ends({}) PROVE UNCHANGED <<status, owned>>
BY DEF Ends

\* With an external endpoint nothing the client does launches a browser or ends
\* one (ExternalIsTheUsers): the user's browser is the user's.
THEOREM UsersBrowser == BrowserSpec => ExternalIsTheUsers
<1>1. ASSUME StrayInv, external, CallStep \/ CallTimesOut \/ Shutdown
      PROVE  owned' = {} /\ UNCHANGED status
  <2>1. /\ child = None /\ spawned = None /\ owned = {}
        /\ \A h \in LaunchFrames : ~At(h)
        /\ status \in [Chrome -> {"off", "up", "deaf"}]
    BY <1>1, OwnLaunch DEF StrayInv, NoStrayChrome, LaunchFrames
  <2>2. {child} \ {None} = {} /\ {spawned} \ {None} = {} /\ ~SendsClose
    BY <2>1 DEF SendsClose
  <2>. SUFFICES UNCHANGED <<status, owned>> \/ Ends({})
    BY <2>1, NobodyEnds
  <2>3. CASE CallTimesOut \/ Shutdown
    BY <2>2, <2>3 DEF CallTimesOut, Shutdown
  <2>4. CASE Executor \/ Operation
    BY <2>4, ExecutorKeepsProcesses, OperationKeepsProcesses DEF chromeVars
  <2>5. CASE ClientStep
    <3>. USE DEF chromeVars
    <3>1. CASE \/ Adopt \/ GetOrCreate \/ CreateIfAbsent \/ RefuseCreate \/ SendCreate \/ Created
               \/ CreateFails \/ Opened
      BY <3>1 DEF Adopt, GetOrCreate, CreateIfAbsent, RefuseCreate, SendCreate, Created, CreateFails, Opened
    <3>2. CASE Launch \/ LaunchExternal \/ Heal \/ Reconnect \/ Reattached
      BY <3>2 DEF Launch, LaunchExternal, Heal, Reconnect, Reattached
    <3>3. CASE AttachExternal \/ Close \/ Closed
      BY <2>2, <3>3 DEF AttachExternal, Close, Closed
    <3>4. CASE Attach \/ Attached \/ Kill \/ Singleton \/ Refuse \/ Spawn \/ Started \/ StartFails
      BY <2>1, <3>4 DEF Attach, Attached, Kill, Singleton, Refuse, Spawn, Started, StartFails, LaunchFrames
    <3>. QED
      BY <2>5, <3>1, <3>2, <3>3, <3>4 DEF ClientStep
  <2>. QED
    BY <1>1, <2>3, <2>4, <2>5 DEF CallStep
<1>2. StrayInv => [external /\ (CallStep \/ CallTimesOut \/ Shutdown) =>
                     owned' = {} /\ UNCHANGED status]_browserVars
  BY <1>1
<1>. QED
  BY <1>2, StrayInvAlways, PTL DEF BrowserSpec, ExternalIsTheUsers

-----------------------------------------------------------------------------
(* The refinement of OnceCall: a write is sent once at most, a read twice. *)

\* The frames that may still send the operation of a call; those that look at the
\* result of the one above; those that do neither.
SendFrames == {"op", "act", "goto", "down", "script"}
Judges == {"judge", "final", "effect", "shown"}
Plainly == Inner \ (SendFrames \cup {"effect", "shown"})

Bottom == stack[Len(stack)]
Budget == IF Bottom = "final" THEN 2 ELSE 1

\* One frame at most may send; what is below it, or judges, judges.
SendOnce ==
    /\ \A i \in 1 .. Len(stack) : stack[i] \in SendFrames =>
          /\ Bottom \in {"judge", "final"} /\ sends < Budget
          /\ \A j \in 1 .. Len(stack) : stack[j] \in SendFrames => j = i
    /\ \A i \in 1 .. Len(stack) - 1 :
          stack[i] \in SendFrames \cup {"effect", "shown"} => stack[i + 1] \in Judges

\* When none is left the operation has been sent, or it is known to have failed.
Unsent == \A i \in 1 .. Len(stack) : stack[i] \notin SendFrames
SentOrFailed ==
    Bottom \in {"judge", "final"} /\ Unsent =>
       \/ sends > 0
       \/ stack[1] \in Judges /\ res # "ok"
       \/ stack[1] = "create" /\ stack[2] \in Judges /\ (pending \/ browser = None)

OnceInv ==
    /\ StackInv
    /\ sends \in Nat
    /\ stack = <<>> => tool = "none"
    /\ stack # <<>> =>
          /\ tool = "none" <=> Bottom = "begin"
          /\ tool # "none" => sends <= Budget
          /\ Bottom = "final" => tool \in ReadOnly
          /\ SendOnce /\ SentOrFailed

-----------------------------------------------------------------------------
(* The steps. *)

KeepsCall == UNCHANGED <<tool, answer>>

\* A frame h that is not at the bottom is replaced.
Replaces(h, frames) == At(h) /\ stack' = frames \o Tail(stack) /\ KeepsCall

\* The frames by which a sending frame is replaced that has not sent yet.
Onward == {<<"act", "effect">>, <<"act", "shown">>, <<"page", "goto">>, <<"down">>,
           <<"down", "shown">>, <<"script">>}

SendsNow == \E h \in SendFrames, frames \in Seq(Plainly) : Replaces(h, frames) /\ sends' = sends + 1
SendFails == \E h \in SendFrames : Replaces(h, <<>>) /\ UNCHANGED sends /\ res' # "ok"
SendLater == \E h \in SendFrames, frames \in Onward : Replaces(h, frames) /\ UNCHANGED sends
SendRefused == /\ At("op") /\ Replaces("op", <<"create">>)
               /\ UNCHANGED <<sends, pending, browser>> /\ (pending \/ browser = None)
Proceeds == \E h \in Plainly \ {"create"}, frames \in Seq(Plainly) : Replaces(h, frames) /\ UNCHANGED sends
Fails == \E h \in {"effect", "shown", "create"} : Replaces(h, <<>>) /\ UNCHANGED sends /\ res' # "ok"
Judged == \E h \in {"effect", "shown"}, frames \in {<<>>, <<"shown">>, <<"look">>} :
             Replaces(h, frames) /\ UNCHANGED sends /\ res = "ok"
Creates == Replaces("create", <<"created">>) /\ UNCHANGED sends /\ ~(pending \/ browser = None)

Inside == \/ SendsNow \/ SendFails \/ SendLater \/ SendRefused
          \/ Proceeds \/ Fails \/ Judged \/ Creates

Rests == UNCHANGED <<stack, tool, sends, answer, res>> /\ (stack = <<>> \/ UNCHANGED <<pending, browser>>)
Starts == stack = <<>> /\ stack' = <<"launch", "begin">> /\ UNCHANGED <<tool, sends, answer>>
Runs == At("begin") /\ stack' = <<"op", "judge">> /\ tool' \in Tools /\ sends' = 0 /\ answer' = "none"
Reconnects == At("judge") /\ stack' = <<"reconnect", "rejudge">> /\ KeepsCall /\ UNCHANGED sends
Repeats == /\ At("rejudge") /\ stack' = <<"op", "final">>
           /\ tool \in ReadOnly /\ KeepsCall /\ UNCHANGED sends
Expires == /\ Len(stack) > 1 /\ Bottom \in {"judge", "final"} /\ stack' = <<Bottom>>
           /\ res' = "timeout" /\ KeepsCall /\ UNCHANGED sends
Over == /\ stack' = <<>> /\ tool' = "none" /\ sends' = 0
        /\ \/ answer' = "error"
           \/ answer' = "ok" /\ (At("judge") \/ At("final")) /\ res = "ok"

OnceMoves == Inside \/ Rests \/ Starts \/ Runs \/ Reconnects \/ Repeats \/ Expires \/ Over
-----------------------------------------------------------------------------
(* They keep the invariant. *)

LEMMA FrameKinds ==
    /\ SendFrames \subseteq Inner \cap OpFrames /\ Plainly \subseteq Inner
    /\ Plainly \cap (SendFrames \cup Judges) = {}
    /\ {"effect", "shown", "create", "created", "look", "page"} \subseteq Inner
    /\ {"created", "look", "create", "page"} \subseteq Plainly
    /\ Inner \cap Bottoms = {}
BY DEF SendFrames, Inner, OpFrames, Plainly, Judges, Frames, Bottoms

LEMMA ReplacesKeepsSendOnce ==
    ASSUME OnceInv, NEW h \in Inner, NEW frames \in Seq(Inner), Replaces(h, frames),
           \A i \in 1 .. Len(frames) : frames[i] \in SendFrames =>
              /\ h \in SendFrames /\ sends' = sends
              /\ \A j \in 1 .. Len(frames) : frames[j] \in SendFrames => j = i,
           \A i \in 1 .. Len(frames) : frames[i] \in SendFrames \cup {"effect", "shown"} =>
              IF i < Len(frames) THEN frames[i + 1] \in Judges
                                 ELSE h \in SendFrames \cup {"effect", "shown"},
           sends' = sends \/ (h \in SendFrames /\ sends' = sends + 1)
    PROVE  /\ stack' # <<>> /\ sends' \in Nat /\ SendOnce'
           /\ tool' = "none" <=> Bottom' = "begin"
           /\ tool' # "none" => sends' <= Budget'
           /\ Bottom' = "final" => tool' \in ReadOnly
<1>. DEFINE n == Len(frames)  m == Len(stack)
<1>1. /\ stack # <<>> /\ stack[1] = h /\ m \in Nat /\ m > 1 /\ n \in Nat
      /\ stack' \in Seq(Frames) /\ Len(stack') = n + m - 1
      /\ \A i \in 1 .. n : stack'[i] = frames[i] /\ frames[i] \in Inner
      /\ \A i \in n + 1 .. n + m - 1 : stack'[i] = stack[i - n + 1]
  BY Replaced DEF OnceInv, Replaces
<1>2. /\ stack' # <<>> /\ Bottom' = Bottom /\ Budget' = Budget /\ tool' = tool
      /\ sends \in Nat /\ Budget \in {1, 2} /\ SendOnce
  BY <1>1 DEF Bottom, Budget, Replaces, KeepsCall, OnceInv
<1>3. h \in SendFrames => /\ Bottom \in {"judge", "final"} /\ sends < Budget
                          /\ \A j \in 2 .. m : stack[j] \notin SendFrames
  BY <1>1, <1>2 DEF SendOnce
<1>4. sends' \in Nat /\ (tool' # "none" => sends' <= Budget')
  BY <1>1, <1>2, <1>3 DEF OnceInv
<1>5. ASSUME NEW i \in 1 .. Len(stack'), stack'[i] \in SendFrames
      PROVE  /\ Bottom' \in {"judge", "final"} /\ sends' < Budget'
             /\ \A j \in 1 .. Len(stack') : stack'[j] \in SendFrames => j = i
  <2>1. CASE i \in 1 .. n
    <3>1. h \in SendFrames /\ sends' = sends
      BY <1>1, <1>5, <2>1
    <3>2. ASSUME NEW j \in n + 1 .. n + m - 1 PROVE stack'[j] \notin SendFrames
      <4>1. j - n + 1 \in 2 .. m
        BY <1>1
      <4>. QED
        BY <1>1, <1>3, <3>1, <4>1
    <3>3. \A j \in 1 .. n : stack'[j] \in SendFrames => j = i
      BY <1>1, <1>5, <2>1
    <3>. QED
      BY <1>1, <1>2, <1>3, <3>1, <3>2, <3>3
  <2>2. CASE i \in n + 1 .. n + m - 1
    <3>1. i - n + 1 \in 2 .. m /\ stack[i - n + 1] \in SendFrames
      BY <1>1, <1>5, <2>2
    <3>2. h \notin SendFrames /\ sends' = sends
      BY <1>3, <3>1
    <3>3. ASSUME NEW j \in n + 1 .. n + m - 1, stack'[j] \in SendFrames PROVE j = i
      <4>1. j - n + 1 \in 1 .. m /\ i - n + 1 \in 1 .. m /\ stack[j - n + 1] \in SendFrames
        BY <1>1, <2>2, <3>3
      <4>2. j - n + 1 = i - n + 1
        BY <1>2, <3>1, <4>1 DEF SendOnce
      <4>. QED
        BY <1>1, <2>2, <4>2
    <3>4. \A j \in 1 .. n : stack'[j] \notin SendFrames
      BY <1>1, <3>2
    <3>5. Bottom \in {"judge", "final"} /\ sends < Budget
      BY <1>1, <1>2, <3>1 DEF SendOnce
    <3>. QED
      BY <1>1, <1>2, <3>2, <3>3, <3>4, <3>5
  <2>. QED
    BY <1>1, <2>1, <2>2
<1>6. ASSUME NEW i \in 1 .. Len(stack') - 1, stack'[i] \in SendFrames \cup {"effect", "shown"}
      PROVE  stack'[i + 1] \in Judges
  <2>1. CASE i < n
    BY <1>1, <1>6, <2>1
  <2>2. CASE i = n
    <3>1. stack[1] \in SendFrames \cup {"effect", "shown"}
      BY <1>1, <1>6, <2>2
    <3>2. stack[2] \in Judges
      BY <1>1, <1>2, <3>1 DEF SendOnce
    <3>3. n + 1 \in n + 1 .. n + m - 1 /\ n + 1 - n + 1 = 2
      BY <1>1
    <3>. QED
      BY <1>1, <2>2, <3>2, <3>3
  <2>3. CASE i > n
    <3>1. /\ i - n + 1 \in 1 .. m - 1 /\ i \in n + 1 .. n + m - 1
          /\ i + 1 \in n + 1 .. n + m - 1 /\ i + 1 - n + 1 = (i - n + 1) + 1
      BY <1>1, <2>3
    <3>2. stack'[i] = stack[i - n + 1] /\ stack'[i + 1] = stack[(i - n + 1) + 1]
      BY <1>1, <3>1
    <3>. QED
      BY <1>2, <1>6, <3>1, <3>2 DEF SendOnce
  <2>. QED
    BY <1>1, <2>1, <2>2, <2>3
<1>7. SendOnce'
  BY <1>5, <1>6 DEF SendOnce
<1>8. (tool' = "none" <=> Bottom' = "begin") /\ (Bottom' = "final" => tool' \in ReadOnly)
  BY <1>1, <1>2 DEF OnceInv
<1>. QED
  BY <1>2, <1>4, <1>7, <1>8

\* What a frame that does not send leaves unsent was unsent.
LEMMA ReplacesUnsent ==
    ASSUME OnceInv, NEW h \in Inner \ SendFrames, NEW frames \in Seq(Inner), Replaces(h, frames), Unsent'
    PROVE  Unsent
<1>. DEFINE n == Len(frames)  m == Len(stack)
<1>1. /\ stack[1] = h /\ m \in Nat /\ n \in Nat /\ Len(stack') = n + m - 1
      /\ \A i \in n + 1 .. n + m - 1 : stack'[i] = stack[i - n + 1]
  BY Replaced DEF OnceInv, Replaces
<1>2. ASSUME NEW j \in 2 .. m PROVE stack[j] \notin SendFrames
  <2>1. j + n - 1 \in n + 1 .. n + m - 1 /\ (j + n - 1) - n + 1 = j
    BY <1>1
  <2>2. stack'[j + n - 1] = stack[j] /\ j + n - 1 \in 1 .. Len(stack')
    BY <1>1, <2>1
  <2>. QED
    BY <2>2 DEF Unsent
<1>. QED
  BY <1>1, <1>2 DEF Unsent

LEMMA InsideKeepsOnce == ASSUME OnceInv, StackInv', Inside PROVE OnceInv'
<1>0. \A h, frames : Replaces(h, frames) => At(h)
  BY DEF Replaces
<1>1. CASE SendsNow
  <2>1. PICK h \in SendFrames, frames \in Seq(Plainly) : Replaces(h, frames) /\ sends' = sends + 1
    BY <1>1 DEF SendsNow
  <2>2. h \in Inner /\ frames \in Seq(Inner) /\ \A i \in 1 .. Len(frames) : frames[i] \in Plainly
    BY FrameKinds
  <2>3. \A i \in 1 .. Len(frames) : frames[i] \notin SendFrames \cup {"effect", "shown"}
    BY <2>2 DEF Plainly
  <2>4. sends' > 0
    BY <2>1 DEF OnceInv
  <2>. QED
    BY <2>1, <2>2, <2>3, <2>4, ReplacesKeepsSendOnce DEF OnceInv, SentOrFailed
<1>2. CASE SendFails \/ Fails
  <2>1. PICK h \in SendFrames \cup {"effect", "shown", "create"} :
           Replaces(h, <<>>) /\ UNCHANGED sends /\ res' # "ok"
    BY <1>2 DEF SendFails, Fails
  <2>. PICK frames : frames = <<>>
    OBVIOUS
  <2>2. h \in Inner /\ frames \in Seq(Inner) /\ Len(frames) = 0 /\ Replaces(h, frames)
    BY <2>1, FrameKinds
  <2>3. /\ stack' # <<>> /\ sends' \in Nat /\ SendOnce'
        /\ tool' = "none" <=> Bottom' = "begin"
        /\ tool' # "none" => sends' <= Budget'
        /\ Bottom' = "final" => tool' \in ReadOnly
    <3>1. \A i \in 1 .. Len(frames) : FALSE
      BY <2>2
    <3>. QED
      BY <2>1, <2>2, <3>1, ReplacesKeepsSendOnce
  <2>4. /\ stack # <<>> /\ stack[1] = h /\ Len(stack) \in Nat /\ Len(stack) > 1
        /\ Len(stack') = Len(stack) - 1 /\ \A i \in 1 .. Len(stack) - 1 : stack'[i] = stack[i + 1]
    <3>1. /\ stack # <<>> /\ stack[1] = h /\ Len(stack) \in Nat /\ Len(stack) > 1 /\ Len(frames) = 0
          /\ Len(stack') = Len(frames) + Len(stack) - 1
          /\ \A i \in Len(frames) + 1 .. Len(frames) + Len(stack) - 1 :
                stack'[i] = stack[i - Len(frames) + 1]
      BY <2>2, Replaced DEF OnceInv, Replaces
    <3>. QED
      BY <3>1
  <2>5. stack'[1] = stack[2] /\ stack'[Len(stack')] = stack[Len(stack)]
    BY <2>4
  <2>6. SentOrFailed'
    <3>1. CASE h # "create"
      <4>1. stack[2] \in Judges
        BY <2>1, <2>4, <3>1 DEF OnceInv, SendOnce
      <4>. QED
        BY <2>1, <2>5, <4>1 DEF SentOrFailed
    <3>2. CASE h = "create"
      <4>1. "create" \in Inner \ SendFrames /\ "create" \notin Judges
        BY FrameKinds DEF SendFrames, Judges
      <4>2. Unsent' => Unsent
        BY <2>1, <2>2, <3>2, <4>1, ReplacesUnsent
      <4>3. Bottom \in {"judge", "final"} /\ Unsent => sends > 0 \/ stack[2] \in Judges
        BY <2>4, <3>2, <4>1 DEF OnceInv, SentOrFailed
      <4>. QED
        BY <2>1, <2>5, <4>2, <4>3 DEF SentOrFailed, Bottom
    <3>. QED
      BY <3>1, <3>2
  <2>. QED
    BY <2>3, <2>6 DEF OnceInv
<1>3. CASE SendLater
  <2>1. PICK h \in SendFrames, frames \in Onward : Replaces(h, frames) /\ UNCHANGED sends
    BY <1>3 DEF SendLater
  <2>2. /\ h \in Inner /\ frames \in Seq(Inner)
        /\ Len(frames) \in 1 .. 2
        /\ \E i \in 1 .. Len(frames) : frames[i] \in SendFrames
        /\ \A i, j \in 1 .. Len(frames) : frames[i] \in SendFrames /\ frames[j] \in SendFrames => j = i
        /\ \A i \in 1 .. Len(frames) : i < Len(frames) /\ frames[i] \in SendFrames \cup {"effect", "shown"}
                                         => frames[i + 1] \in Judges
    <3>. USE DEF SendFrames, Judges, Inner, Frames, Bottoms
    <3>1. CASE frames = <<"act", "effect">>
      BY <3>1
    <3>2. CASE frames = <<"act", "shown">>
      BY <3>2
    <3>3. CASE frames = <<"page", "goto">>
      BY <3>3
    <3>4. CASE frames = <<"down">>
      BY <3>4
    <3>5. CASE frames = <<"script">>
      BY <3>5
    <3>6. CASE frames = <<"down", "shown">>
      BY <3>6
    <3>. QED
      BY <3>1, <3>2, <3>3, <3>4, <3>5, <3>6 DEF Onward
  <2>3. ~Unsent'
    BY <2>1, <2>2, Replaced DEF Unsent, Replaces, OnceInv
  <2>. QED
    BY <2>1, <2>2, <2>3, ReplacesKeepsSendOnce DEF OnceInv, SentOrFailed
<1>4. CASE SendRefused
  <2>1. PICK frames : frames = <<"create">>
    OBVIOUS
  <2>2. /\ "op" \in SendFrames /\ "op" \in Inner /\ frames \in Seq(Inner) /\ Len(frames) = 1
        /\ frames[1] = "create" /\ "create" \notin SendFrames \cup {"effect", "shown"}
        /\ Replaces("op", frames) /\ UNCHANGED sends
    BY <1>4, <2>1, FrameKinds DEF SendRefused, SendFrames
  <2>3. /\ stack' # <<>> /\ sends' \in Nat /\ SendOnce'
        /\ tool' = "none" <=> Bottom' = "begin"
        /\ tool' # "none" => sends' <= Budget'
        /\ Bottom' = "final" => tool' \in ReadOnly
    BY <2>2, ReplacesKeepsSendOnce
  <2>4. stack[1] = "op" /\ stack'[1] = "create" /\ stack'[2] = stack[2] /\ Len(stack) \in Nat /\ Len(stack) > 1
    <3>1. /\ stack[1] = "op" /\ Len(stack) \in Nat /\ Len(stack) > 1
          /\ \A i \in 1 .. Len(frames) : stack'[i] = frames[i]
          /\ \A i \in Len(frames) + 1 .. Len(frames) + Len(stack) - 1 : stack'[i] = stack[i - Len(frames) + 1]
      BY <2>2, Replaced DEF Replaces, OnceInv
    <3>. QED
      BY <2>2, <3>1
  <2>5. stack[2] \in Judges
    BY <2>2, <2>4 DEF OnceInv, SendOnce
  <2>. QED
    BY <1>4, <2>3, <2>4, <2>5 DEF OnceInv, SentOrFailed, SendRefused
<1>5. CASE Proceeds \/ Judged \/ Creates
  <2>1. PICK h \in Inner \ SendFrames, frames \in Seq(Inner) :
           /\ Replaces(h, frames) /\ UNCHANGED sends
           /\ \A i \in 1 .. Len(frames) : frames[i] \notin SendFrames
           /\ \A i \in 1 .. Len(frames) : frames[i] \in {"effect", "shown"} =>
                 i = Len(frames) /\ h \in {"effect", "shown"}
           /\ \/ h \notin Judges /\ h # "create"
              \/ h \in {"effect", "shown"} /\ res = "ok"
              \/ h = "create" /\ ~(pending \/ browser = None)
    <3>1. CASE Proceeds
      <4>1. PICK h \in Plainly \ {"create"}, frames \in Seq(Plainly) : Replaces(h, frames) /\ UNCHANGED sends
        BY <3>1 DEF Proceeds
      <4>2. \A i \in 1 .. Len(frames) : frames[i] \in Plainly
        OBVIOUS
      <4>3. \A f \in Plainly : f \in Inner \ SendFrames /\ f \notin Judges /\ f \notin {"effect", "shown"}
        BY FrameKinds DEF Judges
      <4>4. frames \in Seq(Inner)
        BY <4>3
      <4>. QED
        BY <4>1, <4>2, <4>3, <4>4
    <3>2. CASE Judged
      <4>1. PICK h \in {"effect", "shown"}, frames \in {<<>>, <<"shown">>, <<"look">>} :
               Replaces(h, frames) /\ UNCHANGED sends /\ res = "ok"
        BY <3>2 DEF Judged
      <4>2. /\ h \in Inner \ SendFrames /\ frames \in Seq(Inner) /\ Len(frames) \in 0 .. 1
            /\ \A i \in 1 .. Len(frames) : i = Len(frames) /\ frames[i] \in {"shown", "look"}
        <5>1. CASE frames = <<>>
          BY <5>1, FrameKinds DEF SendFrames
        <5>2. CASE frames = <<"shown">>
          BY <5>2, FrameKinds DEF SendFrames
        <5>3. CASE frames = <<"look">>
          BY <5>3, FrameKinds DEF SendFrames
        <5>. QED
          BY <4>1, <5>1, <5>2, <5>3
      <4>. QED
        BY <4>1, <4>2 DEF SendFrames
    <3>3. CASE Creates
      <4>1. PICK frames : frames = <<"created">>
        OBVIOUS
      <4>2. /\ "create" \in Inner \ SendFrames /\ frames \in Seq(Inner) /\ Len(frames) = 1 /\ frames[1] = "created"
            /\ Replaces("create", frames) /\ UNCHANGED sends /\ ~(pending \/ browser = None)
        BY <3>3, <4>1, FrameKinds DEF SendFrames, Creates
      <4>. QED
        BY <4>2 DEF SendFrames
    <3>. QED
      BY <1>5, <3>1, <3>2, <3>3
  <2>2. /\ stack' # <<>> /\ sends' \in Nat /\ SendOnce'
        /\ tool' = "none" <=> Bottom' = "begin"
        /\ tool' # "none" => sends' <= Budget'
        /\ Bottom' = "final" => tool' \in ReadOnly
    BY <2>1, ReplacesKeepsSendOnce
  <2>3. Unsent' => Unsent
    BY <2>1, ReplacesUnsent
  <2>4. stack # <<>> /\ stack[1] = h /\ Bottom' = Bottom
    <3>1. /\ stack # <<>> /\ stack[1] = h /\ Len(stack) \in Nat /\ Len(stack) > 1 /\ Len(frames) \in Nat
          /\ Len(stack') = Len(frames) + Len(stack) - 1
          /\ \A i \in Len(frames) + 1 .. Len(frames) + Len(stack) - 1 :
                stack'[i] = stack[i - Len(frames) + 1]
      BY <2>1, Replaced DEF OnceInv, Replaces
    <3>. QED
      BY <3>1 DEF Bottom
  <2>5. Bottom \in {"judge", "final"} /\ Unsent => sends > 0
    BY <2>1, <2>4 DEF OnceInv, SentOrFailed, Judges
  <2>. QED
    BY <2>1, <2>2, <2>3, <2>4, <2>5 DEF OnceInv, SentOrFailed
<1>. QED
  BY <1>1, <1>2, <1>3, <1>4, <1>5 DEF Inside

\* A frame at the bottom is alone.
LEMMA Alone == ASSUME OnceInv, NEW b \in Bottoms, At(b) PROVE Len(stack) = 1 /\ Bottom = b /\ stack # <<>>
<1>1. stack \in Seq(Frames) /\ stack # <<>> /\ stack[1] = b /\ 1 \in 1 .. Len(stack)
  BY DEF OnceInv, StackInv, At
<1>2. Len(stack) = 1
  BY <1>1 DEF OnceInv, StackInv
<1>. QED
  BY <1>1, <1>2 DEF Bottom

LEMMA MovesKeepOnce == ASSUME OnceInv, StackInv', OnceMoves PROVE OnceInv'
<1>. USE DEF OnceInv, SendOnce, SentOrFailed, Bottom, Budget
<1>1. CASE Inside
  BY <1>1, InsideKeepsOnce
<1>2. CASE Rests
  BY <1>2 DEF Rests, Unsent
<1>3. CASE Starts
  <2>1. Len(stack') = 2 /\ stack' # <<>> /\ stack'[1] = "launch" /\ stack'[2] = "begin"
    BY <1>3 DEF Starts
  <2>2. \A i \in 1 .. Len(stack') : i \in {1, 2}
    BY <2>1
  <2>. QED
    BY <1>3, <2>1, <2>2 DEF Starts, SendFrames
<1>4. CASE Runs
  <2>1. Len(stack') = 2 /\ stack' # <<>> /\ stack'[1] = "op" /\ stack'[2] = "judge"
    BY <1>4 DEF Runs
  <2>2. \A i \in 1 .. Len(stack') : i \in {1, 2}
    BY <2>1
  <2>. QED
    BY <1>4, <2>1, <2>2, ToolsAssumption DEF Runs, SendFrames, Unsent, Judges
<1>5. CASE Reconnects
  <2>1. Len(stack') = 2 /\ stack' # <<>> /\ stack'[1] = "reconnect" /\ stack'[2] = "rejudge"
    BY <1>5 DEF Reconnects
  <2>2. \A i \in 1 .. Len(stack') : i \in {1, 2}
    BY <2>1
  <2>3. Len(stack) = 1 /\ Bottom = "judge" /\ stack # <<>>
    BY <1>5, Alone DEF Reconnects, Bottoms
  <2>. QED
    BY <1>5, <2>1, <2>2, <2>3 DEF Reconnects, SendFrames, KeepsCall
<1>6. CASE Repeats
  <2>1. Len(stack') = 2 /\ stack' # <<>> /\ stack'[1] = "op" /\ stack'[2] = "final"
    BY <1>6 DEF Repeats
  <2>2. \A i \in 1 .. Len(stack') : i \in {1, 2}
    BY <2>1
  <2>3. Len(stack) = 1 /\ Bottom = "rejudge" /\ stack # <<>>
    BY <1>6, Alone DEF Repeats, Bottoms
  <2>4. tool # "none" /\ sends <= 1
    BY <1>6, <2>3 DEF Repeats, ReadOnly
  <2>. QED
    BY <1>6, <2>1, <2>2, <2>4 DEF Repeats, SendFrames, Unsent, KeepsCall, Judges
<1>7. CASE Expires
  <2>1. Len(stack') = 1 /\ stack' # <<>> /\ stack'[1] = Bottom /\ Bottom \in {"judge", "final"}
    BY <1>7 DEF Expires
  <2>2. \A i \in 1 .. Len(stack') : i = 1
    BY <2>1
  <2>3. stack # <<>>
    BY <1>7 DEF Expires, StackInv
  <2>. QED
    BY <1>7, <2>1, <2>2, <2>3 DEF Expires, SendFrames, Judges, KeepsCall
<1>8. CASE Over
  BY <1>8 DEF Over
<1>. QED
  BY <1>1, <1>2, <1>3, <1>4, <1>5, <1>6, <1>7, <1>8 DEF OnceMoves

-----------------------------------------------------------------------------
(* The steps of the code are such steps. *)

\* A frame that returns is replaced by none.
LEMMA Returns == ASSUME OnceInv, stack # <<>> PROVE Tail(stack) = <<>> \o Tail(stack) /\ <<>> \in Seq(Plainly)
<1>1. Tail(stack) \in Seq(Frames)
  BY HeadTailProperties DEF OnceInv, StackInv
<1>. QED
  BY <1>1

LEMMA CallsPlainly ==
    /\ \A f \in Plainly : Call(<<f>>) => Calls(Plainly)
    /\ \A f, g \in Plainly : Call(<<f, g>>) => Calls(Plainly)
BY CallsOf

LEMMA ItProceeds ==
    ASSUME OnceInv, NEW h \in Plainly \ {"create"}, At(h), stack' = Tail(stack) \/ Calls(Plainly),
           KeepsCall, UNCHANGED sends
    PROVE  Inside
<1>1. \E frames \in Seq(Plainly) : stack' = frames \o Tail(stack)
  BY Returns DEF Calls, At
<1>. QED
  BY <1>1 DEF Inside, Proceeds, Replaces

LEMMA ItSends ==
    ASSUME OnceInv, NEW h \in SendFrames, At(h), KeepsCall,
           \/ sends' = sends + 1 /\ (stack' = Tail(stack) \/ Calls(Plainly))
           \/ UNCHANGED sends /\ stack' = Tail(stack) /\ res' # "ok"
    PROVE  Inside
<1>1. CASE sends' = sends + 1 /\ (stack' = Tail(stack) \/ Calls(Plainly))
  <2>1. \E frames \in Seq(Plainly) : stack' = frames \o Tail(stack)
    BY <1>1, Returns DEF Calls, At
  <2>. QED
    BY <1>1, <2>1 DEF Inside, SendsNow, Replaces
<1>2. CASE UNCHANGED sends /\ stack' = Tail(stack) /\ res' # "ok"
  <2>1. stack' = <<>> \o Tail(stack)
    BY <1>2, Returns DEF At
  <2>. QED
    BY <1>2, <2>1 DEF Inside, SendFails, Replaces
<1>. QED
  BY <1>1, <1>2

LEMMA ItFails ==
    ASSUME OnceInv, NEW h \in {"effect", "shown", "create"}, At(h), KeepsCall, UNCHANGED sends,
           stack' = Tail(stack), res' # "ok"
    PROVE  Inside
<1>1. stack' = <<>> \o Tail(stack)
  BY Returns DEF At
<1>. QED
  BY <1>1 DEF Inside, Fails, Replaces

LEMMA ClientMovesOnce == ASSUME OnceInv, ClientStep, UNCHANGED toolVars PROVE Inside
<1>0. KeepsCall /\ UNCHANGED sends
  BY DEF toolVars, KeepsCall
<1>1. Inner = Plainly \cup SendFrames \cup {"effect", "shown"} /\ \A h \in {"launch", "reconnect", "reattached",
        "attach", "attached", "close", "closed", "kill", "singleton", "refuse", "starting", "endpoint",
        "heal", "adopt", "page", "absent", "create", "created", "opened"} : h \in Plainly
  BY DEF Plainly, Inner, Frames, Bottoms, SendFrames
<1>2. CASE RefuseCreate
  BY <1>0, <1>2, ItFails DEF RefuseCreate, Return
<1>3. CASE SendCreate
  BY <1>0, <1>3 DEF SendCreate, Inside, Creates, Replaces, Call
<1>4. CASE Adopt \/ Opened \/ CreateFails \/ GetOrCreate \/ CreateIfAbsent \/ Created
  <2>1. stack' = Tail(stack) \/ Calls(Plainly)
    BY <1>1, <1>4, CallsPlainly DEF Adopt, Opened, CreateFails, GetOrCreate, CreateIfAbsent, Created, Return
  <2>2. \E h \in Plainly \ {"create"} : At(h)
    BY <1>1, <1>4 DEF Adopt, Opened, CreateFails, GetOrCreate, CreateIfAbsent, Created
  <2>. QED
    BY <1>0, <2>1, <2>2, ItProceeds
<1>5. CASE Launch \/ LaunchExternal \/ AttachExternal \/ Heal \/ Reconnect \/ Reattached \/ Close \/ Closed
  <2>1. stack' = Tail(stack) \/ Calls(Plainly)
    BY <1>1, <1>5, CallsPlainly DEF Launch, LaunchExternal, AttachExternal, Heal, Reconnect, Reattached,
       Close, Closed, Return
  <2>2. \E h \in Plainly \ {"create"} : At(h)
    BY <1>1, <1>5 DEF Launch, LaunchExternal, AttachExternal, Heal, Reconnect, Reattached, Close, Closed
  <2>. QED
    BY <1>0, <2>1, <2>2, ItProceeds
<1>6. CASE Attach \/ Attached \/ Kill \/ Singleton \/ Refuse \/ Spawn \/ Started \/ StartFails
  <2>1. stack' = Tail(stack) \/ Calls(Plainly)
    BY <1>1, <1>6, CallsPlainly DEF Attach, Attached, Kill, Singleton, Refuse, Spawn, Started, StartFails, Return
  <2>2. \E h \in Plainly \ {"create"} : At(h)
    BY <1>1, <1>6 DEF Attach, Attached, Kill, Singleton, Refuse, Spawn, Started, StartFails
  <2>. QED
    BY <1>0, <2>1, <2>2, ItProceeds
<1>. QED
  BY <1>2, <1>3, <1>4, <1>5, <1>6 DEF ClientStep

\* An answer of "ok" comes from a page that is there.
LEMMA OkFromPage == \A r : Replies(r) => (r = "ok" => PageState = "ok")
BY DEF Replies

LEMMA OperationMovesOnce == ASSUME OnceInv, Operation PROVE Inside
<1>. USE DEF KeepsCall, Quiet, Untouched, Sent, NotSent, SentIfThere, Return, Running
<1>0. /\ \A h \in {"look", "insert", "release", "watch", "close", "create", "page"} : h \in Plainly
      /\ \A h \in {"op", "act", "goto", "down", "script"} : h \in SendFrames
  BY DEF Plainly, Inner, Frames, Bottoms, SendFrames
<1>1. CASE \/ Extract \/ CookiesGet \/ Evaluate \/ Scroll \/ CookiesSet \/ DragFiles
  <2>1. At("op") /\ KeepsCall /\ Command
    BY <1>1 DEF Extract, CookiesGet, Evaluate, Scroll, CookiesSet, DragFiles, Reads, Writes
  <2>. QED
    BY <1>0, <2>1, ItSends, OkFromPage DEF Command
<1>2. CASE Screenshot \/ Upload
  BY <1>0, <1>2, ItSends, OkFromPage DEF Screenshot, Upload, Reads, Writes, Command
<1>3. CASE ListDownloads \/ ListTabs \/ ImportCookies \/ WaitFor
  <2>1. At("op") /\ KeepsCall /\ stack' = Tail(stack)
    BY <1>3 DEF ListDownloads, ListTabs, ImportCookies, WaitFor, Reads, Writes
  <2>2. sends' = sends + 1 \/ (UNCHANGED sends /\ res' # "ok")
    BY <1>3 DEF ListDownloads, ListTabs, ImportCookies, WaitFor
  <2>. QED
    BY <1>0, <2>1, <2>2, ItSends
<1>4. CASE SnapshotTool
  <2>1. At("op") /\ KeepsCall /\ stack' = Tail(stack)
    BY <1>4 DEF SnapshotTool
  <2>2. sends' = sends + 1 \/ (UNCHANGED sends /\ res' # "ok")
    BY <1>4, OkFromPage DEF SnapshotTool, Snapshot, AxTable, DomTable
  <2>. QED
    BY <1>0, <2>1, <2>2, ItSends
<1>5. CASE Look \/ Watch \/ InsertText \/ Release
  <2>1. stack' = Tail(stack) /\ KeepsCall /\ UNCHANGED sends
    BY <1>5 DEF Look, Watch, InsertText, Release
  <2>2. \E h \in Plainly \ {"create"} : At(h)
    BY <1>0, <1>5 DEF Look, Watch, InsertText, Release
  <2>. QED
    BY <2>1, <2>2, ItProceeds
<1>6. CASE NoPageToNavigate \/ NoElement \/ NoTabToSwitchTo
  <2>1. KeepsCall /\ UNCHANGED sends /\ stack' = Tail(stack) /\ res' # "ok"
    BY <1>6 DEF NoPageToNavigate, NoElement, NoTabToSwitchTo, Success
  <2>2. At("goto") \/ At("act") \/ At("op")
    BY <1>6 DEF NoPageToNavigate, NoElement, NoTabToSwitchTo
  <2>. QED
    BY <1>0, <2>1, <2>2, ItSends
<1>7. CASE Arrives \/ SlowToLoad \/ Rejected \/ NeverUsable \/ SwitchTab \/ CloseTool
  <2>1. KeepsCall /\ sends' = sends + 1 /\ (stack' = Tail(stack) \/ Calls(Plainly))
    BY <1>0, <1>7, CallsPlainly DEF Arrives, SlowToLoad, Rejected, NeverUsable, SwitchTab, CloseTool
  <2>2. At("goto") \/ At("op")
    BY <1>7 DEF Arrives, SlowToLoad, Rejected, NeverUsable, SwitchTab, CloseTool
  <2>. QED
    BY <1>0, <2>1, <2>2, ItSends
<1>8. CASE Act \/ ClearField \/ Down \/ Script \/ History
  <2>1. /\ At("act") \/ At("down") \/ At("script") \/ At("op")
        /\ KeepsCall
    BY <1>8 DEF Act, ClearField, Down, Script, History
  <2>2. \/ sends' = sends + 1 /\ (stack' = Tail(stack) \/ Calls(Plainly))
        \/ UNCHANGED sends /\ stack' = Tail(stack) /\ res' # "ok"
    <3>1. CASE Act \/ Script
      BY <3>1, OkFromPage DEF Act, Script, ActOnce
    <3>2. CASE ClearField \/ Down \/ History
      BY <1>0, <3>2, OkFromPage, CallsPlainly DEF ClearField, Down, History
    <3>. QED
      BY <1>8, <3>1, <3>2
  <2>. QED
    BY <1>0, <2>1, <2>2, ItSends
<1>9. CASE Navigate \/ Unverified
  BY <1>0, <1>9 DEF Navigate, Unverified, Call, Inside, SendLater, Replaces, Onward
<1>10. CASE Arm \/ ElementCenter \/ PressKey \/ InjectHelpers
  <2>1. /\ At("op") \/ At("act")
        /\ KeepsCall /\ UNCHANGED sends
    BY <1>10 DEF Arm, ElementCenter, PressKey, InjectHelpers
  <2>2. \/ stack' = Tail(stack) /\ res' # "ok"
        \/ \E frames \in Onward : stack' = frames \o Tail(stack)
    BY <1>10 DEF Arm, ElementCenter, PressKey, InjectHelpers, Call, Onward
  <2>. QED
    BY <1>0, <2>1, <2>2, ItSends DEF Inside, SendLater, Replaces
<1>11. CASE NewTab
  <2>1. At("op") /\ KeepsCall /\ Call(<<"create">>)
    BY <1>11 DEF NewTab
  <2>2. CASE pending \/ browser = None
    BY <1>11, <2>1, <2>2 DEF NewTab, Inside, SendRefused, Replaces, Call, ClientIdle, clientVars, linkVars
  <2>3. CASE ~(pending \/ browser = None)
    BY <1>0, <1>11, <2>1, <2>3, CallsPlainly, ItSends DEF NewTab
  <2>. QED
    BY <2>2, <2>3
<1>12. CASE Effect \/ Shown
  <2>1. /\ At("effect") \/ At("shown")
        /\ KeepsCall /\ UNCHANGED sends
    BY <1>12 DEF Effect, Shown
  <2>2. \/ stack' = Tail(stack) /\ res' # "ok"
        \/ res = "ok" /\ (stack' = Tail(stack) \/ \E frames \in {<<"shown">>, <<"look">>} : stack' = frames \o Tail(stack))
    BY <1>12 DEF Effect, Shown, Call
  <2>3. CASE stack' = Tail(stack) /\ res' # "ok"
    BY <2>1, <2>3, ItFails
  <2>4. CASE res = "ok" /\ stack' = Tail(stack)
    <3>1. stack' = <<>> \o Tail(stack)
      BY <2>1, <2>4, Returns DEF At
    <3>. QED
      BY <2>1, <2>4, <3>1 DEF Inside, Judged, Replaces
  <2>5. CASE res = "ok" /\ \E frames \in {<<"shown">>, <<"look">>} : stack' = frames \o Tail(stack)
    BY <2>1, <2>5 DEF Inside, Judged, Replaces
  <2>. QED
    BY <2>2, <2>3, <2>4, <2>5
<1>. QED
  BY <1>1, <1>2, <1>3, <1>4, <1>5, <1>6, <1>7, <1>8, <1>9, <1>10, <1>11, <1>12 DEF Operation

LEMMA ExecutorMovesOnce == ASSUME OnceInv, Executor PROVE OnceMoves
<1>. USE DEF OnceMoves, KeepsCall
<1>1. CASE RefuseArguments
  <2>1. Inside
    BY <1>1, ItSends DEF RefuseArguments, Return, SendFrames, toolVars
  <2>. QED
    BY <2>1
<1>2. CASE NoBrowser \/ Settled \/ StillAlive \/ GiveUp \/ Final
  BY <1>2 DEF NoBrowser, Settled, StillAlive, GiveUp, Final, Answers, Over
<1>3. CASE ConnectionLost \/ Repeat \/ \E t \in Tools : RunTool(t)
  <2>1. Tail(stack) = <<>>
    BY <1>3, AtBottom DEF OnceInv, ConnectionLost, Repeat, RunTool, Bottoms
  <2>2. \A s \in Seq(Frames) : s \o <<>> = s
    OBVIOUS
  <2>3. {<<"op", "judge">>, <<"op", "final">>, <<"reconnect", "rejudge">>} \subseteq Seq(Frames)
    BY DEF Frames
  <2>. QED
    BY <1>3, <2>1, <2>2, <2>3 DEF ConnectionLost, Repeat, RunTool, RepeatOnce, Call, IsReadOnly,
       Reconnects, Repeats, Runs, toolVars
<1>. QED
  BY <1>1, <1>2, <1>3 DEF Executor

LEMMA StepMovesOnce == ASSUME OnceInv, [BrowserNext]_browserVars PROVE OnceMoves
<1>. USE DEF OnceMoves
<1>1. CASE ClientStep /\ UNCHANGED toolVars
  BY <1>1, ClientMovesOnce
<1>2. CASE Operation
  BY <1>2, OperationMovesOnce
<1>3. CASE Executor
  BY <1>3, ExecutorMovesOnce
<1>4. CASE CallBegins
  BY <1>4 DEF CallBegins, Starts, toolVars
<1>5. CASE AttemptTimesOut
  BY <1>5 DEF AttemptTimesOut, Expires, Bottom, toolVars, KeepsCall
<1>6. CASE CallTimesOut
  BY <1>6 DEF CallTimesOut, Answers, Over
<1>7. CASE Shutdown
  BY <1>7 DEF Shutdown, Rests
<1>8. CASE ArrivesLate
  BY <1>8 DEF ArrivesLate, Rests, ClientIdle, clientVars, linkVars
<1>9. CASE Environment /\ UNCHANGED toolVars
  BY <1>9 DEF Environment, LinkBreaks, ChromeDies, ChromeGoesDeaf, TabCloses, OtherStarts, Undisturbed,
     linkVars, toolVars, Rests
<1>10. CASE UNCHANGED browserVars
  BY <1>10 DEF browserVars, toolVars, clientVars, linkVars, Rests
<1>. QED
  BY <1>1, <1>2, <1>3, <1>4, <1>5, <1>6, <1>7, <1>8, <1>9, <1>10 DEF BrowserNext, CallStep

LEMMA OnceInvInductive == ASSUME OnceInv, [BrowserNext]_browserVars PROVE OnceMoves /\ OnceInv'
<1>1. OnceMoves
  BY StepMovesOnce
<1>2. StackInv'
  <2>1. StackInv
    BY DEF OnceInv
  <2>2. external' = external
    BY <2>1, StepKeepsExternal
  <2>. QED
    BY <2>1, <2>2, StepMovesStack, MovesKeepStack
<1>. QED
  BY <1>1, <1>2, MovesKeepOnce

-----------------------------------------------------------------------------
(* The refinement. *)

Kind == IF tool = "none" THEN "none" ELSE IF tool \in ReadOnly THEN "read" ELSE "write"

\* What may be sent is within what OnceCall allows.
LEMMA MovesKeepPromise == ASSUME OnceInv, OnceMoves PROVE [Once!OnceNext]_(Once!onceVars)
<1>. USE DEF Once!OnceNext, Once!onceVars
<1>1. CASE SendsNow
  <2>1. PICK h \in SendFrames : At(h) /\ KeepsCall /\ sends' = sends + 1
    BY <1>1 DEF SendsNow, Replaces
  <2>2. stack # <<>> /\ stack[1] = h /\ 1 \in 1 .. Len(stack)
    BY <2>1 DEF At, OnceInv, StackInv
  <2>3. Bottom \in {"judge", "final"} /\ sends < Budget
    BY <2>2 DEF OnceInv, SendOnce
  <2>4. tool # "none" /\ (Budget = 2 => tool \in ReadOnly) /\ Budget \in {1, 2} /\ sends \in Nat
    BY <2>2, <2>3 DEF OnceInv, Budget
  <2>5. Kind # "none" /\ sends < Once!Most(Kind)
    BY <2>3, <2>4 DEF Kind, Once!Most
  <2>. QED
    BY <2>1, <2>5 DEF Once!Send, Kind, KeepsCall
<1>2. CASE Inside /\ ~SendsNow
  BY <1>2 DEF Inside, SendFails, SendLater, SendRefused, Proceeds, Fails, Judged, Creates, Replaces, KeepsCall
<1>3. CASE Rests \/ Starts \/ Reconnects \/ Repeats \/ Expires
  BY <1>3 DEF Rests, Starts, Reconnects, Repeats, Expires, KeepsCall
<1>4. CASE Runs
  <2>1. tool = "none"
    BY <1>4, Alone DEF Runs, Bottoms, OnceInv
  <2>2. tool' # "none"
    BY <1>4, ToolsAssumption DEF Runs
  <2>. QED
    BY <1>4, <2>1, <2>2 DEF Runs, Once!Begin
<1>5. CASE Over
  <2>1. CASE answer' = "error"
    BY <1>5, <2>1 DEF Over, Once!Answer
  <2>2. CASE answer' = "ok" /\ (At("judge") \/ At("final")) /\ res = "ok"
    <3>1. PICK b \in {"judge", "final"} : At(b)
      BY <2>2
    <3>2. Len(stack) = 1 /\ Bottom = b /\ stack # <<>> /\ stack[1] = b
      BY <3>1, Alone DEF Bottoms, At
    <3>3. Unsent
      BY <3>2 DEF Unsent, SendFrames
    <3>4. sends > 0 /\ tool # "none"
      BY <2>2, <3>2, <3>3 DEF OnceInv, SentOrFailed
    <3>. QED
      BY <1>5, <2>2, <3>4 DEF Over, Once!Answer
  <2>. QED
    BY <1>5, <2>1, <2>2 DEF Over
<1>. QED
  BY <1>1, <1>2, <1>3, <1>4, <1>5 DEF OnceMoves

\* A call keeps the promise of OnceCall (KeepsOnce): whatever the connection does,
\* and wherever a call is dropped, a write is never repeated, a read once, and
\* success is only answered for what was sent.
THEOREM OncePromise == BrowserSpec => KeepsOnce
<1>1. BrowserInit => OnceInv /\ Once!OnceInit
  BY DEF BrowserInit, OnceInv, StackInv, Once!OnceInit
<1>2. OnceInv /\ [BrowserNext]_browserVars => OnceInv' /\ [Once!OnceNext]_(Once!onceVars)
  BY OnceInvInductive, MovesKeepPromise
<1>. QED
  BY <1>1, <1>2, PTL DEF BrowserSpec, KeepsOnce, Once!OnceSpec

-----------------------------------------------------------------------------
(* Keys and buttons. *)

\* Only a click or a key press takes hold of anything.
Pressing == {"click", "press"}
Takes == {"act", "down"}

\* While something is held its release is under way, or a failure is on its way
\* to the answer, or the connection is already known to be lost.
HeldInv ==
    /\ \A i \in 1 .. Len(stack) : stack[i] \in Takes => tool \in Pressing
    /\ held =>
          /\ tool \notin ReadOnly \cup {"none"}
          /\ \/ Bottom = "rejudge"
             \/ Bottom = "judge" /\ stack[1] = "release" /\ stack[2] \in Judges
             \/ Bottom = "judge" /\ stack[1] \in Judges /\ res # "ok"

\* What a step may do to it.
Harmless == stack' = Tail(stack) \/ Calls(Inner \ Takes)
Passes == \E h \in Inner \ {"release", "effect", "shown"} : At(h) /\ Harmless /\ KeepsCall /\ (held' => held)
Aims == \E h \in {"op", "act"} : At(h) /\ tool \in Pressing /\ Calls(Inner) /\ KeepsCall /\ UNCHANGED held
Presses == At("down") /\ stack' = <<"release">> \o Tail(stack) /\ KeepsCall
Releases == At("release") /\ stack' = Tail(stack) /\ KeepsCall /\ (held' => held /\ res' # "ok")
Passed == \E h \in {"effect", "shown"} :
             /\ At(h) /\ Harmless /\ KeepsCall /\ UNCHANGED held
             /\ res # "ok" => stack' = Tail(stack) /\ res' # "ok"
HeldMoves ==
    \/ Passes \/ Aims \/ Presses \/ Releases \/ Passed
    \/ (Rests \/ Starts \/ Runs \/ Reconnects \/ Repeats \/ Expires) /\ UNCHANGED held
    \/ stack' = <<>> /\ held' = FALSE

\* A frame that returns or calls is replaced.
LEMMA Replacing ==
    ASSUME OnceInv, NEW h \in Inner, At(h), NEW S \in SUBSET Inner, stack' = Tail(stack) \/ Calls(S)
    PROVE  /\ stack # <<>> /\ stack[1] = h /\ Len(stack) \in Nat /\ Len(stack) > 1 /\ stack' # <<>>
           /\ Bottom' = Bottom
           /\ \A i \in 1 .. Len(stack') :
                 stack'[i] \in S \/ \E j \in 2 .. Len(stack) : stack'[i] = stack[j]
           /\ stack' = Tail(stack) => stack'[1] = stack[2]
<1>1. PICK frames \in Seq(S) : /\ stack' = frames \o Tail(stack)
                               /\ stack' = Tail(stack) => frames = <<>>
  <2>1. CASE stack' = Tail(stack)
    <3>1. stack' = <<>> \o Tail(stack) /\ <<>> \in Seq(S)
      BY <2>1, Returns DEF At
    <3>. QED
      BY <3>1
  <2>2. CASE stack' # Tail(stack)
    BY <2>2 DEF Calls
  <2>. QED
    BY <2>1, <2>2
<1>2. frames \in Seq(Inner) /\ \A i \in 1 .. Len(frames) : frames[i] \in S
  OBVIOUS
<1>. DEFINE n == Len(frames)  m == Len(stack)
<1>3. /\ stack # <<>> /\ stack[1] = h /\ m \in Nat /\ m > 1 /\ n \in Nat
      /\ Len(stack') = n + m - 1
      /\ \A i \in 1 .. n : stack'[i] = frames[i]
      /\ \A i \in n + 1 .. n + m - 1 : stack'[i] = stack[i - n + 1]
  BY <1>1, <1>2, Replaced DEF OnceInv
<1>4. Bottom' = Bottom /\ stack' # <<>>
  BY <1>3 DEF Bottom
<1>5. ASSUME NEW i \in 1 .. Len(stack')
      PROVE  stack'[i] \in S \/ \E j \in 2 .. m : stack'[i] = stack[j]
  <2>1. CASE i \in 1 .. n
    BY <1>2, <1>3, <2>1
  <2>2. CASE i \in n + 1 .. n + m - 1
    <3>1. i - n + 1 \in 2 .. m /\ stack'[i] = stack[i - n + 1]
      BY <1>3, <2>2
    <3>. QED
      BY <3>1
  <2>. QED
    BY <1>3, <2>1, <2>2
<1>6. stack' = Tail(stack) => stack'[1] = stack[2]
  <2>. SUFFICES ASSUME stack' = Tail(stack) PROVE stack'[1] = stack[2]
    OBVIOUS
  <2>1. n = 0
    BY <1>1
  <2>. QED
    BY <1>3, <2>1
<1>. QED
  BY <1>3, <1>4, <1>5, <1>6

\* What it leaves of the frames that take hold.
LEMMA ReplacingTakes ==
    ASSUME OnceInv, HeldInv, NEW h \in Inner, At(h), KeepsCall,
           Harmless \/ (tool \in Pressing /\ Calls(Inner))
    PROVE  (\A i \in 1 .. Len(stack) : stack[i] \in Takes => tool \in Pressing)'
<1>1. CASE tool \in Pressing
  BY <1>1 DEF KeepsCall
<1>2. CASE Harmless
  <2>1. Inner \ Takes \in SUBSET Inner
    OBVIOUS
  <2>2. Len(stack) \in Nat /\ \A i \in 1 .. Len(stack') :
           stack'[i] \in Inner \ Takes \/ \E j \in 2 .. Len(stack) : stack'[i] = stack[j]
    BY <1>2, <2>1, Replacing DEF Harmless
  <2>3. \A j \in 2 .. Len(stack) : stack[j] \in Takes => tool \in Pressing
    BY <2>2 DEF HeldInv
  <2>. QED
    BY <2>2, <2>3 DEF KeepsCall
<1>. QED
  BY <1>1, <1>2

LEMMA MovesKeepHeld == ASSUME OnceInv, HeldInv, HeldMoves PROVE HeldInv'
<1>0. /\ {"op", "act", "down", "release", "effect", "shown"} \subseteq Inner
      /\ Inner \ Takes \in SUBSET Inner /\ Inner \in SUBSET Inner
      /\ Inner \cap {"judge", "final"} = {}
  BY DEF Inner, Frames, Bottoms
<1>. DEFINE TakesRight == \A i \in 1 .. Len(stack) : stack[i] \in Takes => tool \in Pressing
<1>1. CASE Passes \/ Aims
  <2>1. PICK h \in Inner \ {"release", "effect", "shown"} :
           At(h) /\ KeepsCall /\ (held' => held) /\ (Harmless \/ (tool \in Pressing /\ Calls(Inner)))
    BY <1>0, <1>1 DEF Passes, Aims
  <2>2. TakesRight'
    BY <2>1, ReplacingTakes
  <2>3. stack[1] = h /\ Bottom' = Bottom
    BY <1>0, <2>1, Replacing DEF Harmless
  <2>4. h \notin Judges
    BY <1>0, <2>1 DEF Judges
  <2>5. held => Bottom = "rejudge" /\ tool \notin ReadOnly \cup {"none"}
    BY <2>1, <2>3, <2>4 DEF HeldInv
  <2>. QED
    BY <2>1, <2>2, <2>3, <2>5 DEF HeldInv, KeepsCall
<1>2. CASE Presses
  <2>1. stack' = Tail(stack) \/ Calls(Inner \ Takes)
    <3>1. "release" \in Inner \ Takes
      BY <1>0 DEF Takes
    <3>. DEFINE frames == <<"release">>
    <3>2. frames \in Seq(Inner \ Takes) /\ Len(frames) \in 1 .. 2 /\ stack' = frames \o Tail(stack)
      BY <1>2, <3>1 DEF Presses
    <3>. HIDE DEF frames
    <3>. QED
      BY <3>2 DEF Calls
  <2>2. TakesRight'
    BY <1>0, <1>2, <2>1, ReplacingTakes DEF Presses, Harmless
  <2>3. /\ stack[1] = "down" /\ Len(stack) \in Nat /\ Len(stack) > 1 /\ Bottom' = Bottom
    BY <1>0, <1>2, <2>1, Replacing DEF Presses
  <2>4. stack'[1] = "release" /\ stack'[2] = stack[2]
    <3>1. PICK frames : frames = <<"release">>
      OBVIOUS
    <3>2. frames \in Seq(Inner) /\ Len(frames) = 1 /\ frames[1] = "release" /\ stack' = frames \o Tail(stack)
      BY <1>0, <1>2, <3>1 DEF Presses
    <3>3. /\ \A i \in 1 .. Len(frames) : stack'[i] = frames[i]
          /\ \A i \in Len(frames) + 1 .. Len(frames) + Len(stack) - 1 : stack'[i] = stack[i - Len(frames) + 1]
      BY <1>0, <1>2, <3>2, Replaced DEF OnceInv, Presses
    <3>. QED
      BY <2>3, <3>2, <3>3
  <2>5. stack[2] \in Judges /\ Bottom \in {"judge", "final"} /\ tool \in Pressing
    BY <2>3 DEF OnceInv, SendOnce, SendFrames, HeldInv, Takes
  <2>6. tool \notin ReadOnly \cup {"none"} /\ Bottom = "judge"
    BY <2>3, <2>5 DEF OnceInv, Pressing, ReadOnly
  <2>. QED
    BY <1>2, <2>2, <2>3, <2>4, <2>5, <2>6 DEF HeldInv, Presses, KeepsCall
<1>3. CASE Releases
  <2>1. At("release") /\ stack' = Tail(stack) /\ KeepsCall
    BY <1>3 DEF Releases
  <2>2. TakesRight'
    BY <1>0, <2>1, ReplacingTakes DEF Harmless
  <2>3. stack[1] = "release" /\ stack'[1] = stack[2] /\ Bottom' = Bottom
    BY <1>0, <2>1, Replacing
  <2>4. held' => held /\ res' # "ok"
    BY <1>3 DEF Releases
  <2>5. "release" \notin Judges
    BY DEF Judges
  <2>. QED
    BY <2>1, <2>2, <2>3, <2>4, <2>5 DEF HeldInv, KeepsCall
<1>4. CASE Passed
  <2>1. PICK h \in {"effect", "shown"} :
             /\ At(h) /\ Harmless /\ KeepsCall /\ UNCHANGED held
             /\ res # "ok" => stack' = Tail(stack) /\ res' # "ok"
    BY <1>4 DEF Passed
  <2>2. TakesRight'
    BY <1>0, <2>1, ReplacingTakes
  <2>3. /\ stack[1] = h /\ Len(stack) \in Nat /\ Len(stack) > 1 /\ Bottom' = Bottom
        /\ stack' = Tail(stack) => stack'[1] = stack[2]
    BY <1>0, <2>1, Replacing DEF Harmless
  <2>4. stack[2] \in Judges
    BY <2>1, <2>3 DEF OnceInv, SendOnce
  <2>. QED
    BY <2>1, <2>2, <2>3, <2>4 DEF HeldInv, KeepsCall
<1>5. CASE Rests /\ UNCHANGED held
  BY <1>5 DEF Rests, HeldInv, Bottom
<1>6. CASE Starts /\ UNCHANGED held
  <2>1. ~held
    BY <1>6 DEF Starts, OnceInv, HeldInv
  <2>2. Len(stack') = 2 /\ stack'[1] = "launch" /\ stack'[2] = "begin"
    BY <1>6 DEF Starts
  <2>3. \A i \in 1 .. Len(stack') : stack'[i] \notin Takes
    BY <2>2 DEF Takes
  <2>. QED
    BY <1>6, <2>1, <2>3 DEF HeldInv
<1>7. CASE Runs /\ UNCHANGED held
  <2>1. ~held
    BY <1>7, Alone DEF Runs, OnceInv, HeldInv, Bottoms
  <2>2. Len(stack') = 2 /\ stack'[1] = "op" /\ stack'[2] = "judge"
    BY <1>7 DEF Runs
  <2>3. \A i \in 1 .. Len(stack') : stack'[i] \notin Takes
    BY <2>2 DEF Takes
  <2>. QED
    BY <1>7, <2>1, <2>3 DEF HeldInv
<1>8. CASE Reconnects /\ UNCHANGED held
  <2>1. Len(stack') = 2 /\ stack'[1] = "reconnect" /\ stack'[2] = "rejudge"
    BY <1>8 DEF Reconnects
  <2>2. \A i \in 1 .. Len(stack') : stack'[i] \notin Takes
    BY <2>1 DEF Takes
  <2>. QED
    BY <1>8, <2>1, <2>2 DEF HeldInv, Reconnects, KeepsCall, Bottom
<1>9. CASE Repeats /\ UNCHANGED held
  <2>1. ~held
    BY <1>9 DEF Repeats, HeldInv
  <2>2. Len(stack') = 2 /\ stack'[1] = "op" /\ stack'[2] = "final"
    BY <1>9 DEF Repeats
  <2>3. \A i \in 1 .. Len(stack') : stack'[i] \notin Takes
    BY <2>2 DEF Takes
  <2>. QED
    BY <1>9, <2>1, <2>3 DEF HeldInv
<1>10. CASE Expires /\ UNCHANGED held
  <2>1. /\ Len(stack') = 1 /\ stack'[1] = Bottom /\ Bottom' = Bottom /\ Bottom \in {"judge", "final"}
        /\ stack # <<>>
    BY <1>10 DEF Expires, Bottom, OnceInv, StackInv
  <2>2. \A i \in 1 .. Len(stack') : stack'[i] \notin Takes
    BY <2>1 DEF Takes
  <2>3. held => Bottom = "judge"
    BY <2>1 DEF OnceInv, HeldInv
  <2>. QED
    BY <1>10, <2>1, <2>2, <2>3 DEF HeldInv, Expires, KeepsCall, Judges
<1>11. CASE stack' = <<>> /\ held' = FALSE
  BY <1>11 DEF HeldInv
<1>. QED
  BY <1>1, <1>2, <1>3, <1>4, <1>5, <1>6, <1>7, <1>8, <1>9, <1>10, <1>11 DEF HeldMoves

\* Calling frames that take nothing.
LEMMA CallsHarmless ==
    /\ \A f \in Inner \ Takes : Call(<<f>>) => Harmless
    /\ \A f, g \in Inner \ Takes : Call(<<f, g>>) => Harmless
BY CallsOf DEF Harmless

LEMMA ItPasses ==
    ASSUME NEW h \in Inner \ {"release", "effect", "shown"}, At(h), Harmless, KeepsCall, held' => held
    PROVE  HeldMoves
BY DEF Passes, HeldMoves

LEMMA ClientMovesHeld == ASSUME ClientStep, UNCHANGED toolVars PROVE HeldMoves
<1>0. /\ KeepsCall /\ UNCHANGED held
      /\ \A h \in {"launch", "reconnect", "reattached", "attach", "attached", "close", "closed", "kill",
                   "singleton", "refuse", "starting", "endpoint", "heal", "adopt", "page", "absent",
                   "create", "created", "opened"} :
            h \in Inner \ Takes /\ h \in Inner \ {"release", "effect", "shown"}
  BY DEF toolVars, KeepsCall, Takes, Inner, Frames, Bottoms
<1>1. CASE Adopt \/ Opened \/ CreateFails \/ GetOrCreate \/ CreateIfAbsent \/ Created \/ RefuseCreate \/ SendCreate
  <2>1. Harmless
    <3>1. stack' = Tail(stack) => Harmless
      BY DEF Harmless
    <3>. QED
      BY <1>0, <1>1, <3>1, CallsHarmless DEF Adopt, Opened, CreateFails, GetOrCreate, CreateIfAbsent, Created,
         RefuseCreate, SendCreate, Return
  <2>2. \E h \in Inner \ {"release", "effect", "shown"} : At(h)
    BY <1>0, <1>1 DEF Adopt, Opened, CreateFails, GetOrCreate, CreateIfAbsent, Created, RefuseCreate, SendCreate
  <2>. QED
    BY <1>0, <2>1, <2>2, ItPasses
<1>2. CASE Launch \/ LaunchExternal \/ AttachExternal \/ Heal \/ Reconnect \/ Reattached \/ Close \/ Closed
  <2>1. Harmless
    <3>1. stack' = Tail(stack) => Harmless
      BY DEF Harmless
    <3>. QED
      BY <1>0, <1>2, <3>1, CallsHarmless DEF Launch, LaunchExternal, AttachExternal, Heal, Reconnect,
         Reattached, Close, Closed, Return
  <2>2. \E h \in Inner \ {"release", "effect", "shown"} : At(h)
    BY <1>0, <1>2 DEF Launch, LaunchExternal, AttachExternal, Heal, Reconnect, Reattached, Close, Closed
  <2>. QED
    BY <1>0, <2>1, <2>2, ItPasses
<1>3. CASE Attach \/ Attached \/ Kill \/ Singleton \/ Refuse \/ Spawn \/ Started \/ StartFails
  <2>1. Harmless
    <3>1. stack' = Tail(stack) => Harmless
      BY DEF Harmless
    <3>. QED
      BY <1>0, <1>3, <3>1, CallsHarmless DEF Attach, Attached, Kill, Singleton, Refuse, Spawn, Started,
         StartFails, Return
  <2>2. \E h \in Inner \ {"release", "effect", "shown"} : At(h)
    BY <1>0, <1>3 DEF Attach, Attached, Kill, Singleton, Refuse, Spawn, Started, StartFails
  <2>. QED
    BY <1>0, <2>1, <2>2, ItPasses
<1>. QED
  BY <1>1, <1>2, <1>3 DEF ClientStep

LEMMA OperationMovesHeld == ASSUME OnceInv, HeldInv, Operation PROVE HeldMoves
<1>. USE DEF KeepsCall, Quiet, Untouched, Return, Running
<1>0. /\ \A h \in {"op", "goto", "look", "insert", "script", "watch", "create", "page", "close"} :
            h \in Inner \ Takes /\ h \in Inner \ {"release", "effect", "shown"}
      /\ \A h \in Takes : h \in Inner \ {"release", "effect", "shown"}
      /\ Takes \subseteq Inner /\ {"effect", "shown", "release"} \subseteq Inner \ Takes
  BY DEF Inner, Frames, Bottoms, Takes
<1>00. stack' = Tail(stack) => Harmless
  BY DEF Harmless
<1>1. CASE \/ Extract \/ CookiesGet \/ Evaluate \/ Scroll \/ CookiesSet \/ DragFiles \/ Screenshot \/ Upload
           \/ ListDownloads \/ ListTabs \/ ImportCookies \/ WaitFor
  <2>1. At("op") /\ KeepsCall /\ UNCHANGED held /\ stack' = Tail(stack)
    BY <1>1 DEF Extract, CookiesGet, Evaluate, Scroll, CookiesSet, DragFiles, Screenshot, Upload,
       ListDownloads, ListTabs, ImportCookies, WaitFor, Reads, Writes, Command
  <2>. QED
    BY <1>0, <1>00, <2>1, ItPasses
<1>2. CASE SnapshotTool \/ Look \/ Watch \/ InsertText \/ NoPageToNavigate \/ NoElement \/ NoTabToSwitchTo \/ Act
  <2>1. stack' = Tail(stack) /\ KeepsCall /\ UNCHANGED held
    BY <1>2 DEF SnapshotTool, Look, Watch, InsertText, NoPageToNavigate, NoElement, NoTabToSwitchTo, Act
  <2>2. At("op") \/ At("look") \/ At("watch") \/ At("insert") \/ At("goto") \/ At("act")
    BY <1>2 DEF SnapshotTool, Look, Watch, InsertText, NoPageToNavigate, NoElement, NoTabToSwitchTo, Act
  <2>. QED
    BY <1>0, <1>00, <2>1, <2>2, ItPasses DEF Takes
<1>3. CASE Arrives \/ SlowToLoad \/ Rejected \/ NeverUsable \/ SwitchTab \/ CloseTool \/ NewTab \/ Navigate
  <2>1. KeepsCall /\ UNCHANGED held /\ Harmless
    BY <1>0, <1>00, <1>3, CallsHarmless DEF Arrives, SlowToLoad, Rejected, NeverUsable, SwitchTab, CloseTool,
       NewTab, Navigate
  <2>2. At("goto") \/ At("op")
    BY <1>3 DEF Arrives, SlowToLoad, Rejected, NeverUsable, SwitchTab, CloseTool, NewTab, Navigate
  <2>. QED
    BY <1>0, <2>1, <2>2, ItPasses
<1>4. CASE ClearField \/ Script \/ History \/ InjectHelpers
  <2>1. KeepsCall /\ UNCHANGED held /\ Harmless
    BY <1>0, <1>00, <1>4, CallsHarmless DEF ClearField, Script, History, InjectHelpers
  <2>2. At("act") \/ At("op") \/ At("script")
    BY <1>4 DEF ClearField, Script, History, InjectHelpers
  <2>. QED
    BY <1>0, <2>1, <2>2, ItPasses DEF Takes
<1>5. CASE Arm \/ Unverified \/ ElementCenter \/ PressKey
  <2>1. KeepsCall /\ UNCHANGED held /\ (stack' = Tail(stack) \/ Calls(Inner))
    BY <1>0, <1>5, CallsInner DEF Arm, Unverified, ElementCenter, PressKey, Takes
  <2>2. (At("op") /\ tool \in Pressing) \/ At("act")
    BY <1>5 DEF Arm, Unverified, ElementCenter, PressKey, Pressing
  <2>3. At("act") => tool \in Pressing
    <3>1. At("act") => stack[1] = "act" /\ 1 \in 1 .. Len(stack)
      BY DEF At, OnceInv, StackInv
    <3>. QED
      BY <3>1 DEF HeldInv, Takes
  <2>4. CASE stack' = Tail(stack)
    BY <1>0, <1>00, <2>1, <2>2, <2>4, ItPasses DEF Takes
  <2>5. CASE Calls(Inner)
    BY <2>1, <2>2, <2>3, <2>5 DEF Aims, HeldMoves
  <2>. QED
    BY <2>1, <2>4, <2>5
<1>6. CASE Down
  <2>1. At("down") /\ KeepsCall
    BY <1>6 DEF Down
  <2>2. stack' = <<"release">> \o Tail(stack) \/ (stack' = Tail(stack) /\ (held' => held))
    <3>1. PICK r \in Results : /\ IF r = "ok" THEN Call(<<"release">>) ELSE Return(r)
                              /\ held' = (held \/ r = "ok")
      BY <1>6 DEF Down
    <3>2. CASE r = "ok"
      BY <3>1, <3>2 DEF Call
    <3>3. CASE r # "ok"
      <4>1. stack' = Tail(stack)
        BY <3>1, <3>3
      <4>2. held' => held
        BY ONLY <3>1, <3>3, Zenon
      <4>. QED
        BY <4>1, <4>2
    <3>. QED
      BY <3>2, <3>3
  <2>. QED
    BY <1>0, <1>00, <2>1, <2>2, ItPasses DEF Presses, HeldMoves, Takes
<1>7. CASE Release
  <2>1. At("release") /\ stack' = Tail(stack) /\ KeepsCall
    BY <1>7 DEF Release
  <2>2. held' => held /\ res' # "ok"
    BY <1>7 DEF Release, ReleaseReports
  <2>. QED
    BY <2>1, <2>2 DEF Releases, HeldMoves
<1>8. CASE Effect \/ Shown
  <2>1. At("effect") \/ At("shown")
    BY <1>8 DEF Effect, Shown
  <2>2. KeepsCall /\ UNCHANGED held /\ Harmless
    BY <1>0, <1>00, <1>8, CallsHarmless DEF Effect, Shown
  <2>3. res # "ok" => stack' = Tail(stack) /\ res' # "ok"
    BY <1>8 DEF Effect, Shown
  <2>. QED
    BY <2>1, <2>2, <2>3 DEF Passed, HeldMoves
<1>. QED
  BY <1>1, <1>2, <1>3, <1>4, <1>5, <1>6, <1>7, <1>8 DEF Operation

LEMMA StepMovesHeld == ASSUME OnceInv, HeldInv, [BrowserNext]_browserVars PROVE HeldMoves
<1>1. CASE ClientStep /\ UNCHANGED toolVars
  BY <1>1, ClientMovesHeld
<1>2. CASE Operation
  BY <1>2, OperationMovesHeld
<1>3. CASE NoBrowser \/ Settled \/ StillAlive \/ GiveUp \/ Final \/ CallTimesOut
  BY <1>3 DEF NoBrowser, Settled, StillAlive, GiveUp, Final, CallTimesOut, Answers, HeldMoves
<1>4. CASE RefuseArguments
  <2>1. At("op") /\ Harmless /\ KeepsCall /\ UNCHANGED held
    BY <1>4 DEF RefuseArguments, Return, Harmless, KeepsCall, toolVars
  <2>2. "op" \in Inner \ {"release", "effect", "shown"}
    BY DEF Inner, Frames, Bottoms
  <2>. QED
    BY <2>1, <2>2, ItPasses
<1>5. CASE ConnectionLost \/ Repeat \/ \E t \in Tools : RunTool(t)
  <2>1. UNCHANGED held /\ OnceMoves /\ ~At("op")
    BY <1>5, ExecutorMovesOnce DEF Executor, ConnectionLost, Repeat, RunTool, toolVars, At
  <2>2. (At("judge") \/ At("rejudge") \/ At("begin")) /\ stack' # <<>>
    <3>1. PICK b \in Bottoms : At(b) /\ b \in {"judge", "rejudge", "begin"}
      BY <1>5 DEF ConnectionLost, Repeat, RunTool, Bottoms
    <3>2. Tail(stack) = <<>>
      BY <3>1, AtBottom DEF OnceInv
    <3>3. stack' \in {<<"op", "judge">>, <<"op", "final">>, <<"reconnect", "rejudge">>}
      <4>1. \A s \in Seq(Frames) : s \o <<>> = s
        OBVIOUS
      <4>2. {<<"op", "judge">>, <<"op", "final">>, <<"reconnect", "rejudge">>} \subseteq Seq(Frames)
        BY DEF Frames
      <4>. QED
        BY <1>5, <3>2, <4>1, <4>2 DEF ConnectionLost, Repeat, RunTool, RepeatOnce, Call
    <3>. QED
      BY <3>1, <3>3
  <2>3. ~Inside
    <3>1. "op" \in SendFrames
      BY DEF SendFrames
    <3>2. Inside => \E h \in Inner : At(h)
      BY <3>1, FrameKinds DEF Inside, SendsNow, SendFails, SendLater, SendRefused, Proceeds, Fails, Judged,
         Creates, Replaces
    <3>. QED
      BY <2>2, <3>2, FrameKinds DEF Bottoms, At
  <2>. QED
    BY <2>1, <2>2, <2>3 DEF OnceMoves, Over, HeldMoves
<1>6. CASE CallBegins
  BY <1>6 DEF CallBegins, Starts, HeldMoves, toolVars
<1>7. CASE AttemptTimesOut
  BY <1>7 DEF AttemptTimesOut, Expires, Bottom, toolVars, KeepsCall, HeldMoves
<1>8. CASE Shutdown
  BY <1>8 DEF Shutdown, Rests, HeldMoves
<1>9. CASE ArrivesLate
  BY <1>9 DEF ArrivesLate, Rests, ClientIdle, clientVars, linkVars, HeldMoves
<1>10. CASE Environment /\ UNCHANGED toolVars
  BY <1>10 DEF Environment, LinkBreaks, ChromeDies, ChromeGoesDeaf, TabCloses, OtherStarts, Undisturbed,
     linkVars, toolVars, Rests, HeldMoves
<1>11. CASE UNCHANGED browserVars
  BY <1>11 DEF browserVars, toolVars, clientVars, linkVars, Rests, HeldMoves
<1>. QED
  BY <1>1, <1>2, <1>3, <1>4, <1>5, <1>6, <1>7, <1>8, <1>9, <1>10, <1>11 DEF BrowserNext, CallStep, Executor

\* Success is only answered with every key and button of the call up again
\* (OkMeansReleased): a release that fails is reported, whatever the page shows.
THEOREM ReleasedBeforeOk == BrowserSpec => OkMeansReleased
<1>1. BrowserInit => OnceInv /\ HeldInv
  BY DEF BrowserInit, OnceInv, StackInv, HeldInv
<1>2. OnceInv /\ HeldInv /\ [BrowserNext]_browserVars =>
         /\ OnceInv' /\ HeldInv'
         /\ tool # "none" /\ tool' = "none" /\ answer' = "ok" => ~held
  <2>. SUFFICES ASSUME OnceInv, HeldInv, [BrowserNext]_browserVars
                PROVE  /\ OnceInv' /\ HeldInv'
                       /\ tool # "none" /\ tool' = "none" /\ answer' = "ok" => ~held
    OBVIOUS
  <2>1. OnceMoves /\ OnceInv'
    BY OnceInvInductive
  <2>2. HeldInv'
    BY StepMovesHeld, MovesKeepHeld
  <2>3. ASSUME tool # "none", tool' = "none", answer' = "ok" PROVE ~held
    <3>1. Over
      <4>1. ~Runs
        BY <2>3, ToolsAssumption DEF Runs
      <4>2. tool' # tool
        BY <2>3
      <4>. QED
        BY <2>1, <4>1, <4>2 DEF OnceMoves, Inside, SendsNow, SendFails, SendLater, SendRefused, Proceeds, Fails,
           Judged, Creates, Replaces, KeepsCall, Rests, Starts, Reconnects, Repeats, Expires
    <3>2. (At("judge") \/ At("final")) /\ res = "ok"
      BY <2>3, <3>1 DEF Over
    <3>3. stack[1] \in {"judge", "final"} /\ Bottom \in {"judge", "final"}
      <4>1. PICK b \in {"judge", "final"} : At(b)
        BY <3>2
      <4>. QED
        BY <4>1, Alone DEF Bottoms, At, OnceInv, StackInv
    <3>. QED
      BY <3>2, <3>3 DEF HeldInv
  <2>. QED
    BY <2>1, <2>2, <2>3
<1>. QED
  BY <1>1, <1>2, PTL DEF BrowserSpec, OkMeansReleased

-----------------------------------------------------------------------------
(* Types. *)

\* Of the browsers and the connection, of the page, of the call; stack, status,
\* owned and sends are in StackInv, StrayInv and OnceInv.
LinkTypes ==
    /\ headless \subseteq Chrome
    /\ tab \in [Tab -> Chrome \cup {None}]
    /\ {port, browser, child, spawned} \subseteq Chrome \cup {None}
PageTypes ==
    /\ {page, selected, refs} \subseteq Tab \cup {None}
    /\ arriving \in Tab \cup {None}
FlagTypes == {link, pending, doubt, held, shut} \subseteq BOOLEAN
CallTypes ==
    /\ res \in {"none", "ok", "no", "conn", "err", "timeout"}
    /\ tool \in Tools \cup {"none"}
    /\ tool = "none" => sends = 0
    /\ answer \in {"none", "ok", "error"}
FaultTypes == faults \in 0 .. MaxFaults
Types == LinkTypes /\ PageTypes /\ FlagTypes /\ CallTypes /\ FaultTypes

\* Processes and tabs.
LEMMA EndsTypes ==
    ASSUME tab \in [Tab -> Chrome \cup {None}], NEW dead, Ends(dead)
    PROVE  tab' \in [Tab -> Chrome \cup {None}]
BY DEF Ends

LEMMA ClientLinkTypes == ASSUME LinkTypes, ClientStep PROVE LinkTypes'
<1>. USE DEF LinkTypes, chromeVars, linkVars, clientVars
<1>1. CASE Adopt \/ GetOrCreate \/ CreateIfAbsent \/ RefuseCreate \/ SendCreate \/ Opened
  BY <1>1 DEF Adopt, GetOrCreate, CreateIfAbsent, RefuseCreate, SendCreate, Opened
<1>2. CASE Created \/ CreateFails
  <2>1. UNCHANGED <<headless, port, browser, child, spawned>>
    BY <1>2 DEF Created, CreateFails
  <2>2. UNCHANGED tab \/ \E t \in Tab : Opens(t)
    BY <1>2 DEF Created, CreateFails, FreeTabs
  <2>. QED
    BY <2>1, <2>2 DEF Opens
<1>3. CASE Attach \/ Launch \/ LaunchExternal \/ Attached \/ Refuse \/ Reattached \/ Singleton \/ Reconnect
  BY <1>3 DEF Attach, Connects, Reachable, Launch, LaunchExternal, Attached, Refuse, Reattached, Singleton, Reconnect
<1>4. CASE Heal
  BY <1>4 DEF Heal
<1>5. CASE AttachExternal \/ Close \/ Closed \/ Kill \/ StartFails
  <2>1. UNCHANGED tab \/ \E dead : Ends(dead)
    BY <1>5 DEF AttachExternal, Close, Closed, Kill, StartFails
  <2>2. tab' \in [Tab -> Chrome \cup {None}]
    BY <2>1, EndsTypes
  <2>3. /\ headless' = headless /\ port' = port
        /\ browser' \in {browser, port, None} /\ child' \in {child, None} /\ spawned' \in {spawned, None}
    BY <1>5 DEF AttachExternal, Close, Closed, Kill, StartFails, Connects, Forget
  <2>. QED
    BY <2>2, <2>3
<1>6. CASE Spawn
  <2>1. PICK c \in Chrome : spawned' = c /\ port' = c
                            /\ (UNCHANGED tab \/ \E t \in Tab : tab' = [tab EXCEPT ![t] = c])
    BY <1>6 DEF Spawn, Startable, FreeTabs
  <2>. QED
    BY <1>6, <2>1 DEF Spawn
<1>7. CASE Started
  BY <1>7, EndsTypes DEF Started, Connects
<1>. QED
  BY <1>1, <1>2, <1>3, <1>4, <1>5, <1>6, <1>7 DEF ClientStep

LEMMA OperationKeepsLink == ASSUME Operation PROVE UNCHANGED <<tab, browser, link>>
<1>. USE DEF clientVars, linkVars, ClientIdle, PageOnly
<1>1. CASE SnapshotTool \/ Look \/ Navigate \/ SwitchTab
  BY <1>1 DEF SnapshotTool, Look, Navigate, SwitchTab
<1>2. CASE \/ Extract \/ CookiesGet \/ Screenshot \/ ListDownloads \/ ListTabs
           \/ Evaluate \/ Scroll \/ CookiesSet \/ DragFiles \/ Upload \/ ImportCookies \/ WaitFor
  BY <1>2 DEF Extract, CookiesGet, Screenshot, ListDownloads, ListTabs, Evaluate, Scroll, CookiesSet,
     DragFiles, Upload, ImportCookies, WaitFor, Reads, Writes
<1>3. CASE \/ NoPageToNavigate \/ Arrives \/ Rejected \/ SlowToLoad \/ NeverUsable
           \/ Arm \/ Unverified \/ NoElement \/ Act \/ ClearField \/ InsertText \/ ElementCenter
  BY <1>3 DEF NoPageToNavigate, Arrives, Rejected, SlowToLoad, NeverUsable, Arm, Unverified,
     NoElement, Act, ClearField, InsertText, ElementCenter
<1>4. CASE \/ Effect \/ Shown \/ PressKey \/ Down \/ Release \/ InjectHelpers \/ Script
           \/ History \/ Watch \/ NewTab \/ NoTabToSwitchTo \/ CloseTool
  BY <1>4 DEF Effect, Shown, PressKey, Down, Release, InjectHelpers, Script, History, Watch,
     NewTab, NoTabToSwitchTo, CloseTool
<1>. QED
  BY <1>1, <1>2, <1>3, <1>4 DEF Operation

LEMMA StepLinkTypes == ASSUME LinkTypes, [BrowserNext]_browserVars PROVE LinkTypes'
<1>. USE DEF LinkTypes, chromeVars, linkVars, clientVars
<1>1. CASE ClientStep
  BY <1>1, ClientLinkTypes
<1>2. CASE Operation
  BY <1>2, OperationKeepsLink, OperationKeepsProcesses
<1>3. CASE Executor \/ CallBegins \/ ArrivesLate \/ AttemptTimesOut
  BY <1>3 DEF Executor, NoBrowser, RefuseArguments, Settled, StillAlive, ConnectionLost, Repeat, GiveUp, Final,
     RunTool, CallBegins, ArrivesLate, AttemptTimesOut, ClientIdle
<1>4. CASE CallTimesOut \/ Shutdown
  <2>1. \E dead : Ends(dead)
    BY <1>4 DEF CallTimesOut, Shutdown
  <2>2. tab' \in [Tab -> Chrome \cup {None}]
    BY <2>1, EndsTypes
  <2>3. /\ headless' = headless /\ port' = port
        /\ browser' \in {browser, None} /\ child' \in {child, None} /\ spawned' \in {spawned, None}
    BY <1>4 DEF CallTimesOut, Shutdown, Forget
  <2>. QED
    BY <2>2, <2>3
<1>5. CASE LinkBreaks \/ \E c \in Chrome : ChromeDies(c) \/ ChromeGoesDeaf(c)
  BY <1>5, EndsTypes DEF LinkBreaks, ChromeDies, ChromeGoesDeaf, Undisturbed
<1>6. CASE \/ \E t \in Tab : TabCloses(t)
           \/ \E c \in Chrome, t \in Tab : OtherStarts(c, t)
  BY <1>6 DEF TabCloses, OtherStarts, Undisturbed
<1>7. CASE UNCHANGED browserVars
  BY <1>7 DEF browserVars
<1>. QED
  BY <1>1, <1>2, <1>3, <1>4, <1>5, <1>6, <1>7 DEF BrowserNext, CallStep, Environment

\* The page: what PageMoves allows keeps its types.
ArrivingMoves == arriving' \in {arriving, None, page}

LEMMA StepMovesArriving == ASSUME [BrowserNext]_browserVars PROVE ArrivingMoves
<1>. USE DEF ArrivingMoves, toolVars, Quiet, Untouched
<1>1. CASE ClientStep /\ UNCHANGED toolVars
  BY <1>1
<1>2. CASE \/ Extract \/ CookiesGet \/ Screenshot \/ ListDownloads \/ ListTabs
           \/ Evaluate \/ Scroll \/ CookiesSet \/ DragFiles \/ Upload \/ ImportCookies \/ WaitFor
  BY <1>2 DEF Extract, CookiesGet, Screenshot, ListDownloads, ListTabs, Evaluate, Scroll, CookiesSet,
     DragFiles, Upload, ImportCookies, WaitFor, Reads, Writes
<1>3. CASE \/ NoPageToNavigate \/ Arrives \/ Rejected \/ SlowToLoad \/ NeverUsable \/ SnapshotTool \/ Look
           \/ Navigate \/ SwitchTab
  BY <1>3 DEF NoPageToNavigate, Arrives, Rejected, SlowToLoad, NeverUsable, SnapshotTool, Look, Navigate, SwitchTab
<1>4. CASE \/ Arm \/ Unverified \/ NoElement \/ Act \/ ClearField \/ InsertText \/ ElementCenter
           \/ Effect \/ Shown \/ PressKey \/ Down \/ Release \/ InjectHelpers \/ Script
           \/ History \/ Watch \/ NewTab \/ NoTabToSwitchTo \/ CloseTool
  BY <1>4 DEF Arm, Unverified, NoElement, Act, ClearField, InsertText, ElementCenter,
     Effect, Shown, PressKey, Down, Release, InjectHelpers, Script, History, Watch,
     NewTab, NoTabToSwitchTo, CloseTool
<1>5. CASE Executor \/ CallBegins \/ ArrivesLate \/ AttemptTimesOut \/ CallTimesOut \/ Shutdown
  BY <1>5 DEF Executor, NoBrowser, RefuseArguments, Settled, StillAlive, ConnectionLost, Repeat, GiveUp, Final,
     RunTool, CallBegins, ArrivesLate, AttemptTimesOut, CallTimesOut, Shutdown, Answers
<1>6. CASE (Environment /\ UNCHANGED toolVars) \/ UNCHANGED browserVars
  BY <1>6 DEF browserVars
<1>. QED
  BY <1>1, <1>2, <1>3, <1>4, <1>5, <1>6 DEF BrowserNext, CallStep, Operation

LEMMA StepPageTypes == ASSUME PageTypes, [BrowserNext]_browserVars PROVE PageTypes'
<1>1. ArrivingMoves /\ PageMoves
  BY StepMovesArriving, StepMovesPage
<1>. QED
  BY <1>1 DEF PageTypes, ArrivingMoves, PageMoves, Select, pageVars

\* Inconvenient events are counted.
FaultMoves == Calm \/ Fault

LEMMA StepMovesFaults == ASSUME [BrowserNext]_browserVars PROVE FaultMoves
<1>. USE DEF FaultMoves
<1>1. CASE Adopt \/ GetOrCreate \/ CreateIfAbsent \/ RefuseCreate \/ SendCreate \/ Created \/ CreateFails \/ Opened
  BY <1>1 DEF Adopt, GetOrCreate, CreateIfAbsent, RefuseCreate, SendCreate, Created, CreateFails, Opened
<1>2. CASE Launch \/ LaunchExternal \/ AttachExternal \/ Heal \/ Reconnect \/ Reattached \/ Close \/ Closed
  BY <1>2 DEF Launch, LaunchExternal, AttachExternal, Heal, Reconnect, Reattached, Close, Closed
<1>3. CASE Attach \/ Attached \/ Kill \/ Singleton \/ Refuse \/ Spawn \/ Started \/ StartFails
  BY <1>3 DEF Attach, Attached, Kill, Singleton, Refuse, Spawn, Started, StartFails
<1>4. CASE \/ Extract \/ CookiesGet \/ Screenshot \/ ListDownloads \/ ListTabs
           \/ Evaluate \/ Scroll \/ CookiesSet \/ DragFiles \/ Upload \/ ImportCookies \/ WaitFor
  BY <1>4 DEF Extract, CookiesGet, Screenshot, ListDownloads, ListTabs, Evaluate, Scroll, CookiesSet,
     DragFiles, Upload, ImportCookies, WaitFor, Reads, Writes, Command, Replies
<1>5. CASE \/ NoPageToNavigate \/ Arrives \/ Rejected \/ SlowToLoad \/ NeverUsable \/ SnapshotTool \/ Look
           \/ Navigate \/ SwitchTab
  BY <1>5 DEF NoPageToNavigate, Arrives, Rejected, SlowToLoad, NeverUsable, SnapshotTool, Look, Navigate, SwitchTab,
     Snapshot, AxTable, DomTable, Replies
<1>6. CASE \/ Arm \/ Unverified \/ NoElement \/ Act \/ ClearField \/ InsertText \/ ElementCenter
           \/ Effect \/ Shown \/ PressKey
  BY <1>6 DEF Arm, Unverified, NoElement, Act, ClearField, InsertText, ElementCenter,
     Effect, Shown, PressKey, Replies
<1>7. CASE \/ Down \/ Release \/ InjectHelpers \/ Script \/ History \/ Watch \/ NewTab \/ NoTabToSwitchTo \/ CloseTool
  BY <1>7 DEF Down, Release, InjectHelpers, Script, History, Watch, NewTab, NoTabToSwitchTo, CloseTool, Replies
<1>8. CASE Executor \/ CallBegins \/ ArrivesLate \/ AttemptTimesOut \/ CallTimesOut \/ Shutdown
  BY <1>8 DEF Executor, NoBrowser, RefuseArguments, Settled, StillAlive, ConnectionLost, Repeat, GiveUp, Final,
     RunTool, CallBegins, ArrivesLate, AttemptTimesOut, CallTimesOut, Shutdown
<1>9. CASE Environment
  BY <1>9 DEF Environment, LinkBreaks, ChromeDies, ChromeGoesDeaf, TabCloses, OtherStarts
<1>10. CASE UNCHANGED browserVars
  BY <1>10 DEF browserVars, Calm
<1>. QED
  BY <1>1, <1>2, <1>3, <1>4, <1>5, <1>6, <1>7, <1>8, <1>9, <1>10 DEF BrowserNext, CallStep, ClientStep, Operation

LEMMA StepFaultTypes == ASSUME FaultTypes, [BrowserNext]_browserVars PROVE FaultTypes'
BY StepMovesFaults, FaultsAssumption DEF FaultTypes, FaultMoves, Calm, Fault

\* The flags.
FlagMoves ==
    /\ link' \in {link, TRUE, FALSE} /\ pending' \in {pending, TRUE, FALSE}
    /\ doubt' \in {doubt, TRUE, FALSE} /\ shut' \in {shut, TRUE}
    /\ held' \in {held, TRUE, FALSE}

LEMMA ClientMovesFlags ==
    ASSUME ClientStep
    PROVE  /\ link' \in {link, TRUE, FALSE} /\ pending' \in {pending, TRUE, FALSE}
           /\ doubt' \in {doubt, TRUE, FALSE}
<1>. USE DEF clientVars, linkVars
<1>1. CASE Adopt \/ GetOrCreate \/ CreateIfAbsent \/ RefuseCreate \/ SendCreate \/ Created \/ CreateFails \/ Opened
  BY <1>1 DEF Adopt, GetOrCreate, CreateIfAbsent, RefuseCreate, SendCreate, Created, CreateFails, Opened,
     MarkPending, KeepsOnError
<1>2. CASE Launch \/ LaunchExternal \/ AttachExternal \/ Heal \/ Reconnect \/ Reattached \/ Close \/ Closed
  BY <1>2 DEF Launch, LaunchExternal, AttachExternal, Heal, Reconnect, Reattached, Close, Closed, Connects, Forget
<1>3. CASE Attach \/ Attached \/ Kill \/ Singleton \/ Refuse \/ Spawn \/ Started \/ StartFails
  BY <1>3 DEF Attach, Attached, Kill, Singleton, Refuse, Spawn, Started, StartFails, Connects
<1>. QED
  BY <1>1, <1>2, <1>3 DEF ClientStep

\* An operation leaves them alone, but for what it holds and which tab is chosen.
LEMMA OperationMovesFlags ==
    ASSUME FlagTypes, Operation
    PROVE  /\ UNCHANGED <<link, shut>> /\ held' \in BOOLEAN
           /\ pending' \in {pending, FALSE} /\ doubt' \in {doubt, FALSE}
<1>. USE DEF clientVars, linkVars, ClientIdle, PageOnly, Quiet, Untouched, FlagTypes
<1>1. CASE \/ Extract \/ CookiesGet \/ Screenshot \/ ListDownloads \/ ListTabs
           \/ Evaluate \/ Scroll \/ CookiesSet \/ DragFiles \/ Upload \/ ImportCookies \/ WaitFor
  BY <1>1 DEF Extract, CookiesGet, Screenshot, ListDownloads, ListTabs, Evaluate, Scroll, CookiesSet,
     DragFiles, Upload, ImportCookies, WaitFor, Reads, Writes
<1>2. CASE \/ NoPageToNavigate \/ Arrives \/ Rejected \/ SlowToLoad \/ NeverUsable \/ SnapshotTool \/ Look
           \/ Navigate
  BY <1>2 DEF NoPageToNavigate, Arrives, Rejected, SlowToLoad, NeverUsable, SnapshotTool, Look, Navigate
<1>3. CASE SwitchTab
  BY <1>3 DEF SwitchTab, SwitchTo
<1>4. CASE \/ Arm \/ Unverified \/ NoElement \/ Act \/ ClearField \/ InsertText \/ ElementCenter
           \/ Effect \/ Shown \/ PressKey \/ InjectHelpers \/ Script
           \/ History \/ Watch \/ NewTab \/ NoTabToSwitchTo \/ CloseTool
  BY <1>4 DEF Arm, Unverified, NoElement, Act, ClearField, InsertText, ElementCenter,
     Effect, Shown, PressKey, InjectHelpers, Script, History, Watch, NewTab, NoTabToSwitchTo, CloseTool
<1>5. CASE Down
  <2>1. UNCHANGED <<link, shut, pending, doubt>>
    BY <1>5 DEF Down
  <2>2. PICK r : held' = (held \/ r = "ok")
    BY <1>5 DEF Down
  <2>3. held' \in BOOLEAN
    BY ONLY <2>2, Zenon
  <2>. QED
    BY <2>1, <2>3
<1>6. CASE Release
  <2>1. UNCHANGED <<link, shut, pending, doubt>>
    BY <1>6 DEF Release
  <2>2. PICK r : held' = (held /\ r # "ok")
    BY <1>6 DEF Release
  <2>3. held' \in BOOLEAN
    BY ONLY <2>2, Zenon
  <2>. QED
    BY <2>1, <2>3
<1>. QED
  BY <1>1, <1>2, <1>3, <1>4, <1>5, <1>6 DEF Operation

LEMMA StepFlagTypes == ASSUME FlagTypes, [BrowserNext]_browserVars PROVE FlagTypes'
<1>. USE DEF FlagTypes, clientVars, linkVars, toolVars, ClientIdle
<1>1. CASE ClientStep /\ UNCHANGED toolVars
  BY <1>1, ClientMovesFlags
<1>2. CASE Operation
  BY <1>2, OperationMovesFlags
<1>3. CASE Executor \/ CallBegins \/ ArrivesLate \/ AttemptTimesOut
  BY <1>3 DEF Executor, NoBrowser, RefuseArguments, Settled, StillAlive, ConnectionLost, Repeat, GiveUp, Final,
     RunTool, CallBegins, ArrivesLate, AttemptTimesOut, Answers
<1>4. CASE CallTimesOut \/ Shutdown
  BY <1>4 DEF CallTimesOut, Shutdown, Answers, Forget
<1>5. CASE Environment /\ UNCHANGED toolVars
  BY <1>5 DEF Environment, LinkBreaks, ChromeDies, ChromeGoesDeaf, TabCloses, OtherStarts, Undisturbed
<1>6. CASE UNCHANGED browserVars
  BY <1>6 DEF browserVars
<1>. QED
  BY <1>1, <1>2, <1>3, <1>4, <1>5, <1>6 DEF BrowserNext, CallStep

\* The call.
Outcome == {"none", "ok", "no", "conn", "err", "timeout"}

LEMMA ClientReturns == ASSUME res \in Outcome, ClientStep PROVE res' \in Outcome
<1>. USE DEF Outcome, Call, Return
<1>1. CASE Adopt \/ GetOrCreate \/ CreateIfAbsent \/ RefuseCreate \/ SendCreate \/ Created \/ CreateFails \/ Opened
  BY <1>1 DEF Adopt, GetOrCreate, CreateIfAbsent, RefuseCreate, SendCreate, Created, CreateFails, Opened
<1>2. CASE Launch \/ LaunchExternal \/ AttachExternal \/ Heal \/ Reconnect \/ Reattached \/ Close \/ Closed
  BY <1>2 DEF Launch, LaunchExternal, AttachExternal, Heal, Reconnect, Reattached, Close, Closed
<1>3. CASE Attach \/ Attached \/ Kill \/ Singleton \/ Refuse \/ Spawn \/ Started \/ StartFails
  BY <1>3 DEF Attach, Attached, Kill, Singleton, Refuse, Spawn, Started, StartFails
<1>. QED
  BY <1>1, <1>2, <1>3 DEF ClientStep

LEMMA OperationReturns == ASSUME res \in Outcome, Operation PROVE res' \in Outcome
<1>. USE DEF Outcome, Call, Return, Results
<1>0. PageState \in Outcome
  BY DEF PageState
<1>1. CASE \/ Extract \/ CookiesGet \/ Screenshot \/ ListDownloads \/ ListTabs
           \/ Evaluate \/ Scroll \/ CookiesSet \/ DragFiles \/ Upload \/ ImportCookies \/ WaitFor
  BY <1>0, <1>1 DEF Extract, CookiesGet, Screenshot, ListDownloads, ListTabs, Evaluate, Scroll, CookiesSet,
     DragFiles, Upload, ImportCookies, WaitFor, Reads, Writes, Command
<1>2. CASE \/ NoPageToNavigate \/ Arrives \/ Rejected \/ SlowToLoad \/ NeverUsable \/ SnapshotTool \/ Look
           \/ Navigate \/ SwitchTab
  BY <1>2 DEF NoPageToNavigate, Arrives, Rejected, SlowToLoad, NeverUsable, SnapshotTool, Look, Navigate, SwitchTab
<1>3. CASE \/ Arm \/ Unverified \/ NoElement \/ Act \/ ClearField \/ InsertText \/ ElementCenter
           \/ Effect \/ Shown \/ PressKey
  BY <1>0, <1>3 DEF Arm, Unverified, NoElement, Act, ClearField, InsertText, ElementCenter, Effect, Shown, PressKey
<1>4. CASE \/ Down \/ Release \/ InjectHelpers \/ Script \/ History \/ Watch \/ NewTab \/ NoTabToSwitchTo \/ CloseTool
  BY <1>0, <1>4 DEF Down, Release, InjectHelpers, Script, History, Watch, NewTab, NoTabToSwitchTo, CloseTool,
     ReleaseReports
<1>. QED
  BY <1>1, <1>2, <1>3, <1>4 DEF Operation

LEMMA StepReturns == ASSUME res \in Outcome, [BrowserNext]_browserVars PROVE res' \in Outcome
<1>. USE DEF Outcome, Call, Return
<1>1. CASE ClientStep \/ Operation
  BY <1>1, ClientReturns, OperationReturns
<1>2. CASE Executor \/ CallBegins \/ ArrivesLate \/ AttemptTimesOut \/ CallTimesOut \/ Shutdown
  BY <1>2 DEF Executor, NoBrowser, RefuseArguments, Settled, StillAlive, ConnectionLost, Repeat, GiveUp, Final,
     RunTool, CallBegins, ArrivesLate, AttemptTimesOut, CallTimesOut, Shutdown, Answers
<1>3. CASE Environment \/ UNCHANGED browserVars
  BY <1>3 DEF Environment, LinkBreaks, ChromeDies, ChromeGoesDeaf, TabCloses, OtherStarts, Undisturbed, browserVars
<1>. QED
  BY <1>1, <1>2, <1>3 DEF BrowserNext, CallStep

LEMMA StepCallTypes == ASSUME OnceInv, CallTypes, OnceMoves, res' \in Outcome PROVE CallTypes'
<1>. USE DEF CallTypes, Outcome
<1>1. CASE Inside
  <2>1. KeepsCall
    BY <1>1 DEF Inside, SendsNow, SendFails, SendLater, SendRefused, Proceeds, Fails, Judged, Creates, Replaces
  <2>2. CASE SendsNow
    <3>1. PICK h \in SendFrames : At(h)
      BY <2>2 DEF SendsNow, Replaces
    <3>2. stack # <<>> /\ stack[1] = h /\ 1 \in 1 .. Len(stack)
      BY <3>1 DEF At, OnceInv, StackInv
    <3>3. tool # "none"
      BY <3>2 DEF OnceInv, SendOnce
    <3>. QED
      BY <2>1, <3>3 DEF KeepsCall
  <2>3. CASE ~SendsNow
    BY <1>1, <2>1, <2>3 DEF Inside, SendFails, SendLater, SendRefused, Proceeds, Fails, Judged, Creates, KeepsCall
  <2>. QED
    BY <2>2, <2>3
<1>2. CASE Rests \/ Starts \/ Reconnects \/ Repeats \/ Expires
  BY <1>2 DEF Rests, Starts, Reconnects, Repeats, Expires, KeepsCall
<1>3. CASE Runs \/ Over
  BY <1>3, ToolsAssumption DEF Runs, Over
<1>. QED
  BY <1>1, <1>2, <1>3 DEF OnceMoves

\* The types of the browser tools (BrowserTypeOK): of the frames that run, of what
\* they return, and that no operation is sent more than twice.
THEOREM BrowserTypeCorrect == BrowserSpec => []BrowserTypeOK
<1>. DEFINE TInv == StrayInv /\ OnceInv /\ Types
<1>1. BrowserInit => StrayInv /\ OnceInv
  BY NoneAssumption DEF BrowserInit, StrayInv, Alive, NoStrayChrome, StackInv, OnceInv
<1>2. BrowserInit => Types
  <2>. SUFFICES ASSUME BrowserInit PROVE Types
    OBVIOUS
  <2>1. PICK resident \in {None} \cup Chrome, t \in Tab :
           /\ tab = [u \in Tab |-> IF u = t THEN resident ELSE None]
           /\ port = resident
           /\ headless = {} \/ headless = {resident} \ {None}
    BY DEF BrowserInit
  <2>2. LinkTypes
    BY <2>1 DEF BrowserInit, LinkTypes
  <2>3. PageTypes /\ CallTypes /\ FaultTypes
    BY FaultsAssumption DEF BrowserInit, PageTypes, CallTypes, FaultTypes
  <2>4. FlagTypes
    BY DEF BrowserInit, FlagTypes
  <2>. QED
    BY <2>2, <2>3, <2>4 DEF Types
<1>3. TInv /\ [BrowserNext]_browserVars => TInv'
  <2>. SUFFICES ASSUME StrayInv, OnceInv, Types, [BrowserNext]_browserVars PROVE TInv'
    OBVIOUS
  <2>1. StrayInv' /\ OnceMoves /\ OnceInv'
    BY StrayInvInductive, OnceInvInductive
  <2>2. res' \in Outcome
    BY StepReturns DEF Types, CallTypes, Outcome
  <2>3. CallTypes'
    BY <2>1, <2>2, StepCallTypes DEF Types
  <2>. QED
    BY <2>1, <2>3, StepLinkTypes, StepPageTypes, StepFlagTypes, StepFaultTypes DEF Types
<1>4. TInv => BrowserTypeOK
  <2>. SUFFICES ASSUME StrayInv, OnceInv, Types PROVE BrowserTypeOK
    OBVIOUS
  <2>1. sends \in 0 .. 2
    <3>1. tool # "none" => stack # <<>>
      BY DEF OnceInv
    <3>2. Budget \in {1, 2} /\ sends \in Nat
      BY DEF OnceInv, Budget
    <3>3. tool = "none" => sends = 0
      BY DEF Types, CallTypes
    <3>. QED
      BY <3>1, <3>2, <3>3 DEF OnceInv
  <2>. QED
    BY <2>1 DEF StrayInv, StackInv, Types, LinkTypes, PageTypes, FlagTypes, CallTypes, FaultTypes, BrowserTypeOK
<1>. QED
  BY <1>1, <1>2, <1>3, <1>4, PTL DEF BrowserSpec
=============================================================================
