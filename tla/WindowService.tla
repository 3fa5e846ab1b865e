---------------------------- MODULE WindowService ----------------------------
(***************************************************************************)
(* The native window service of macOS (crates/desktop-api/src/platform/    *)
(* macos.rs): one thread keeps the table of windows behind the handles the *)
(* rest of the program knows, and does what callers on other threads send  *)
(* it, one job after the other.  A caller waits fifteen seconds; its job   *)
(* may still be in the queue then, or under way.                           *)
(***************************************************************************)
EXTENDS Naturals, Sequences, FiniteSets

CONSTANTS
    Native,             \* native windows
    Callers,            \* bound: how many threads call at once
    Nothing,
    MaxHandle,          \* the last handle (i32::MAX)
    Looks,              \* how often an activation looks for the focus (10)
    MaxJobs             \* bound: jobs sent

ASSUME ServiceAssumption == Nothing \notin Native /\ Callers \in Nat /\ MaxHandle \in Nat /\ Looks \in Nat \ {0} /\ MaxJobs \in Nat

VARIABLES
    there, focus,       \* native windows there are; the focused one
    table, nextHandle,  \* State.windows, of each handle its window; State.next
    queue, job,         \* jobs [id, op, handle, late]; the one under way
    looks,              \* left, for the window to become the focused one
    listed,             \* handles met in the enumeration under way
    awaiting,           \* jobs a caller waits for
    owner,              \* history, of each handle: the window it was made for
    ran,                \* history: whether a caller waited for the job that began last
    jobs                \* jobs sent

serviceVars == <<there, focus, table, nextHandle, queue, job, looks, listed, awaiting, owner, ran, jobs>>

NoJob == [op |-> "none"]
Handles == 1 .. MaxHandle
Used == {h \in Handles : table[h] # Nothing}

-----------------------------------------------------------------------------
(* call *)

Call(op, h) ==
    /\ Cardinality(awaiting) < Callers /\ jobs < MaxJobs
    /\ jobs' = jobs + 1
    /\ awaiting' = awaiting \cup {jobs'}
    /\ queue' = Append(queue, [id |-> jobs', op |-> op, handle |-> h, late |-> FALSE])
    /\ UNCHANGED <<there, focus, table, nextHandle, job, looks, listed, owner, ran>>

\* Fifteen seconds after it was sent.
DeadlinePassed(i) ==
    /\ i \in DOMAIN queue /\ ~queue[i].late
    /\ queue' = [queue EXCEPT ![i].late = TRUE]
    /\ UNCHANGED <<there, focus, table, nextHandle, job, looks, listed, awaiting, owner, ran, jobs>>

\* recv_timeout: the wait of fifteen seconds begins after the deadline was set.
WaitEnds(id) ==
    /\ id \in awaiting
    /\ \A i \in DOMAIN queue : queue[i].id = id => queue[i].late
    /\ awaiting' = awaiting \ {id}
    /\ UNCHANGED <<there, focus, table, nextHandle, queue, job, looks, listed, owner, ran, jobs>>

-----------------------------------------------------------------------------
(* The thread. *)

\* Mutant: a job is done whatever the time.
NeverLate(j) == FALSE

TooLate(j) == j.late

Receive ==
    /\ job = NoJob /\ queue # <<>>
    /\ queue' = Tail(queue)
    /\ IF TooLate(Head(queue))
       THEN UNCHANGED <<job, ran>>
       ELSE job' = Head(queue) /\ ran' = (Head(queue).id \in awaiting)
    /\ UNCHANGED <<there, focus, table, nextHandle, looks, listed, awaiting, owner, jobs>>

Answer ==
    /\ job' = NoJob /\ looks' = 0 /\ listed' = {}
    /\ awaiting' = awaiting \ {job.id}

\* Mutant: handles are counted from the table, so a dropped one comes back.
CountedHandle == Cardinality(Used) + 1

NewHandle == nextHandle + 1

\* register: the window's handle, or a new one while there are any.
Register(w) ==
    \/ (\E h \in Used : table[h] = w) /\ UNCHANGED <<table, owner, nextHandle>>
    \/ /\ \A h \in Used : table[h] # w
       /\ NewHandle <= MaxHandle
       /\ nextHandle' = NewHandle
       /\ table' = [table EXCEPT ![NewHandle] = w]
       /\ owner' = [owner EXCEPT ![NewHandle] = IF @ = Nothing THEN w ELSE @]

\* refresh: window after window, of the processes that answer; its properties may
\* be denied.
Lists(w) ==
    /\ job.op = "list" /\ w \in there
    /\ Register(w)
    /\ listed' \in {listed, listed \cup {h \in Handles : table'[h] = w}}
    /\ UNCHANGED <<there, focus, queue, job, looks, awaiting, ran, jobs>>

\* Handles that were not met are dropped, unless it fails or runs out of time.
ListEnds ==
    /\ job.op = "list"
    /\ \/ table' = [h \in Handles |-> IF h \in listed THEN table[h] ELSE Nothing]
       \/ UNCHANGED table
    /\ Answer /\ UNCHANGED <<there, focus, nextHandle, queue, owner, ran, jobs>>

\* foreground
Foreground ==
    \/ focus # Nothing /\ Register(focus)
    \/ UNCHANGED <<table, owner, nextHandle>>

AsksForeground ==
    /\ job.op = "foreground" /\ Foreground
    /\ Answer /\ UNCHANGED <<there, focus, queue, ran, jobs>>

\* window_activate: the window is raised, and the focus looked at, and again.
Activate ==
    /\ job.op = "activate" /\ looks = 0
    /\ \/ /\ table[job.handle] \in there
          /\ focus' = table[job.handle] /\ looks' = Looks /\ UNCHANGED <<job, listed, awaiting>>
       \/ Answer /\ UNCHANGED focus
    /\ UNCHANGED <<there, table, nextHandle, queue, owner, ran, jobs>>

LooksAgain ==
    /\ job.op = "activate" /\ looks > 0
    /\ Foreground
    /\ \/ Answer
       \/ looks > 1 /\ focus # table[job.handle] /\ looks' = looks - 1 /\ UNCHANGED <<job, listed, awaiting>>
    /\ UNCHANGED <<there, focus, queue, ran, jobs>>

\* window_info, accessibility_target, set_pair: the window behind a handle, or none.
Inspect ==
    /\ job.op = "inspect"
    /\ Answer /\ UNCHANGED <<there, focus, table, nextHandle, queue, owner, ran, jobs>>

Thread ==
    \/ Receive \/ ListEnds \/ AsksForeground \/ Activate \/ LooksAgain \/ Inspect
    \/ \E w \in Native : Lists(w)

-----------------------------------------------------------------------------
NativeOpens(w) ==
    /\ w \notin there /\ \A h \in Handles : owner[h] # w
    /\ there' = there \cup {w} /\ focus' = w
    /\ UNCHANGED <<table, nextHandle, queue, job, looks, listed, awaiting, owner, ran, jobs>>

NativeCloses(w) ==
    /\ w \in there
    /\ there' = there \ {w} /\ focus' = IF focus = w THEN Nothing ELSE focus
    /\ UNCHANGED <<table, nextHandle, queue, job, looks, listed, awaiting, owner, ran, jobs>>

ServiceInit ==
    /\ there = {} /\ focus = Nothing
    /\ table = [h \in Handles |-> Nothing] /\ owner = table /\ nextHandle = 0
    /\ queue = <<>> /\ job = NoJob /\ looks = 0 /\ listed = {} /\ awaiting = {}
    /\ ran = TRUE /\ jobs = 0

ServiceNext ==
    \/ \E h \in Handles : Call("activate", h) \/ Call("inspect", h)
    \/ Call("list", 0) \/ Call("foreground", 0)
    \/ \E i \in 1 .. MaxJobs : DeadlinePassed(i) \/ WaitEnds(i)
    \/ Thread
    \/ \E w \in Native : NativeOpens(w) \/ NativeCloses(w)

ServiceSpec == ServiceInit /\ [][ServiceNext]_serviceVars

-----------------------------------------------------------------------------
ServiceTypeOK ==
    /\ there \subseteq Native /\ focus \in there \cup {Nothing}
    /\ table \in [Handles -> Native \cup {Nothing}] /\ owner \in [Handles -> Native \cup {Nothing}]
    /\ nextHandle \in 0 .. MaxHandle /\ awaiting \subseteq 1 .. MaxJobs 
    /\ looks \in 0 .. Looks /\ listed \subseteq Handles

\* A job whose client has been told that it timed out does not begin ("A timed-out
\* queued action must never execute later", macos.rs 292-295).
NoLateStart == ran

\* A handle denotes the window it was made for or none, and a window has one
\* handle, whichever lists, losses and activations lie between (register 161-187,
\* refresh 241).
HandleIsForever ==
    /\ \A h \in Used : table[h] = owner[h]
    /\ \A g, h \in Used : table[g] = table[h] => g = h
=============================================================================
