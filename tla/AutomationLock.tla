--------------------------- MODULE AutomationLock ---------------------------
(***************************************************************************)
(* The cross-process automation lock (crates/nuphus-mcp/src/               *)
(* automation_lock.rs): a lock file shared by the server processes of all  *)
(* agents.  One step is one file-system call of one thread, so every       *)
(* interleaving of acquire, heartbeat, reclaim and release is a behaviour. *)
(*                                                                         *)
(* Each process runs one tool call at a time (tools::execute holds a       *)
(* process-wide mutex around the lock), on its main thread; while it holds *)
(* the lock it also runs a heartbeat thread.                               *)
(*                                                                         *)
(* Time is relative: instead of expires_at and a clock, a record carries   *)
(* the seconds it has left, and Tick ages every record there is.           *)
(***************************************************************************)
EXTENDS Naturals

CONSTANTS
    Proc,       \* the server processes
    Token,      \* acquisition tokens (pid-counter-nanos in the code)
    NoToken,    \* "this process owns no guard"
    NoFile,     \* "there is no such file"
    TTL,        \* LOCK_TTL_SECS
    Interval,   \* HEARTBEAT_INTERVAL
    Attempts,   \* rounds of the acquire loop (3 in the code)
    Prompt,     \* TRUE: due heartbeats beat before time advances, and a stamped
                \* record is published with more than an Interval left
    MaxCrashes, \* bound: how many times a process may die, at any step
    IoFaults    \* TRUE: any file-system call may fail

\* A lock record: pid, tool and acquired_at only serve the busy message.
Record == [token : Token, left : 0 .. TTL]

ASSUME ConstantsAssumption ==
    /\ TTL \in Nat
    /\ Interval \in 1 .. (TTL - 1)
    /\ Attempts \in Nat \ {0}
    /\ MaxCrashes \in Nat
    /\ Prompt \in BOOLEAN /\ IoFaults \in BOOLEAN
    /\ NoToken \notin Token
    /\ NoFile \notin Record

VARIABLES
    path,       \* the lock file: a record, or NoFile
    pc,         \* main thread of each process: the call it performs next
    attempt,    \* the round of the acquire loop it is in
    scratch,    \* its private sibling file: the tmp file or the captured claim
    token,      \* the token of the LockGuard it owns
    beat,       \* the heartbeat thread: "off", "wait", "read" or "write"
    due,        \* seconds until its recv_timeout elapses
    renewal,    \* the renewed record it is about to rename into place
    crashes,    \* how many processes have died so far
    disturbed   \* history: another process moved or replaced a record whose
                \* owner was still running its tool call

vars == <<path, pc, attempt, scratch, token, beat, due, renewal, crashes, disturbed>>

Holding == {"held", "joining"}
Label == Holding \cup {"idle", "draft", "link", "inspect", "capture", "recheck",
                       "restore", "drop", "verify", "putback"}

Init ==
    /\ path = NoFile
    /\ pc = [p \in Proc |-> "idle"]
    /\ attempt = [p \in Proc |-> 1]
    /\ scratch = [p \in Proc |-> NoFile]
    /\ token = [p \in Proc |-> NoToken]
    /\ beat = [p \in Proc |-> "off"]
    /\ due = [p \in Proc |-> 0]
    /\ renewal = [p \in Proc |-> NoFile]
    /\ crashes = 0
    /\ disturbed = FALSE

heartbeatVars == <<beat, due, renewal>>
history == <<crashes, disturbed>>

Goto(p, label) == pc' = [pc EXCEPT ![p] = label]
SetScratch(p, file) == scratch' = [scratch EXCEPT ![p] = file]

Live(file) == file # NoFile /\ file.left > 0
Carries(file, t) == file # NoFile /\ file.token = t

\* A process runs a tool call under the guard that wrote this record.
Owned(file) == \E p \in Proc : pc[p] \in Holding /\ Carries(file, token[p])

\* A token no file and no guard carries: new_token never repeats one.
Fresh(t) ==
    /\ ~Carries(path, t)
    /\ \A p \in Proc : token[p] # t /\ ~Carries(scratch[p], t) /\ ~Carries(renewal[p], t)

NewToken == CHOOSE t \in Token : Fresh(t)

-----------------------------------------------------------------------------
(* acquire *)

\* tools::execute calls acquire for the next tool call.
Call(p) ==
    /\ pc[p] = "idle"
    /\ Goto(p, "draft")
    /\ attempt' = [attempt EXCEPT ![p] = 1]
    /\ UNCHANGED <<path, scratch, token, heartbeatVars, history>>

\* Mutant: the loop runs once too often.
OneAttemptMore(p) ==
    IF attempt[p] <= Attempts
    THEN Goto(p, "draft") /\ attempt' = [attempt EXCEPT ![p] = @ + 1]
    ELSE Goto(p, "idle") /\ UNCHANGED attempt

\* Mutant: the loop never gives up.
EndlessAttempts(p) == Goto(p, "draft") /\ UNCHANGED attempt

\* The loop goes round, or gives up after its last attempt.
NextAttempt(p) ==
    IF attempt[p] < Attempts
    THEN Goto(p, "draft") /\ attempt' = [attempt EXCEPT ![p] = @ + 1]
    ELSE Goto(p, "idle") /\ UNCHANGED attempt

\* publish_new, first half: stamp a record and write it to a private tmp file.
Draft(p) ==
    /\ pc[p] = "draft"
    /\ \/ /\ \E t \in Token : Fresh(t)
          /\ SetScratch(p, [token |-> NewToken, left |-> TTL])
          /\ Goto(p, "link")
       \/ IoFaults /\ Goto(p, "idle") /\ UNCHANGED scratch
    /\ UNCHANGED <<path, attempt, token, heartbeatVars, history>>

\* Mutant: the record is renamed into place over whatever is there.
LinkReplaces(p) ==
    /\ pc[p] = "link"
    /\ path' = scratch[p]
    /\ token' = [token EXCEPT ![p] = scratch[p].token]
    /\ SetScratch(p, NoFile)
    /\ Goto(p, "held")
    /\ beat' = [beat EXCEPT ![p] = "wait"]
    /\ due' = [due EXCEPT ![p] = Interval]
    /\ UNCHANGED <<attempt, renewal, history>>

\* publish_new, second half: hard_link succeeds only where no lock file exists;
\* LockGuard::new then starts the heartbeat thread.
LinkOk(p) ==
    /\ pc[p] = "link"
    /\ path = NoFile
    /\ path' = scratch[p]
    /\ token' = [token EXCEPT ![p] = scratch[p].token]
    /\ SetScratch(p, NoFile)
    /\ Goto(p, "held")
    /\ beat' = [beat EXCEPT ![p] = "wait"]
    /\ due' = [due EXCEPT ![p] = Interval]
    /\ UNCHANGED <<attempt, renewal, history>>

LinkFails(p) ==
    /\ pc[p] = "link"
    /\ \/ path # NoFile /\ Goto(p, "inspect")
       \/ IoFaults /\ Goto(p, "idle")
    /\ SetScratch(p, NoFile)
    /\ UNCHANGED <<path, attempt, token, heartbeatVars, history>>

\* Mutant: any readable record counts as a live holder.
InspectIgnoresExpiry(p) ==
    /\ pc[p] = "inspect"
    /\ \/ path # NoFile /\ Goto(p, "idle")
       \/ (path # NoFile => IoFaults) /\ Goto(p, "capture")
    /\ UNCHANGED <<path, attempt, scratch, token, heartbeatVars, history>>

\* The lock file existed: a live holder is reported busy; an expired record, or
\* one that can no longer be read, is to be reclaimed.
Inspect(p) ==
    /\ pc[p] = "inspect"
    /\ \/ Live(path) /\ Goto(p, "idle")
       \/ (Live(path) => IoFaults) /\ Goto(p, "capture")
    /\ UNCHANGED <<path, attempt, scratch, token, heartbeatVars, history>>

\* reclaim_stale renames whatever is at the path aside now.
Capture(p) ==
    /\ pc[p] = "capture"
    /\ path # NoFile
    /\ SetScratch(p, path)
    /\ path' = NoFile
    /\ Goto(p, "recheck")
    /\ disturbed' = (disturbed \/ Owned(path))
    /\ UNCHANGED <<attempt, token, heartbeatVars, crashes>>

CaptureFails(p) ==
    /\ pc[p] = "capture"
    /\ path = NoFile \/ IoFaults
    /\ NextAttempt(p)
    /\ UNCHANGED <<path, scratch, token, heartbeatVars, history>>

\* A captured record that is still stale (or unreadable) is deleted.
RecheckStale(p) ==
    /\ pc[p] = "recheck"
    /\ Live(scratch[p]) => IoFaults
    /\ SetScratch(p, NoFile)
    /\ NextAttempt(p)
    /\ UNCHANGED <<path, token, heartbeatVars, history>>

RecheckLive(p) ==
    /\ pc[p] = "recheck"
    /\ Live(scratch[p])
    /\ Goto(p, "restore")
    /\ UNCHANGED <<path, attempt, scratch, token, heartbeatVars, history>>

\* A record that turned out live is renamed back; fs::rename replaces a file
\* that was published at the path meanwhile.
Restore(p) ==
    /\ pc[p] = "restore"
    /\ \/ path' = scratch[p] /\ disturbed' = (disturbed \/ Owned(path))
       \/ IoFaults /\ UNCHANGED <<path, disturbed>>
    /\ SetScratch(p, NoFile)
    /\ NextAttempt(p)
    /\ UNCHANGED <<token, heartbeatVars, crashes>>

-----------------------------------------------------------------------------
(* Drop for LockGuard *)

\* The tool call returned, failed or panicked: the guard is dropped, which
\* disconnects the heartbeat's stop channel.
Finish(p) ==
    /\ pc[p] = "held"
    /\ Goto(p, "joining")
    /\ UNCHANGED <<path, attempt, scratch, token, heartbeatVars, history>>

\* Mutant: the guard does not wait for the heartbeat thread.
DropWithoutJoin(p) ==
    /\ pc[p] = "joining"
    /\ Goto(p, "drop")
    /\ UNCHANGED <<path, attempt, scratch, token, heartbeatVars, history>>

\* handle.join() waits for the heartbeat thread to end.
Join(p) ==
    /\ pc[p] = "joining"
    /\ beat[p] = "off"
    /\ Goto(p, "drop")
    /\ UNCHANGED <<path, attempt, scratch, token, heartbeatVars, history>>

\* release_owned captures whatever is at the path.
DropCapture(p) ==
    /\ pc[p] = "drop"
    /\ path # NoFile
    /\ SetScratch(p, path)
    /\ path' = NoFile
    /\ Goto(p, "verify")
    /\ disturbed' = (disturbed \/ Owned(path))
    /\ UNCHANGED <<attempt, token, heartbeatVars, crashes>>

DropNothing(p) ==
    /\ pc[p] = "drop"
    /\ path = NoFile \/ IoFaults
    /\ Goto(p, "idle")
    /\ token' = [token EXCEPT ![p] = NoToken]
    /\ UNCHANGED <<path, attempt, scratch, heartbeatVars, history>>

\* The captured record is deleted only when it carries the guard's token.
VerifyOwn(p) ==
    /\ pc[p] = "verify"
    /\ Carries(scratch[p], token[p])
    /\ SetScratch(p, NoFile)
    /\ token' = [token EXCEPT ![p] = NoToken]
    /\ Goto(p, "idle")
    /\ UNCHANGED <<path, attempt, heartbeatVars, history>>

VerifyForeign(p) ==
    /\ pc[p] = "verify"
    /\ Carries(scratch[p], token[p]) => IoFaults
    /\ Goto(p, "putback")
    /\ UNCHANGED <<path, attempt, scratch, token, heartbeatVars, history>>

\* Somebody else's record is renamed back, replacing what is at the path.
PutBack(p) ==
    /\ pc[p] = "putback"
    /\ \/ path' = scratch[p] /\ disturbed' = (disturbed \/ Owned(path))
       \/ IoFaults /\ UNCHANGED <<path, disturbed>>
    /\ SetScratch(p, NoFile)
    /\ token' = [token EXCEPT ![p] = NoToken]
    /\ Goto(p, "idle")
    /\ UNCHANGED <<attempt, heartbeatVars, crashes>>

-----------------------------------------------------------------------------
(* The heartbeat thread *)

\* recv_timeout elapses, unless the channel was disconnected first.
BeatDue(p) ==
    /\ beat[p] = "wait" /\ due[p] = 0 /\ pc[p] = "held"
    /\ beat' = [beat EXCEPT ![p] = "read"]
    /\ UNCHANGED <<path, pc, attempt, scratch, token, due, renewal, history>>

\* Mutant: the record is written again without a new expiry.
BeatReadKeepsExpiry(p) ==
    /\ beat[p] = "read"
    /\ \/ /\ Carries(path, token[p])
          /\ beat' = [beat EXCEPT ![p] = "write"]
          /\ renewal' = [renewal EXCEPT ![p] = path]
       \/ /\ Carries(path, token[p]) => IoFaults
          /\ beat' = [beat EXCEPT ![p] = "off"]
          /\ UNCHANGED renewal
    /\ UNCHANGED <<path, pc, attempt, scratch, token, due, history>>

\* renew reads the lock file: while it is ours, a renewed record is written to a
\* private file, otherwise the thread ends.
BeatRead(p) ==
    /\ beat[p] = "read"
    /\ \/ /\ Carries(path, token[p])
          /\ beat' = [beat EXCEPT ![p] = "write"]
          /\ renewal' = [renewal EXCEPT ![p] = [path EXCEPT !.left = TTL]]
       \/ /\ Carries(path, token[p]) => IoFaults
          /\ beat' = [beat EXCEPT ![p] = "off"]
          /\ UNCHANGED renewal
    /\ UNCHANGED <<path, pc, attempt, scratch, token, due, history>>

\* The renewed record replaces the lock file, whoever's it is by now.
BeatWrite(p) ==
    /\ beat[p] = "write"
    /\ path' = renewal[p]
    /\ beat' = [beat EXCEPT ![p] = "wait"]
    /\ due' = [due EXCEPT ![p] = Interval]
    /\ renewal' = [renewal EXCEPT ![p] = NoFile]
    /\ disturbed' = (disturbed \/ (Owned(path) /\ ~Carries(path, token[p])))
    /\ UNCHANGED <<pc, attempt, scratch, token, crashes>>

\* Writing the private file failed (retry next beat) or the rename did (stop).
BeatWriteFails(p) ==
    /\ beat[p] = "write" /\ IoFaults
    /\ \E next \in {"wait", "off"} : beat' = [beat EXCEPT ![p] = next]
    /\ due' = [due EXCEPT ![p] = Interval]
    /\ renewal' = [renewal EXCEPT ![p] = NoFile]
    /\ UNCHANGED <<path, pc, attempt, scratch, token, history>>

\* Mutant: the guard keeps the sender alive while it joins.
BeatNeverStops(p) ==
    /\ beat[p] = "wait" /\ pc[p] = "joining" /\ IoFaults
    /\ beat' = [beat EXCEPT ![p] = "off"]
    /\ UNCHANGED <<path, pc, attempt, scratch, token, due, renewal, history>>

\* The stop channel is disconnected: the thread ends.
BeatStop(p) ==
    /\ beat[p] = "wait" /\ pc[p] = "joining"
    /\ beat' = [beat EXCEPT ![p] = "off"]
    /\ UNCHANGED <<path, pc, attempt, scratch, token, due, renewal, history>>

-----------------------------------------------------------------------------
(* Time and crashes *)

Less(n) == IF n = 0 THEN 0 ELSE n - 1
Aged(file) == IF file = NoFile THEN NoFile ELSE [file EXCEPT !.left = Less(@)]
LinkPending(p) == pc[p] = "link" /\ scratch[p].left <= Interval + 1
BeatPending(p) ==
    beat[p] \in {"read", "write"} \/ (beat[p] = "wait" /\ due[p] = 0 /\ pc[p] = "held")

\* One second passes on the machine.
Tick ==
    /\ Prompt => \A p \in Proc : ~LinkPending(p) /\ ~BeatPending(p)
    /\ path' = Aged(path)
    /\ scratch' = [p \in Proc |-> Aged(scratch[p])]
    /\ renewal' = [p \in Proc |-> Aged(renewal[p])]
    /\ due' = [p \in Proc |-> Less(due[p])]
    /\ UNCHANGED <<pc, attempt, token, beat, history>>

\* The process dies and is started again: both threads are gone, its private
\* files are litter nobody reads, and its lock record stays behind.
Crash(p) ==
    /\ crashes < MaxCrashes
    /\ pc[p] # "idle"
    /\ crashes' = crashes + 1
    /\ Goto(p, "idle")
    /\ SetScratch(p, NoFile)
    /\ token' = [token EXCEPT ![p] = NoToken]
    /\ beat' = [beat EXCEPT ![p] = "off"]
    /\ due' = [due EXCEPT ![p] = 0]
    /\ renewal' = [renewal EXCEPT ![p] = NoFile]
    /\ UNCHANGED <<path, attempt, disturbed>>

-----------------------------------------------------------------------------
Acquire(p) ==
    \/ Draft(p) \/ LinkOk(p) \/ LinkFails(p) \/ Inspect(p) \/ Capture(p) \/ CaptureFails(p)
    \/ RecheckStale(p) \/ RecheckLive(p) \/ Restore(p)

Release(p) ==
    \/ Join(p) \/ DropCapture(p) \/ DropNothing(p)
    \/ VerifyOwn(p) \/ VerifyForeign(p) \/ PutBack(p)

Heartbeat(p) == BeatDue(p) \/ BeatRead(p) \/ BeatWrite(p) \/ BeatWriteFails(p) \/ BeatStop(p)

Next ==
    \/ \E p \in Proc :
          Call(p) \/ Acquire(p) \/ Finish(p) \/ Release(p) \/ Heartbeat(p) \/ Crash(p)
    \/ Tick

Spec == Init /\ [][Next]_vars

\* Threads are scheduled, time passes, and agents keep calling tools; a tool
\* call may run for ever, and nobody has to crash.
Fairness ==
    /\ \A p \in Proc : WF_vars(Call(p)) /\ WF_vars(Acquire(p)) /\ WF_vars(Release(p))
                       /\ WF_vars(Heartbeat(p))
    /\ WF_vars(Tick)

FairSpec == Spec /\ Fairness

-----------------------------------------------------------------------------
(* What the lock promises *)

TypeOK ==
    /\ path \in Record \cup {NoFile}
    /\ pc \in [Proc -> Label]
    /\ attempt \in [Proc -> 1 .. Attempts]
    /\ scratch \in [Proc -> Record \cup {NoFile}]
    /\ token \in [Proc -> Token \cup {NoToken}]
    /\ beat \in [Proc -> {"off", "wait", "read", "write"}]
    /\ due \in [Proc -> 0 .. Interval]
    /\ renewal \in [Proc -> Record \cup {NoFile}]
    /\ crashes \in 0 .. MaxCrashes
    /\ disturbed \in BOOLEAN

\* At most one process runs an automation call at any moment (lines 3-5).
MutualExclusion == \A p, q \in Proc : pc[p] = "held" /\ pc[q] = "held" => p = q

\* Publishing, inspecting, renewing, releasing, time, crashes and failing file
\* calls never let two processes in: exclusion lasts as long as nobody displaces
\* the record of a running call, as reclaim and release can (lines 256-300).
ExclusionUntilDisturbed ==
    ~disturbed => \A p, q \in Proc : pc[p] \in Holding /\ pc[q] \in Holding => p = q

\* Once the guard is past join no heartbeat of its process exists, so no renewal
\* can bring the record back after it was released (lines 191-201).
NoRenewalAfterRelease ==
    \A p \in Proc : beat[p] # "off" => pc[p] \in Holding

\* While heartbeats are on time and file calls work, a running call's record is
\* in place and unexpired until another process displaces it (lines 302-364).
LeaseKeptUntilDisturbed ==
    Prompt /\ ~IoFaults /\ ~disturbed =>
        \A p \in Proc : pc[p] = "held" => Carries(path, token[p]) /\ Live(path)

\* A record nobody owns, left by a crash or by a put-back, does not stay for
\* ever: its TTL expires and some later call reclaims it (lines 16-17).
Orphaned == path # NoFile /\ \A p \in Proc : ~Carries(path, token[p])
CrashRecovery == Orphaned ~> ~Orphaned

\* acquire never blocks: whatever the others do, every call gets the lock or a
\* refusal (lines 119-159).
AcquireTerminates ==
    \A p \in Proc : pc[p] = "draft" ~> pc[p] \in {"held", "idle"}

\* Dropping the guard ends: the join does not wait for a heartbeat that waits
\* for its next beat (lines 191-201).
ReleaseTerminates == \A p \in Proc : pc[p] = "joining" ~> pc[p] = "idle"

\* A long call cannot outlive its own lock (lines 23-25): while heartbeats are
\* on time and file calls work, the record of a running call, wherever other
\* processes have moved it, has not expired.
LongCallKeepsLock ==
    Prompt /\ ~IoFaults =>
        \A p \in Proc : pc[p] = "held" =>
            \E file \in {path} \cup {scratch[q] : q \in Proc} :
                Carries(file, token[p]) /\ Live(file)

\* A late drop never destroys the record another process has freshly published
\* (lines 28-32): what it captured goes back only to a path that is free.
LateDropSparesOthers ==
    [][\A p \in Proc : PutBack(p) => ~Owned(path) \/ path' = path]_vars
=============================================================================
