---------------------- MODULE AutomationLockProofs ----------------------
(***************************************************************************)
(* Proofs about AutomationLock, for every set of processes, TTL, interval  *)
(* and number of attempts: type correctness, exclusion and the absence of  *)
(* late renewals, and the heartbeat keeping the lease.                     *)
(***************************************************************************)
EXTENDS AutomationLock, TLAPS

USE ConstantsAssumption DEF Record, Label, Holding, heartbeatVars, history

\* Ageing a file leaves its token alone.
LEMMA AgedFile ==
    ASSUME NEW file \in Record \cup {NoFile}
    PROVE  /\ Aged(file) \in Record \cup {NoFile}
           /\ Aged(file) = NoFile <=> file = NoFile
           /\ file # NoFile => /\ Aged(file).token = file.token
                               /\ file.left > 0 => Aged(file).left = file.left - 1
BY DEF Aged, Less

\* What the main threads and heartbeats keep at hand in each state.
Shape(p) ==
    /\ pc[p] \in {"link", "recheck", "restore", "verify", "putback"} => scratch[p] # NoFile
    /\ pc[p] \in Holding => token[p] \in Token
    /\ beat[p] # "off" => pc[p] \in Holding
    /\ beat[p] = "write" => Carries(renewal[p], token[p])

TypeInv == TypeOK /\ \A p \in Proc : Shape(p)

\* Wherever the acquire loop goes on, it stays within its attempts.
LEMMA NextAttemptType ==
    ASSUME TypeOK, NEW p \in Proc, NextAttempt(p)
    PROVE  /\ attempt' \in [Proc -> 1 .. Attempts]
           /\ \E label \in {"draft", "idle"} : pc' = [pc EXCEPT ![p] = label]
BY DEF TypeOK, NextAttempt, Goto

LEMMA TypeInvStep == TypeInv /\ [Next]_vars => TypeInv'
<1> SUFFICES ASSUME TypeInv, [Next]_vars PROVE TypeInv'
  OBVIOUS
<1> USE DEF TypeInv, TypeOK, Shape, Goto, SetScratch, NextAttempt
<1>1. ASSUME NEW p \in Proc, Call(p) PROVE TypeInv'
  BY <1>1 DEF Call, Carries
<1>2. ASSUME NEW p \in Proc, Draft(p) PROVE TypeInv'
  BY <1>2 DEF Draft, NewToken
<1>3. ASSUME NEW p \in Proc, LinkOk(p) PROVE TypeInv'
  BY <1>3 DEF LinkOk, Carries
<1>4. ASSUME NEW p \in Proc, LinkFails(p) PROVE TypeInv'
  BY <1>4 DEF LinkFails, Carries
<1>5. ASSUME NEW p \in Proc, Inspect(p) PROVE TypeInv'
  BY <1>5 DEF Inspect, Carries
<1>6. ASSUME NEW p \in Proc, Capture(p) PROVE TypeInv'
  BY <1>6 DEF Capture, Carries
<1>7. ASSUME NEW p \in Proc, CaptureFails(p) PROVE TypeInv'
  BY <1>7 DEF CaptureFails, Carries
<1>8. ASSUME NEW p \in Proc, RecheckStale(p) PROVE TypeInv'
  BY <1>8 DEF RecheckStale, Carries
<1>9. ASSUME NEW p \in Proc, RecheckLive(p) PROVE TypeInv'
  BY <1>9 DEF RecheckLive, Carries
<1>10. ASSUME NEW p \in Proc, Restore(p) PROVE TypeInv'
  <2>1. /\ path' \in Record \cup {NoFile} /\ disturbed' \in BOOLEAN
        /\ scratch' = [scratch EXCEPT ![p] = NoFile]
        /\ UNCHANGED <<token, beat, due, renewal, crashes>>
    BY <1>10 DEF Restore
  <2>2. /\ attempt' \in [Proc -> 1 .. Attempts]
        /\ \E label \in {"draft", "idle"} : pc' = [pc EXCEPT ![p] = label]
    BY <1>10, NextAttemptType DEF Restore
  <2>3. pc[p] = "restore"
    BY <1>10 DEF Restore
  <2> QED
    BY <2>1, <2>2, <2>3 DEF Carries
<1>11. ASSUME NEW p \in Proc, Finish(p) PROVE TypeInv'
  BY <1>11 DEF Finish, Carries
<1>12. ASSUME NEW p \in Proc, Join(p) PROVE TypeInv'
  BY <1>12 DEF Join, Carries
<1>13. ASSUME NEW p \in Proc, DropCapture(p) PROVE TypeInv'
  BY <1>13 DEF DropCapture, Carries
<1>14. ASSUME NEW p \in Proc, DropNothing(p) PROVE TypeInv'
  BY <1>14 DEF DropNothing, Carries
<1>15. ASSUME NEW p \in Proc, VerifyOwn(p) PROVE TypeInv'
  BY <1>15 DEF VerifyOwn, Carries
<1>16. ASSUME NEW p \in Proc, VerifyForeign(p) PROVE TypeInv'
  BY <1>16 DEF VerifyForeign, Carries
<1>17. ASSUME NEW p \in Proc, PutBack(p) PROVE TypeInv'
  BY <1>17 DEF PutBack, Carries
<1>18. ASSUME NEW p \in Proc, BeatDue(p) PROVE TypeInv'
  BY <1>18 DEF BeatDue, Carries
<1>19. ASSUME NEW p \in Proc, BeatRead(p) PROVE TypeInv'
  BY <1>19 DEF BeatRead, Carries
<1>20. ASSUME NEW p \in Proc, BeatWrite(p) PROVE TypeInv'
  BY <1>20 DEF BeatWrite, Carries
<1>21. ASSUME NEW p \in Proc, BeatWriteFails(p) PROVE TypeInv'
  BY <1>21 DEF BeatWriteFails, Carries
<1>22. ASSUME NEW p \in Proc, BeatStop(p) PROVE TypeInv'
  BY <1>22 DEF BeatStop, Carries
<1>23. ASSUME NEW p \in Proc, Crash(p) PROVE TypeInv'
  BY <1>23 DEF Crash, Carries
<1>24. CASE Tick
  BY <1>24, AgedFile DEF Tick, Less, Carries
<1>25. CASE UNCHANGED vars
  BY <1>25 DEF vars, Carries
<1> QED
  BY <1>1, <1>2, <1>3, <1>4, <1>5, <1>6, <1>7, <1>8, <1>9, <1>10, <1>11,
     <1>12, <1>13, <1>14, <1>15, <1>16, <1>17, <1>18, <1>19, <1>20, <1>21,
     <1>22, <1>23, <1>24, <1>25 DEF Next, Acquire, Release, Heartbeat

LEMMA TypeInvHolds == Spec => []TypeInv
<1>1. Init => TypeInv
  <2> SUFFICES ASSUME Init PROVE TypeInv
    OBVIOUS
  <2>1. TypeOK
    <3>1. /\ path \in Record \cup {NoFile} /\ crashes \in 0 .. MaxCrashes
          /\ pc \in [Proc -> Label] /\ token \in [Proc -> Token \cup {NoToken}]
      BY DEF Init
    <3>4. disturbed \in BOOLEAN
      BY DEF Init
    <3>2. /\ attempt \in [Proc -> 1 .. Attempts]
          /\ due \in [Proc -> 0 .. Interval]
      BY DEF Init
    <3>3. /\ scratch \in [Proc -> Record \cup {NoFile}]
          /\ renewal \in [Proc -> Record \cup {NoFile}]
          /\ beat \in [Proc -> {"off", "wait", "read", "write"}]
      BY DEF Init
    <3> QED
      BY <3>1, <3>2, <3>3, <3>4 DEF TypeOK
  <2>2. \A p \in Proc : Shape(p)
    BY DEF Init, Shape
  <2> QED
    BY <2>1, <2>2 DEF TypeInv
<1> QED
  BY <1>1, TypeInvStep, PTL DEF Spec

\* Every variable keeps its type.
THEOREM TypeCorrect == Spec => []TypeOK
<1>1. TypeInv => TypeOK
  BY DEF TypeInv
<1> QED
  BY <1>1, TypeInvHolds, PTL

\* No heartbeat thread of a process outlives the join in its guard's drop.
THEOREM NoLateRenewal == Spec => []NoRenewalAfterRelease
<1>1. TypeInv => NoRenewalAfterRelease
  BY DEF TypeInv, Shape, NoRenewalAfterRelease
<1> QED
  BY <1>1, TypeInvHolds, PTL

-----------------------------------------------------------------------------
(* Exclusion: until a running call's record is displaced, it stands at the  *)
(* path, so that nobody else can publish one.                               *)

ExclusionInv ==
    ~disturbed =>
        /\ \A p \in Proc : pc[p] \in Holding => Carries(path, token[p])
        /\ \A p, q \in Proc : pc[p] \in Holding /\ pc[q] \in Holding => p = q

LEMMA ExclusionStep == TypeInv /\ ExclusionInv /\ [Next]_vars => ExclusionInv'
<1> SUFFICES ASSUME TypeInv, ExclusionInv, [Next]_vars PROVE ExclusionInv'
  OBVIOUS
<1> USE DEF TypeInv, TypeOK, Shape, ExclusionInv, Goto, SetScratch, NextAttempt
<1>1. ASSUME NEW p \in Proc, Call(p) PROVE ExclusionInv'
  BY <1>1 DEF Call, Carries
<1>2. ASSUME NEW p \in Proc, Draft(p) PROVE ExclusionInv'
  BY <1>2 DEF Draft, Carries
<1>3. ASSUME NEW p \in Proc, LinkOk(p) PROVE ExclusionInv'
  BY <1>3 DEF LinkOk, Carries
<1>4. ASSUME NEW p \in Proc, LinkFails(p) PROVE ExclusionInv'
  BY <1>4 DEF LinkFails, Carries
<1>5. ASSUME NEW p \in Proc, Inspect(p) PROVE ExclusionInv'
  BY <1>5 DEF Inspect, Carries
<1>6. ASSUME NEW p \in Proc, Capture(p) PROVE ExclusionInv'
  <2>1. ~disturbed' => ~disturbed /\ ~Owned(path)
    BY <1>6 DEF Capture
  <2>2. ~disturbed' => \A q \in Proc : pc[q] \notin Holding
    BY <2>1 DEF Owned
  <2>3. \A q \in Proc : pc'[q] \in Holding => pc[q] \in Holding
    BY <1>6 DEF Capture
  <2> QED
    BY <2>2, <2>3
<1>7. ASSUME NEW p \in Proc, CaptureFails(p) PROVE ExclusionInv'
  BY <1>7 DEF CaptureFails, Carries
<1>8. ASSUME NEW p \in Proc, RecheckStale(p) PROVE ExclusionInv'
  BY <1>8 DEF RecheckStale, Carries
<1>9. ASSUME NEW p \in Proc, RecheckLive(p) PROVE ExclusionInv'
  BY <1>9 DEF RecheckLive, Carries
<1>10. ASSUME NEW p \in Proc, Restore(p) PROVE ExclusionInv'
  <2>1. \/ path' = path /\ disturbed' = disturbed
        \/ ~disturbed' => ~disturbed /\ ~Owned(path)
    BY <1>10 DEF Restore
  <2>2. \A q \in Proc : pc'[q] \in Holding => pc[q] \in Holding /\ token'[q] = token[q]
    BY <1>10, NextAttemptType DEF Restore
  <2>3. CASE path' = path /\ disturbed' = disturbed
    BY <2>2, <2>3 DEF Carries
  <2>4. CASE ~disturbed' => ~disturbed /\ ~Owned(path)
    BY <2>2, <2>4 DEF Owned
  <2> QED
    BY <2>1, <2>3, <2>4
<1>11. ASSUME NEW p \in Proc, Finish(p) PROVE ExclusionInv'
  BY <1>11 DEF Finish, Carries
<1>12. ASSUME NEW p \in Proc, Join(p) PROVE ExclusionInv'
  BY <1>12 DEF Join, Carries
<1>13. ASSUME NEW p \in Proc, DropCapture(p) PROVE ExclusionInv'
  <2>1. ~disturbed' => ~disturbed /\ ~Owned(path)
    BY <1>13 DEF DropCapture
  <2>2. ~disturbed' => \A q \in Proc : pc[q] \notin Holding
    BY <2>1 DEF Owned
  <2>3. \A q \in Proc : pc'[q] \in Holding => pc[q] \in Holding
    BY <1>13 DEF DropCapture
  <2> QED
    BY <2>2, <2>3
<1>14. ASSUME NEW p \in Proc, DropNothing(p) PROVE ExclusionInv'
  BY <1>14 DEF DropNothing, Carries
<1>15. ASSUME NEW p \in Proc, VerifyOwn(p) PROVE ExclusionInv'
  BY <1>15 DEF VerifyOwn, Carries
<1>16. ASSUME NEW p \in Proc, VerifyForeign(p) PROVE ExclusionInv'
  BY <1>16 DEF VerifyForeign, Carries
<1>17. ASSUME NEW p \in Proc, PutBack(p) PROVE ExclusionInv'
  <2>1. \/ path' = path /\ disturbed' = disturbed
        \/ ~disturbed' => ~disturbed /\ ~Owned(path)
    BY <1>17 DEF PutBack
  <2>2. \A q \in Proc : pc'[q] \in Holding => pc[q] \in Holding /\ token'[q] = token[q]
    BY <1>17 DEF PutBack
  <2>3. CASE path' = path /\ disturbed' = disturbed
    BY <2>2, <2>3 DEF Carries
  <2>4. CASE ~disturbed' => ~disturbed /\ ~Owned(path)
    BY <2>2, <2>4 DEF Owned
  <2> QED
    BY <2>1, <2>3, <2>4
<1>18. ASSUME NEW p \in Proc, BeatDue(p) PROVE ExclusionInv'
  BY <1>18 DEF BeatDue, Carries
<1>19. ASSUME NEW p \in Proc, BeatRead(p) PROVE ExclusionInv'
  BY <1>19 DEF BeatRead, Carries
<1>20. ASSUME NEW p \in Proc, BeatWrite(p) PROVE ExclusionInv'
  BY <1>20 DEF BeatWrite, Carries, Owned
<1>21. ASSUME NEW p \in Proc, BeatWriteFails(p) PROVE ExclusionInv'
  BY <1>21 DEF BeatWriteFails, Carries
<1>22. ASSUME NEW p \in Proc, BeatStop(p) PROVE ExclusionInv'
  BY <1>22 DEF BeatStop, Carries
<1>23. ASSUME NEW p \in Proc, Crash(p) PROVE ExclusionInv'
  BY <1>23 DEF Crash, Carries
<1>24. CASE Tick
  BY <1>24, AgedFile DEF Tick, Carries
<1>25. CASE UNCHANGED vars
  BY <1>25 DEF vars, Carries
<1> QED
  BY <1>1, <1>2, <1>3, <1>4, <1>5, <1>6, <1>7, <1>8, <1>9, <1>10, <1>11,
     <1>12, <1>13, <1>14, <1>15, <1>16, <1>17, <1>18, <1>19, <1>20, <1>21,
     <1>22, <1>23, <1>24, <1>25 DEF Next, Acquire, Release, Heartbeat

\* Exclusion holds for as long as no running call's record is displaced.
THEOREM Exclusion == Spec => []ExclusionUntilDisturbed
<1>1. Init => ExclusionInv
  BY DEF Init, ExclusionInv
<1>2. ExclusionInv => ExclusionUntilDisturbed
  BY DEF ExclusionInv, ExclusionUntilDisturbed
<1> QED
  BY <1>1, <1>2, TypeInvHolds, ExclusionStep, PTL DEF Spec

-----------------------------------------------------------------------------
(* The lease: a record is published with more than an interval left, and a   *)
(* heartbeat renews it before what it has left reaches its next beat.        *)

Lease(p) ==
    /\ beat[p] \in {"wait", "read", "write"}
    /\ beat[p] = "wait" => path.left > due[p]
    /\ beat[p] # "wait" => path.left > 0
    /\ beat[p] = "write" => renewal[p].left = TTL

LeaseInv ==
    Prompt /\ ~IoFaults =>
        /\ \A p \in Proc : pc[p] = "link" => scratch[p].left > Interval
        /\ ~disturbed => \A p \in Proc : pc[p] = "held" => Lease(p)


\* No step of the acquire loop that publishes nothing disturbs the lease.
LEMMA LeaseFrame ==
    ASSUME TypeInv, ExclusionInv, LeaseInv, NEW p \in Proc,
           NextAttempt(p),
           scratch' = scratch \/ scratch' = [scratch EXCEPT ![p] = NoFile],
           UNCHANGED <<beat, due, renewal>>,
           (path' = path /\ disturbed' = disturbed) \/ (~disturbed' => ~disturbed /\ ~Owned(path))
    PROVE  LeaseInv'
<1>1. \E label \in {"draft", "idle"} : pc' = [pc EXCEPT ![p] = label]
  BY NextAttemptType DEF TypeInv
<1>2. \A q \in Proc : pc'[q] = "link" => pc[q] = "link" /\ scratch'[q] = scratch[q]
  BY <1>1 DEF TypeInv, TypeOK
<1>3. \A q \in Proc : pc'[q] = "held" => pc[q] = "held"
  BY <1>1 DEF TypeInv, TypeOK
<1>4. CASE path' = path /\ disturbed' = disturbed
  BY <1>2, <1>3, <1>4 DEF LeaseInv, Lease
<1>5. CASE ~disturbed' => ~disturbed /\ ~Owned(path)
  BY <1>2, <1>3, <1>5 DEF LeaseInv, ExclusionInv, Owned
<1> QED
  BY <1>4, <1>5

LEMMA LeaseStep == TypeInv /\ ExclusionInv /\ LeaseInv /\ [Next]_vars => LeaseInv'
<1> SUFFICES ASSUME TypeInv, ExclusionInv, LeaseInv, [Next]_vars PROVE LeaseInv'
  OBVIOUS
<1> USE DEF TypeInv, TypeOK, Shape, Goto, SetScratch
<1>1. ASSUME NEW p \in Proc, Call(p) PROVE LeaseInv'
  BY <1>1 DEF Call, LeaseInv, Lease, ExclusionInv, Carries
<1>2. ASSUME NEW p \in Proc, Draft(p) PROVE LeaseInv'
  BY <1>2 DEF Draft, LeaseInv, Lease, ExclusionInv, Carries
<1>3. ASSUME NEW p \in Proc, LinkOk(p) PROVE LeaseInv'
  BY <1>3 DEF LinkOk, LeaseInv, Lease, ExclusionInv, Carries
<1>4. ASSUME NEW p \in Proc, LinkFails(p) PROVE LeaseInv'
  BY <1>4 DEF LinkFails, LeaseInv, Lease, ExclusionInv, Carries
<1>5. ASSUME NEW p \in Proc, Inspect(p) PROVE LeaseInv'
  BY <1>5 DEF Inspect, LeaseInv, Lease, ExclusionInv, Carries
<1>6. ASSUME NEW p \in Proc, Capture(p) PROVE LeaseInv'
  BY <1>6 DEF Capture, LeaseInv, Lease, ExclusionInv, Carries, Owned
<1>7. ASSUME NEW p \in Proc, CaptureFails(p) PROVE LeaseInv'
  BY <1>7, LeaseFrame DEF CaptureFails
<1>8. ASSUME NEW p \in Proc, RecheckStale(p) PROVE LeaseInv'
  BY <1>8, LeaseFrame DEF RecheckStale
<1>9. ASSUME NEW p \in Proc, RecheckLive(p) PROVE LeaseInv'
  BY <1>9 DEF RecheckLive, LeaseInv, Lease, ExclusionInv, Carries
<1>10. ASSUME NEW p \in Proc, Restore(p) PROVE LeaseInv'
  <2>1. (path' = path /\ disturbed' = disturbed) \/ (~disturbed' => ~disturbed /\ ~Owned(path))
    BY <1>10 DEF Restore
  <2> QED
    BY <1>10, <2>1, LeaseFrame DEF Restore
<1>11. ASSUME NEW p \in Proc, Finish(p) PROVE LeaseInv'
  BY <1>11 DEF Finish, LeaseInv, Lease, ExclusionInv, Carries
<1>12. ASSUME NEW p \in Proc, Join(p) PROVE LeaseInv'
  BY <1>12 DEF Join, LeaseInv, Lease, ExclusionInv, Carries
<1>13. ASSUME NEW p \in Proc, DropCapture(p) PROVE LeaseInv'
  BY <1>13 DEF DropCapture, LeaseInv, Lease, ExclusionInv, Carries, Owned
<1>14. ASSUME NEW p \in Proc, DropNothing(p) PROVE LeaseInv'
  BY <1>14 DEF DropNothing, LeaseInv, Lease, ExclusionInv, Carries
<1>15. ASSUME NEW p \in Proc, VerifyOwn(p) PROVE LeaseInv'
  BY <1>15 DEF VerifyOwn, LeaseInv, Lease, ExclusionInv, Carries
<1>16. ASSUME NEW p \in Proc, VerifyForeign(p) PROVE LeaseInv'
  BY <1>16 DEF VerifyForeign, LeaseInv, Lease, ExclusionInv, Carries
<1>17. ASSUME NEW p \in Proc, PutBack(p) PROVE LeaseInv'
  BY <1>17 DEF PutBack, LeaseInv, Lease, ExclusionInv, Carries, Owned
<1>18. ASSUME NEW p \in Proc, BeatDue(p) PROVE LeaseInv'
  BY <1>18 DEF BeatDue, LeaseInv, Lease, ExclusionInv, Carries
<1>19. ASSUME NEW p \in Proc, BeatRead(p) PROVE LeaseInv'
  BY <1>19 DEF BeatRead, LeaseInv, Lease, ExclusionInv, Carries
<1>20. ASSUME NEW p \in Proc, BeatWrite(p) PROVE LeaseInv'
  BY <1>20 DEF BeatWrite, LeaseInv, Lease, ExclusionInv, Carries, Owned
<1>21. ASSUME NEW p \in Proc, BeatWriteFails(p) PROVE LeaseInv'
  BY <1>21 DEF BeatWriteFails, LeaseInv, Lease, ExclusionInv, Carries
<1>22. ASSUME NEW p \in Proc, BeatStop(p) PROVE LeaseInv'
  BY <1>22 DEF BeatStop, LeaseInv, Lease, ExclusionInv, Carries
<1>23. ASSUME NEW p \in Proc, Crash(p) PROVE LeaseInv'
  BY <1>23 DEF Crash, LeaseInv, Lease, ExclusionInv, Carries
<1>24. CASE Tick
  <2> SUFFICES ASSUME Prompt, ~IoFaults PROVE LeaseInv'
    BY DEF LeaseInv
  <2>1. ASSUME NEW p \in Proc, pc[p] = "link" PROVE scratch'[p].left > Interval
    <3>1. scratch[p] # NoFile /\ scratch[p].left > Interval + 1
      BY <1>24, <2>1 DEF Tick, LinkPending
    <3> QED
      BY <1>24, <3>1, AgedFile DEF Tick
  <2>2. ASSUME NEW p \in Proc, pc[p] = "held", ~disturbed PROVE Lease(p)'
    <3>1. beat[p] = "wait" /\ due[p] > 0
      BY <1>24, <2>2 DEF Tick, BeatPending, LeaseInv, Lease
    <3>2. path # NoFile /\ path.left > due[p]
      BY <2>2, <3>1 DEF LeaseInv, Lease, ExclusionInv, Carries
    <3>3. path'.left = path.left - 1 /\ due'[p] = due[p] - 1 /\ beat'[p] = "wait"
      BY <1>24, <3>1, <3>2, AgedFile DEF Tick, Less
    <3> QED
      BY <3>1, <3>2, <3>3 DEF Lease
  <2> QED
    BY <1>24, <2>1, <2>2 DEF Tick, LeaseInv
<1>25. CASE UNCHANGED vars
  BY <1>25 DEF vars, LeaseInv, Lease
<1> QED
  BY <1>1, <1>2, <1>3, <1>4, <1>5, <1>6, <1>7, <1>8, <1>9, <1>10, <1>11,
     <1>12, <1>13, <1>14, <1>15, <1>16, <1>17, <1>18, <1>19, <1>20, <1>21,
     <1>22, <1>23, <1>24, <1>25 DEF Next, Acquire, Release, Heartbeat

\* Timely heartbeats keep a running call's record in place and unexpired until
\* another process displaces it.
THEOREM LeaseKept == Spec => []LeaseKeptUntilDisturbed
<1>1. Init => ExclusionInv /\ LeaseInv
  BY DEF Init, ExclusionInv, LeaseInv
<1>2. TypeInv /\ ExclusionInv /\ LeaseInv => LeaseKeptUntilDisturbed
  BY DEF TypeInv, TypeOK, ExclusionInv, LeaseInv, Lease, LeaseKeptUntilDisturbed, Live, Carries
<1> QED
  BY <1>1, <1>2, TypeInvHolds, ExclusionStep, LeaseStep, PTL DEF Spec
=============================================================================
