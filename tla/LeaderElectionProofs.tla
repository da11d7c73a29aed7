------------------------ MODULE LeaderElectionProofs ------------------------
(***************************************************************************)
(* The safety of the leader election, for any number of instances, faults  *)
(* and stops.  The invariant is inductive: InstanceInv ties the point an   *)
(* instance has reached at its awaits to what its lease and its session    *)
(* hold, at most one session holds the lock, and a stopped instance holds  *)
(* nothing.  Queries may fail on sessions that stay alive and go on holding *)
(* the lock until they are ended.                                          *)
(***************************************************************************)
EXTENDS LeaderElection, TLAPS

Inv == TypeOK /\ LeaderInv /\ StoppedHoldsNothing

(* Both tuples of variables are expanded everywhere, and so is Set. *)
USE DEF control, session, Set

\* The initial states satisfy the invariant: no instance has started.
LEMMA InitInv == Init => Inv
<1> SUFFICES ASSUME Init PROVE Inv
  BY Zenon
<1>1. /\ running \in [Instances -> BOOLEAN] /\ starting \in [Instances -> BOOLEAN]
      /\ timer \in [Instances -> BOOLEAN] /\ stopping \in [Instances -> BOOLEAN]
      /\ queued \in [Instances -> BOOLEAN] /\ paused \in [Instances -> BOOLEAN]
  BY Zenon DEF Init
<1>2. /\ fresh \in [Instances -> BOOLEAN] /\ isLeader \in [Instances -> BOOLEAN]
      /\ failed \in [Instances -> BOOLEAN] /\ locked \in [Instances -> BOOLEAN]
      /\ broken \in [Instances -> BOOLEAN] /\ job \in [Instances -> BOOLEAN]
  BY Zenon DEF Init
<1>3. /\ stepping \in [Instances -> {"none", "cycle", "lease"}]
      /\ cycle \in [Instances -> Cycles]
      /\ lease \in [Instances -> {"none", "held", "unlock", "end"}]
      /\ count \in [Instances -> 0..1]
  BY DEF Init, Cycles
<1>4. orphan \in BOOLEAN
  BY ZenonT(60) DEF Init
<1>5. faults \in 0..MaxFaults /\ stops \in 0..MaxStops
  BY LeaderElectionAssumption DEF Init
<1>6. TypeOK
  BY <1>1, <1>2, <1>3, <1>4, <1>5, ZenonT(60) DEF TypeOK
<1>7. LeaderInv /\ StoppedHoldsNothing
  BY DEF Init, LeaderInv, InstanceInv, StoppedHoldsNothing
<1> QED BY Zenon, <1>6, <1>7 DEF Inv

\* Every step of an instance keeps the types; the counter of the reentrant lock
\* stays at 0 or 1 because the lock is asked for only without holding it.
LEMMA TypeStep ==
    ASSUME Inv, NEW i \in Instances, InstanceNext(i)
    PROVE  TypeOK'
<1> USE LeaderElectionAssumption DEF Inv, TypeOK, Cycles
<1>1. CASE ElectionCycle(i)
  BY Zenon, <1>1 DEF ElectionCycle, MayCycle, BeginCycle
<1>2. CASE Connected(i)
  BY <1>2 DEF Connected, CanElect
<1>3. CASE CheckAnswered(i)
  BY Zenon, <1>3 DEF CheckAnswered
<1>4. CASE LockRuns(i)
  BY <1>4 DEF LockRuns, Grantable, LeaderInv, InstanceInv
<1>5. CASE LockAcquired(i)
  BY Zenon, <1>5 DEF LockAcquired, Answered, CanElect
<1>6. CASE LockRefused(i)
  BY <1>6 DEF LockRefused, Answered, CanElect, ReleaseLease
<1>7. CASE LockOvertaken(i)
  <2>1. CASE count[i] = 0
    BY <1>7, <2>1 DEF LockOvertaken, Answered, CanElect, ReleaseLease
  <2>2. CASE count[i] > 0
    BY ZenonT(60), <1>7, <2>2 DEF LockOvertaken, Answered, CanElect, ReleaseLease
  <2> QED BY <1>7, <2>1, <2>2
<1>8. CASE QueryFails(i)
  <2>1. CASE lease[i] = "none"
    BY Zenon, <1>8, <2>1 DEF QueryFails, QueryErrs, HandleClientFailure, ReleaseLease
  <2>2. CASE lease[i] # "none"
    <3>1. faults' \in 0..MaxFaults
      BY <1>8, <2>2 DEF QueryFails, QueryErrs
    <3>2. (locked[i] /\ lease[i] = "unlock") \in BOOLEAN
      BY Zenon
    <3> QED
      BY ZenonT(60), <1>8, <2>2, <3>1, <3>2 DEF QueryFails, HandleClientFailure, ReleaseLease
  <2> QED BY Zenon, <1>8, <2>1, <2>2
<1>9. CASE CycleEnds(i)
  BY Zenon, <1>9 DEF CycleEnds
<1>10. CASE UnlockAnswered(i)
  BY <1>10 DEF UnlockAnswered, LeaderInv, InstanceInv
<1>11. CASE UnlockFails(i)
  BY <1>11 DEF UnlockFails, QueryErrs
<1>12. CASE ClientEnded(i)
  BY <1>12 DEF ClientEnded
<1>13. CASE ClientError(i)
  BY <1>13 DEF ClientError, HandleClientFailure, ReleaseLease
<1>14. CASE TimerSet(i)
  BY Zenon, <1>14 DEF TimerSet
<1>15. CASE StepDownReleases(i)
  BY ZenonT(60), <1>15 DEF StepDownReleases, CycleDrained, ReleaseLease
<1>16. CASE StepDownReturns(i)
  <2>1. CASE stopping[i] /\ queued[i]
    BY ZenonT(60), <1>16, <2>1 DEF StepDownReturns, Begin
  <2>2. CASE ~(stopping[i] /\ queued[i])
    BY Zenon, <1>16, <2>2 DEF StepDownReturns, Begin
  <2> QED BY Zenon, <1>16, <2>1, <2>2
<1>17. CASE PauseEnds(i)
  BY Zenon, <1>17 DEF PauseEnds
<1>18. CASE ConnectionLost(i)
  <2>1. CASE orphan' = orphan
    BY <1>18, <2>1 DEF ConnectionLost
  <2>2. CASE count[i] > 0 /\ orphan' = TRUE
    BY <1>18, <2>2 DEF ConnectionLost
  <2> QED BY ZenonT(60), <1>18, <2>1, <2>2 DEF ConnectionLost
<1>19. CASE ConnectFails(i)
  BY <1>19 DEF ConnectFails
<1>20. CASE Start(i)
  BY Zenon, <1>20 DEF Start, Begin
<1>21. CASE StartQueued(i)
  BY Zenon, <1>21 DEF StartQueued
<1>22. CASE StepDown(i)
  BY <1>22 DEF StepDown, StepDownNow
<1>23. CASE Stop(i)
  BY <1>23 DEF Stop, StepDownNow
<1>24. CASE StopAgain(i)
  BY Zenon, <1>24 DEF StopAgain
<1>25. CASE Crash(i)
  BY <1>25 DEF Crash
<1>26. CASE JobStarts(i)
  BY Zenon, <1>26 DEF JobStarts
<1>27. CASE JobEnds(i)
  BY Zenon, <1>27 DEF JobEnds
<1> QED BY ZenonT(60), <1>1, <1>2, <1>3, <1>4, <1>5, <1>6, <1>7, <1>8, <1>9, <1>10, <1>11,
   <1>12, <1>13, <1>14, <1>15, <1>16, <1>17, <1>18, <1>19, <1>20, <1>21,
   <1>22, <1>23, <1>24, <1>25, <1>26, <1>27
   DEF InstanceNext, Electing, Releasing, Stepping, Faults, Calls

\* Every step of an instance keeps InstanceInv, its own and that of the others.
LEMMA InstanceStep ==
    ASSUME Inv, NEW i \in Instances, NEW j \in Instances, InstanceNext(i)
    PROVE  InstanceInv(j)'
<1> USE DEF Inv, TypeOK, LeaderInv, InstanceInv, StoppedHoldsNothing, Cycles
<1>1. CASE ElectionCycle(i)
  BY <1>1 DEF ElectionCycle, MayCycle, BeginCycle
<1>2. CASE Connected(i)
  BY <1>2 DEF Connected, CanElect
<1>3. CASE CheckAnswered(i)
  BY <1>3 DEF CheckAnswered
<1>4. CASE LockRuns(i)
  BY <1>4 DEF LockRuns, Grantable
<1>5. CASE LockAcquired(i)
  BY <1>5 DEF LockAcquired, Answered, CanElect
<1>6. CASE LockRefused(i)
  BY <1>6 DEF LockRefused, Answered, CanElect, ReleaseLease
<1>7. CASE LockOvertaken(i)
  <2>1. CASE count[i] = 0
    BY <1>7, <2>1 DEF LockOvertaken, Answered, CanElect, ReleaseLease
  <2>2. CASE count[i] > 0
    BY <1>7, <2>2 DEF LockOvertaken, Answered, CanElect, ReleaseLease
  <2> QED BY <1>7, <2>1, <2>2
<1>8. CASE QueryFails(i)
  <2>1. CASE lease[i] = "none"
    BY <1>8, <2>1 DEF QueryFails, QueryErrs, HandleClientFailure, ReleaseLease
  <2>2. CASE lease[i] # "none"
    BY <1>8, <2>2 DEF QueryFails, QueryErrs, HandleClientFailure, ReleaseLease
  <2> QED BY Zenon, <1>8, <2>1, <2>2
<1>9. CASE CycleEnds(i)
  BY <1>9 DEF CycleEnds
<1>10. CASE UnlockAnswered(i)
  BY <1>10 DEF UnlockAnswered
<1>11. CASE UnlockFails(i)
  BY <1>11 DEF UnlockFails, QueryErrs
<1>12. CASE ClientEnded(i)
  BY <1>12 DEF ClientEnded
<1>13. CASE ClientError(i)
  BY <1>13 DEF ClientError, HandleClientFailure, ReleaseLease
<1>14. CASE TimerSet(i)
  BY <1>14 DEF TimerSet
<1>15. CASE StepDownReleases(i)
  <2>1. CASE lease[i] = "held"
    BY <1>15, <2>1 DEF StepDownReleases, CycleDrained, ReleaseLease
  <2>2. CASE lease[i] # "held"
    BY <1>15, <2>2 DEF StepDownReleases, CycleDrained, ReleaseLease
  <2> QED BY Zenon, <1>15, <2>1, <2>2
<1>16. CASE StepDownReturns(i)
  <2>1. CASE stopping[i] /\ queued[i]
    BY <1>16, <2>1 DEF StepDownReturns, Begin
  <2>2. CASE ~(stopping[i] /\ queued[i])
    BY <1>16, <2>2 DEF StepDownReturns, Begin
  <2> QED BY Zenon, <1>16, <2>1, <2>2
<1>17. CASE PauseEnds(i)
  BY ZenonT(60), <1>17 DEF PauseEnds
<1>18. CASE ConnectionLost(i)
  BY <1>18 DEF ConnectionLost
<1>19. CASE ConnectFails(i)
  BY <1>19 DEF ConnectFails
<1>20. CASE Start(i)
  BY <1>20 DEF Start, Begin
<1>21. CASE StartQueued(i)
  BY ZenonT(60), <1>21 DEF StartQueued
<1>22. CASE StepDown(i)
  BY <1>22 DEF StepDown, StepDownNow
<1>23. CASE Stop(i)
  BY <1>23 DEF Stop, StepDownNow
<1>24. CASE StopAgain(i)
  BY ZenonT(60), <1>24 DEF StopAgain
<1>25. CASE Crash(i)
  BY <1>25 DEF Crash
<1>26. CASE JobStarts(i)
  BY ZenonT(60), <1>26 DEF JobStarts
<1>27. CASE JobEnds(i)
  BY ZenonT(60), <1>27 DEF JobEnds
<1> QED BY ZenonT(60), <1>1, <1>2, <1>3, <1>4, <1>5, <1>6, <1>7, <1>8, <1>9, <1>10, <1>11,
   <1>12, <1>13, <1>14, <1>15, <1>16, <1>17, <1>18, <1>19, <1>20, <1>21,
   <1>22, <1>23, <1>24, <1>25, <1>26, <1>27
   DEF InstanceNext, Electing, Releasing, Stepping, Faults, Calls

\* Every step of an instance keeps the lock with one session: only LockRuns
\* raises a counter, and only when nobody else holds the lock.
LEMMA HolderStep ==
    ASSUME Inv, NEW i \in Instances, InstanceNext(i)
    PROVE  \A j, k \in Instances : count'[j] = 1 /\ count'[k] = 1 => j = k
<1> USE DEF Inv, TypeOK, LeaderInv
<1>1. CASE ElectionCycle(i)
  BY Zenon, <1>1 DEF ElectionCycle, MayCycle, BeginCycle
<1>2. CASE Connected(i)
  BY Zenon, <1>2 DEF Connected, CanElect
<1>3. CASE CheckAnswered(i)
  BY Zenon, <1>3 DEF CheckAnswered
<1>4. CASE LockRuns(i)
  BY <1>4 DEF LockRuns, Grantable
<1>5. CASE LockAcquired(i)
  BY Zenon, <1>5 DEF LockAcquired, Answered, CanElect
<1>6. CASE LockRefused(i)
  BY Zenon, <1>6 DEF LockRefused, Answered, CanElect, ReleaseLease
<1>7. CASE LockOvertaken(i)
  BY Zenon, <1>7 DEF LockOvertaken, Answered, CanElect, ReleaseLease
<1>8. CASE QueryFails(i)
  BY Zenon, <1>8 DEF QueryFails, QueryErrs, HandleClientFailure, ReleaseLease
<1>9. CASE CycleEnds(i)
  BY Zenon, <1>9 DEF CycleEnds
<1>10. CASE UnlockAnswered(i)
  BY <1>10 DEF UnlockAnswered
<1>11. CASE UnlockFails(i)
  BY <1>11 DEF UnlockFails, QueryErrs
<1>12. CASE ClientEnded(i)
  BY <1>12 DEF ClientEnded
<1>13. CASE ClientError(i)
  BY Zenon, <1>13 DEF ClientError, HandleClientFailure, ReleaseLease
<1>14. CASE TimerSet(i)
  BY Zenon, <1>14 DEF TimerSet
<1>15. CASE StepDownReleases(i)
  BY Zenon, <1>15 DEF StepDownReleases, CycleDrained, ReleaseLease
<1>16. CASE StepDownReturns(i)
  BY Zenon, <1>16 DEF StepDownReturns, Begin
<1>17. CASE PauseEnds(i)
  BY Zenon, <1>17 DEF PauseEnds
<1>18. CASE ConnectionLost(i)
  BY <1>18 DEF ConnectionLost
<1>19. CASE ConnectFails(i)
  BY Zenon, <1>19 DEF ConnectFails
<1>20. CASE Start(i)
  BY Zenon, <1>20 DEF Start, Begin
<1>21. CASE StartQueued(i)
  BY Zenon, <1>21 DEF StartQueued
<1>22. CASE StepDown(i)
  BY Zenon, <1>22 DEF StepDown, StepDownNow
<1>23. CASE Stop(i)
  BY Zenon, <1>23 DEF Stop, StepDownNow
<1>24. CASE StopAgain(i)
  BY Zenon, <1>24 DEF StopAgain
<1>25. CASE Crash(i)
  BY <1>25 DEF Crash
<1>26. CASE JobStarts(i)
  BY Zenon, <1>26 DEF JobStarts
<1>27. CASE JobEnds(i)
  BY Zenon, <1>27 DEF JobEnds
<1> QED BY Zenon, <1>1, <1>2, <1>3, <1>4, <1>5, <1>6, <1>7, <1>8, <1>9, <1>10, <1>11,
   <1>12, <1>13, <1>14, <1>15, <1>16, <1>17, <1>18, <1>19, <1>20, <1>21,
   <1>22, <1>23, <1>24, <1>25, <1>26, <1>27
   DEF InstanceNext, Electing, Releasing, Stepping, Faults, Calls

\* Every step of an instance keeps a stopped instance without a lease.
LEMMA StoppedStep ==
    ASSUME Inv, NEW i \in Instances, InstanceNext(i)
    PROVE  StoppedHoldsNothing'
<1> USE DEF Inv, TypeOK, LeaderInv, InstanceInv, StoppedHoldsNothing, Cycles
<1>1. CASE ElectionCycle(i)
  BY <1>1 DEF ElectionCycle, MayCycle, BeginCycle
<1>2. CASE Connected(i)
  BY <1>2 DEF Connected, CanElect
<1>3. CASE CheckAnswered(i)
  BY <1>3 DEF CheckAnswered
<1>4. CASE LockRuns(i)
  BY <1>4 DEF LockRuns, Grantable
<1>5. CASE LockAcquired(i)
  BY <1>5 DEF LockAcquired, Answered, CanElect
<1>6. CASE LockRefused(i)
  BY <1>6 DEF LockRefused, Answered, CanElect, ReleaseLease
<1>7. CASE LockOvertaken(i)
  BY <1>7 DEF LockOvertaken, Answered, CanElect, ReleaseLease
<1>8. CASE QueryFails(i)
  BY <1>8 DEF QueryFails, QueryErrs, HandleClientFailure, ReleaseLease
<1>9. CASE CycleEnds(i)
  BY <1>9 DEF CycleEnds
<1>10. CASE UnlockAnswered(i)
  BY <1>10 DEF UnlockAnswered
<1>11. CASE UnlockFails(i)
  BY <1>11 DEF UnlockFails, QueryErrs
<1>12. CASE ClientEnded(i)
  BY <1>12 DEF ClientEnded
<1>13. CASE ClientError(i)
  BY <1>13 DEF ClientError, HandleClientFailure, ReleaseLease
<1>14. CASE TimerSet(i)
  BY <1>14 DEF TimerSet
<1>15. CASE StepDownReleases(i)
  BY <1>15 DEF StepDownReleases, CycleDrained, ReleaseLease
<1>16. CASE StepDownReturns(i)
  <2>1. CASE stopping[i] /\ queued[i]
    BY <1>16, <2>1 DEF StepDownReturns, Begin
  <2>2. CASE ~(stopping[i] /\ queued[i])
    BY <1>16, <2>2 DEF StepDownReturns, Begin
  <2> QED BY Zenon, <1>16, <2>1, <2>2
<1>17. CASE PauseEnds(i)
  BY Zenon, <1>17 DEF PauseEnds
<1>18. CASE ConnectionLost(i)
  BY Zenon, <1>18 DEF ConnectionLost
<1>19. CASE ConnectFails(i)
  BY <1>19 DEF ConnectFails
<1>20. CASE Start(i)
  BY <1>20 DEF Start, Begin
<1>21. CASE StartQueued(i)
  BY Zenon, <1>21 DEF StartQueued
<1>22. CASE StepDown(i)
  BY <1>22 DEF StepDown, StepDownNow
<1>23. CASE Stop(i)
  BY <1>23 DEF Stop, StepDownNow
<1>24. CASE StopAgain(i)
  BY Zenon, <1>24 DEF StopAgain
<1>25. CASE Crash(i)
  BY <1>25 DEF Crash
<1>26. CASE JobStarts(i)
  BY ZenonT(60), <1>26 DEF JobStarts
<1>27. CASE JobEnds(i)
  BY Zenon, <1>27 DEF JobEnds
<1> QED BY ZenonT(60), <1>1, <1>2, <1>3, <1>4, <1>5, <1>6, <1>7, <1>8, <1>9, <1>10, <1>11,
   <1>12, <1>13, <1>14, <1>15, <1>16, <1>17, <1>18, <1>19, <1>20, <1>21,
   <1>22, <1>23, <1>24, <1>25, <1>26, <1>27
   DEF InstanceNext, Electing, Releasing, Stepping, Faults, Calls

\* What no variable of an instance moves keeps its invariant, the end of an
\* orphaned session included.
LEMMA InstanceFrame ==
    ASSUME NEW i \in Instances, InstanceInv(i), orphan' => orphan,
           UNCHANGED <<running, starting, timer, stopping, stepping, cycle, fresh, isLeader,
                       lease, failed, locked, broken, count>>
    PROVE  InstanceInv(i)'
BY DEF InstanceInv

\* The whole next-state relation keeps the invariant.
LEMMA NextStep == Inv /\ [Next]_vars => Inv'
<1> SUFFICES ASSUME Inv, [Next]_vars PROVE Inv'
  BY Zenon
<1>1. CASE UNCHANGED vars \/ OrphanEnds
  <2>1. UNCHANGED <<running, starting, timer, stopping, queued, stepping, paused, cycle,
                    fresh, isLeader, lease, failed, locked, broken, count, job, faults, stops>>
    <3>1. CASE UNCHANGED vars
      BY Zenon, <3>1 DEF vars
    <3>2. CASE OrphanEnds
      BY Zenon, <3>2 DEF OrphanEnds
    <3> QED BY Zenon, <1>1, <3>1, <3>2
  <2>2. orphan' \in BOOLEAN /\ (orphan' => orphan)
    <3>1. orphan' = orphan \/ orphan' = FALSE
      BY Zenon, <1>1 DEF OrphanEnds, vars
    <3>2. orphan \in BOOLEAN
      BY Zenon DEF Inv, TypeOK
    <3>3. CASE orphan' = orphan
      BY Zenon, <3>2, <3>3
    <3>4. CASE orphan' = FALSE
      BY Zenon, <3>4
    <3> QED BY Zenon, <3>1, <3>3, <3>4
  <2>3. TypeOK'
    BY Zenon, <2>1, <2>2 DEF Inv, TypeOK
  <2>4. ASSUME NEW i \in Instances PROVE InstanceInv(i)'
    <3>1. InstanceInv(i)
      BY Zenon DEF Inv, LeaderInv
    <3> QED BY Zenon, <2>1, <2>2, <3>1, InstanceFrame
  <2>5. StoppedHoldsNothing' /\ \A i, j \in Instances : count'[i] = 1 /\ count'[j] = 1 => i = j
    BY Zenon, <2>1 DEF Inv, LeaderInv, StoppedHoldsNothing
  <2> QED
    BY Zenon, <2>3, <2>4, <2>5 DEF Inv, LeaderInv
<1>2. ASSUME NEW i \in Instances, InstanceNext(i)
      PROVE  Inv'
  <2>1. TypeOK'
    BY Zenon, <1>2, TypeStep
  <2>2. \A j \in Instances : InstanceInv(j)'
    BY Zenon, <1>2, InstanceStep
  <2>3. \A j, k \in Instances : count'[j] = 1 /\ count'[k] = 1 => j = k
    BY Zenon, <1>2, HolderStep
  <2>4. StoppedHoldsNothing'
    BY Zenon, <1>2, StoppedStep
  <2> QED BY Zenon, <2>1, <2>2, <2>3, <2>4 DEF Inv, LeaderInv
<1> QED BY Zenon, <1>1, <1>2 DEF Next

LEMMA Invariant == Spec => []Inv
BY InitInv, NextStep, PTL DEF Spec

\* Every variable keeps its type in every execution; in particular the
\* reentrant lock is never taken twice by one session.
THEOREM TypeCorrect == Spec => []TypeOK
<1>1. Inv => TypeOK
  BY Zenon DEF Inv
<1> QED BY <1>1, Invariant, PTL

\* Two instances are leaders together only while one of them has lost its
\* session and has not been told.
THEOREM AtMostOneLeader == Spec => []OneLeader
<1>1. Inv => OneLeader
  BY DEF Inv, LeaderInv, InstanceInv, OneLeader, TypeOK
<1> QED BY <1>1, Invariant, PTL

\* The advisory lock never goes back to the pool with an idle session: an unlock
\* that fails on a session still holding the lock, and a query that fails after
\* the lock was taken, leave it with a lease that is being ended.
THEOREM LockNeverLeaks == Spec => []LockIsLeased
<1>1. Inv => LockIsLeased
  BY DEF Inv, LeaderInv, InstanceInv, LockIsLeased, TypeOK
<1> QED BY <1>1, Invariant, PTL

\* After stop() returned the instance holds nothing, whatever was in flight.
THEOREM StopIsFinal == Spec => []StoppedHoldsNothing
<1>1. Inv => StoppedHoldsNothing
  BY Zenon DEF Inv, LeaderInv
<1> QED BY <1>1, Invariant, PTL

=============================================================================
