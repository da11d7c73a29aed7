-------------------------- MODULE LeaderElection --------------------------
(***************************************************************************)
(* DistributedLeaderService: control-plane instances elect the one that    *)
(* runs the periodic jobs by a session-level advisory lock of PostgreSQL.  *)
(*                                                                         *)
(* An instance is single-threaded: a step runs from one await to the next. *)
(* Its election cycle, its stepping down, the release of its lease, the    *)
(* error event of its connection and its jobs interleave at the awaits.    *)
(* The answer to a query arrives after the database has run it.            *)
(*                                                                         *)
(* An instance has one cycle at a time, so the comparison of its election  *)
(* version with the one the cycle started from is the flag "fresh".        *)
(***************************************************************************)
EXTENDS Naturals

CONSTANTS
    Instances,
    MaxFaults,   \* bound on lost connections, failed connects and queries that
                 \* return an error on a working connection
    MaxStops     \* bound on stops, steps down and crashes

ASSUME LeaderElectionAssumption == MaxFaults \in Nat /\ MaxStops \in Nat

VARIABLES
    running,    \* _running
    starting,   \* start() awaits its first cycle
    timer,      \* _timer is set
    stopping,   \* _stopPromise is pending
    queued,     \* a start() waits for the stop
    stepping,   \* _stepDownPromise: none, waits for the cycle, or for the lease
    paused,     \* _pauseUntil lies ahead
    cycle,      \* what the election cycle awaits
    fresh,      \* the cycle's version is still _electionVersion
    isLeader,   \* _isLeader
    lease,      \* _lease: none | held, or releasing: unlock | end
    failed,     \* lease.failed
    locked,     \* lease.locked
    broken,     \* the lease's connection is lost
    count,      \* how often the session of an instance holds the lock
    orphan,     \* the lock is held by a session whose client is gone
    job,        \* the job is in _inFlight
    faults, stops

vars == <<running, starting, timer, stopping, queued, stepping, paused, cycle,
          fresh, isLeader, lease, failed, locked, broken, count, orphan, job,
          faults, stops>>

control == <<running, starting, timer, stopping, queued>>
session == <<lease, failed, locked, broken, count, orphan>>

Cycles == {"idle", "connect", "check", "lock", "answer", "drain"}

Init ==
    /\ running = [i \in Instances |-> FALSE]
    /\ starting = [i \in Instances |-> FALSE]
    /\ timer = [i \in Instances |-> FALSE]
    /\ stopping = [i \in Instances |-> FALSE]
    /\ queued = [i \in Instances |-> FALSE]
    /\ stepping = [i \in Instances |-> "none"]
    /\ paused = [i \in Instances |-> FALSE]
    /\ cycle = [i \in Instances |-> "idle"]
    /\ fresh = [i \in Instances |-> FALSE]
    /\ isLeader = [i \in Instances |-> FALSE]
    /\ lease = [i \in Instances |-> "none"]
    /\ failed = [i \in Instances |-> FALSE]
    /\ locked = [i \in Instances |-> FALSE]
    /\ broken = [i \in Instances |-> FALSE]
    /\ count = [i \in Instances |-> 0]
    /\ orphan = FALSE
    /\ job = [i \in Instances |-> FALSE]
    /\ faults = 0
    /\ stops = 0

Set(f, i, v) == f' = [f EXCEPT ![i] = v]

-----------------------------------------------------------------------------
(* The advisory lock                                                       *)

\* pg_try_advisory_lock succeeds for session i: nobody else holds the lock.
Grantable(i) == ~orphan /\ \A j \in Instances \ {i} : count[j] = 0

\* The database ends the session of a client that is gone.
OrphanEnds ==
    /\ orphan
    /\ orphan' = FALSE
    /\ UNCHANGED <<control, stepping, paused, cycle, fresh, isLeader, lease, failed,
                   locked, broken, count, job, faults, stops>>

\* The lease's connection is lost on the way, and the database may end the
\* session before the client hears of it.
ConnectionLost(i) ==
    /\ faults < MaxFaults
    /\ faults' = faults + 1
    /\ lease[i] # "none" /\ ~broken[i]
    /\ Set(broken, i, TRUE)
    /\ Set(count, i, 0)
    /\ \/ orphan' = orphan
       \/ count[i] > 0 /\ orphan' = TRUE
    /\ UNCHANGED <<control, stepping, paused, cycle, fresh, isLeader, lease, failed,
                   locked, job, stops>>

-----------------------------------------------------------------------------
(* Releasing the lease                                                     *)

\* Mutant: a working client goes back to the pool without an unlock.
ReleaseLeaseIdle(i, isFailed, isLocked) ==
    IF lease[i] # "held" THEN UNCHANGED lease
    ELSE Set(lease, i, IF isFailed THEN "end" ELSE "none")

\* _releaseLease up to its first await: unlock first when the lock is held and
\* the connection works, close a failed connection, otherwise give the client
\* straight back to the pool.  A second call joins the first.
ReleaseLease(i, isFailed, isLocked) ==
    IF lease[i] # "held" THEN UNCHANGED lease
    ELSE Set(lease, i, IF isFailed THEN "end" ELSE IF isLocked THEN "unlock" ELSE "none")

\* The unlock query ran and was answered.
UnlockAnswered(i) ==
    /\ lease[i] = "unlock" /\ ~broken[i]
    /\ Set(count, i, count[i] - 1)
    /\ Set(locked, i, FALSE)
    /\ Set(lease, i, IF failed[i] THEN "end" ELSE "none")
    /\ UNCHANGED <<control, stepping, paused, cycle, fresh, isLeader, failed, broken,
                   orphan, job, faults, stops>>

\* A query fails because its connection is lost, or with an error of its own on
\* a session that stays alive: cancelled, or timed out.
QueryErrs(i) ==
    \/ broken[i] /\ UNCHANGED faults
    \/ ~broken[i] /\ faults < MaxFaults /\ faults' = faults + 1

\* Mutant: after a failed unlock the client goes back to the pool idle.
UnlockFailsIdle(i) ==
    /\ lease[i] = "unlock"
    /\ QueryErrs(i)
    /\ Set(locked, i, FALSE)
    /\ Set(lease, i, "none")
    /\ UNCHANGED <<control, stepping, paused, cycle, fresh, isLeader, failed, broken,
                   count, orphan, job, stops>>

\* An unlock that fails makes the release close the connection.  On a session
\* that is alive the lock may still be held, or be gone when only the end of
\* the query failed.
UnlockFails(i) ==
    /\ lease[i] = "unlock"
    /\ QueryErrs(i)
    /\ Set(failed, i, TRUE)
    /\ Set(locked, i, FALSE)
    /\ Set(lease, i, "end")
    /\ UNCHANGED count \/ Set(count, i, 0)
    /\ UNCHANGED <<control, stepping, paused, cycle, fresh, isLeader, broken, orphan,
                   job, stops>>

\* client.end() returns: the session is over, with it the lock it may still
\* hold, and the pool discards the client.
ClientEnded(i) ==
    /\ lease[i] = "end"
    /\ Set(lease, i, "none")
    /\ Set(failed, i, FALSE)
    /\ Set(locked, i, FALSE)
    /\ Set(broken, i, FALSE)
    /\ Set(count, i, 0)
    /\ UNCHANGED <<control, stepping, paused, cycle, fresh, isLeader, orphan, job,
                   faults, stops>>

\* Mutant: the instance goes on leading without its session.
HandleClientFailureLeads(i) ==
    /\ Set(failed, i, TRUE)
    /\ Set(fresh, i, FALSE)
    /\ UNCHANGED isLeader
    /\ Set(locked, i, locked[i] /\ lease[i] = "unlock")
    /\ ReleaseLease(i, TRUE, locked[i])

\* _handleClientFailure of the current lease.  A release that starts here skips
\* the unlock and forgets the lock at once; one in progress goes on.
HandleClientFailure(i) ==
    /\ Set(failed, i, TRUE)
    /\ Set(fresh, i, FALSE)
    /\ Set(isLeader, i, FALSE)
    /\ Set(locked, i, locked[i] /\ lease[i] = "unlock")
    /\ ReleaseLease(i, TRUE, locked[i])

\* The error event of a lost connection.
ClientError(i) ==
    /\ lease[i] # "none" /\ broken[i] /\ ~failed[i]
    /\ HandleClientFailure(i)
    /\ UNCHANGED <<control, stepping, paused, cycle, broken, count, orphan, job,
                   faults, stops>>

-----------------------------------------------------------------------------
(* The election cycle                                                      *)

MayCycle(i) ==
    /\ running[i] /\ stepping[i] = "none" /\ ~paused[i]
    /\ lease[i] \in {"none", "held"}
    /\ cycle[i] = "idle"

\* Mutant: the leader takes the reentrant lock again.
BeginCycleRelocks(i) ==
    /\ Set(fresh, i, TRUE)
    /\ Set(cycle, i, IF lease[i] = "none" THEN "connect" ELSE "lock")

BeginCycle(i) ==
    /\ Set(fresh, i, TRUE)
    /\ Set(cycle, i, IF lease[i] = "none" THEN "connect"
                     ELSE IF isLeader[i] THEN "check" ELSE "lock")

\* Mutant: the cycle does not notice that it was overtaken.
CanElectOvertaken(i) == running[i] /\ ~failed[i]

\* _canElect.
CanElect(i) == running[i] /\ fresh[i] /\ ~failed[i]

\* The timer fires.
ElectionCycle(i) ==
    /\ timer[i]
    /\ MayCycle(i)
    /\ BeginCycle(i)
    /\ UNCHANGED <<control, stepping, paused, isLeader, session, job, faults, stops>>

\* pool.connect returns a client.  A cycle overtaken meanwhile gives it back.
Connected(i) ==
    /\ cycle[i] = "connect"
    /\ IF CanElect(i)
       THEN Set(lease, i, "held") /\ Set(cycle, i, "lock")
       ELSE Set(cycle, i, "idle") /\ UNCHANGED lease
    /\ UNCHANGED <<control, stepping, paused, fresh, isLeader, failed, locked, broken,
                   count, orphan, job, faults, stops>>

ConnectFails(i) ==
    /\ cycle[i] = "connect"
    /\ faults < MaxFaults
    /\ faults' = faults + 1
    /\ Set(cycle, i, "idle")
    /\ UNCHANGED <<control, stepping, paused, fresh, isLeader, session, job, stops>>

\* The leader's health check is answered.
CheckAnswered(i) ==
    /\ cycle[i] = "check" /\ lease[i] # "none" /\ ~broken[i]
    /\ Set(cycle, i, "idle")
    /\ UNCHANGED <<control, stepping, paused, fresh, isLeader, session, job, faults, stops>>

\* The database runs pg_try_advisory_lock, which is reentrant.
LockRuns(i) ==
    /\ cycle[i] = "lock" /\ lease[i] # "none" /\ ~broken[i]
    /\ Set(cycle, i, "answer")
    /\ Set(count, i, IF Grantable(i) THEN count[i] + 1 ELSE count[i])
    /\ UNCHANGED <<control, stepping, paused, fresh, isLeader, lease, failed, locked,
                   broken, orphan, job, faults, stops>>

Answered(i) == cycle[i] = "answer" /\ lease[i] # "none" /\ ~broken[i]

\* The answer arrives: the lock was acquired.
LockAcquired(i) ==
    /\ Answered(i) /\ CanElect(i) /\ count[i] > 0
    /\ Set(locked, i, TRUE)
    /\ Set(isLeader, i, TRUE)
    /\ Set(cycle, i, "idle")
    /\ UNCHANGED <<control, stepping, paused, fresh, lease, failed, broken, count,
                   orphan, job, faults, stops>>

\* Another session holds the lock: a standby gives its client back.
LockRefused(i) ==
    /\ Answered(i) /\ CanElect(i) /\ count[i] = 0
    /\ Set(locked, i, FALSE)
    /\ Set(isLeader, i, FALSE)
    /\ ReleaseLease(i, failed[i], FALSE)
    /\ Set(cycle, i, "drain")
    /\ UNCHANGED <<control, stepping, paused, fresh, failed, broken, count, orphan,
                   job, faults, stops>>

\* A cycle overtaken meanwhile releases what it may have acquired.
LockOvertaken(i) ==
    /\ Answered(i) /\ ~CanElect(i)
    /\ Set(locked, i, count[i] > 0)
    /\ ReleaseLease(i, failed[i], count[i] > 0)
    /\ Set(cycle, i, "drain")
    /\ UNCHANGED <<control, stepping, paused, fresh, isLeader, failed, broken, count,
                   orphan, job, faults, stops>>

\* A query of the cycle fails: the cycle discards its lease, which the error
\* event may have discarded before it.  A session that is alive may have taken
\* the lock before the error and holds it until it is ended.
QueryFails(i) ==
    /\ cycle[i] \in {"check", "lock", "answer"}
    /\ Set(cycle, i, "drain")
    /\ \/ lease[i] = "none" /\ UNCHANGED <<failed, fresh, isLeader, locked, lease, faults>>
       \/ lease[i] # "none" /\ QueryErrs(i) /\ HandleClientFailure(i)
    /\ UNCHANGED <<control, stepping, paused, broken, count, orphan, job, stops>>

\* The release the cycle waits for is over.
CycleEnds(i) ==
    /\ cycle[i] = "drain" /\ lease[i] = "none"
    /\ Set(cycle, i, "idle")
    /\ UNCHANGED <<control, stepping, paused, fresh, isLeader, session, job, faults, stops>>

-----------------------------------------------------------------------------
(* Starting, stepping down, stopping                                       *)

\* start() runs its first cycle at once.
Begin(i) ==
    /\ Set(running, i, TRUE)
    /\ Set(starting, i, TRUE)
    /\ Set(fresh, i, TRUE)
    /\ Set(cycle, i, IF paused[i] THEN "idle" ELSE "connect")

Start(i) ==
    /\ ~running[i] /\ ~stopping[i]
    /\ Begin(i)
    /\ UNCHANGED <<timer, stopping, queued, stepping, paused, isLeader, session, job,
                   faults, stops>>

\* start() before a stop has finished waits for it.
StartQueued(i) ==
    /\ stopping[i] /\ ~queued[i]
    /\ Set(queued, i, TRUE)
    /\ UNCHANGED <<running, starting, timer, stopping, stepping, paused, cycle, fresh,
                   isLeader, session, job, faults, stops>>

\* The first cycle is over and the timer is set.
TimerSet(i) ==
    /\ starting[i] /\ cycle[i] = "idle"
    /\ Set(starting, i, FALSE)
    /\ Set(timer, i, TRUE)
    /\ UNCHANGED <<running, stopping, queued, stepping, paused, cycle, fresh, isLeader,
                   session, job, faults, stops>>

\* stepDown() up to its first await.
StepDownNow(i) ==
    /\ Set(fresh, i, FALSE)
    /\ Set(isLeader, i, FALSE)
    /\ Set(stepping, i, IF stepping[i] = "none" THEN "cycle" ELSE stepping[i])

StepDown(i) ==
    /\ stops < MaxStops
    /\ stops' = stops + 1
    /\ running[i]
    /\ StepDownNow(i)
    /\ \E pause \in BOOLEAN : Set(paused, i, paused[i] \/ pause)
    /\ UNCHANGED <<control, cycle, session, job, faults>>

\* stop(): no more cycles, then step down.
Stop(i) ==
    /\ stops < MaxStops
    /\ stops' = stops + 1
    /\ running[i] /\ ~stopping[i]
    /\ Set(running, i, FALSE)
    /\ Set(starting, i, FALSE)
    /\ Set(timer, i, FALSE)
    /\ Set(stopping, i, TRUE)
    /\ StepDownNow(i)
    /\ UNCHANGED <<queued, paused, cycle, session, job, faults>>

\* stop() during a stop joins it and cancels the start that waits for it.
StopAgain(i) ==
    /\ stopping[i] /\ queued[i]
    /\ Set(queued, i, FALSE)
    /\ UNCHANGED <<running, starting, timer, stopping, stepping, paused, cycle, fresh,
                   isLeader, session, job, faults, stops>>

\* Mutant: the cycle in progress is not awaited.
CycleDrainedAlways(i) == TRUE

\* await this._cyclePromise.
CycleDrained(i) == cycle[i] = "idle"

\* The cycle in progress is over: release the lease it left.
StepDownReleases(i) ==
    /\ stepping[i] = "cycle" /\ CycleDrained(i)
    /\ Set(stepping, i, "lease")
    /\ ReleaseLease(i, failed[i], locked[i])
    /\ UNCHANGED <<control, paused, cycle, fresh, isLeader, failed, locked, broken,
                   count, orphan, job, faults, stops>>

\* The lease is gone: stepDown() and the stop that called it return, and a
\* start that waited for the stop goes on.
StepDownReturns(i) ==
    /\ stepping[i] = "lease" /\ lease[i] = "none"
    /\ Set(stepping, i, "none")
    /\ Set(stopping, i, FALSE)
    /\ Set(queued, i, FALSE)
    /\ IF stopping[i] /\ queued[i] THEN Begin(i)
       ELSE UNCHANGED <<running, starting, fresh, cycle>>
    /\ UNCHANGED <<timer, paused, isLeader, session, job, faults, stops>>

PauseEnds(i) ==
    /\ paused[i]
    /\ Set(paused, i, FALSE)
    /\ UNCHANGED <<control, stepping, cycle, fresh, isLeader, session, job, faults, stops>>

\* The process is killed and its session outlives it for a while.
Crash(i) ==
    /\ stops < MaxStops
    /\ stops' = stops + 1
    /\ running[i] \/ stopping[i]
    /\ Set(running, i, FALSE) /\ Set(starting, i, FALSE) /\ Set(timer, i, FALSE)
    /\ Set(stopping, i, FALSE) /\ Set(queued, i, FALSE) /\ Set(stepping, i, "none")
    /\ Set(paused, i, FALSE) /\ Set(cycle, i, "idle") /\ Set(fresh, i, FALSE)
    /\ Set(isLeader, i, FALSE) /\ Set(lease, i, "none") /\ Set(failed, i, FALSE)
    /\ Set(locked, i, FALSE) /\ Set(broken, i, FALSE) /\ Set(job, i, FALSE)
    /\ Set(count, i, 0)
    /\ orphan' = (orphan \/ count[i] > 0)
    /\ UNCHANGED faults

-----------------------------------------------------------------------------
(* executeAsLeader                                                         *)

JobStarts(i) ==
    /\ isLeader[i] /\ ~job[i]
    /\ Set(job, i, TRUE)
    /\ UNCHANGED <<control, stepping, paused, cycle, fresh, isLeader, session, faults, stops>>

JobEnds(i) ==
    /\ job[i]
    /\ Set(job, i, FALSE)
    /\ UNCHANGED <<control, stepping, paused, cycle, fresh, isLeader, session, faults, stops>>

-----------------------------------------------------------------------------
Electing(i) ==
    \/ ElectionCycle(i) \/ Connected(i) \/ CheckAnswered(i) \/ LockRuns(i)
    \/ LockAcquired(i) \/ LockRefused(i) \/ LockOvertaken(i) \/ QueryFails(i) \/ CycleEnds(i)

Releasing(i) ==
    \/ UnlockAnswered(i) \/ UnlockFails(i) \/ ClientEnded(i) \/ ClientError(i)

Stepping(i) ==
    TimerSet(i) \/ StepDownReleases(i) \/ StepDownReturns(i) \/ PauseEnds(i)

Faults(i) == ConnectionLost(i) \/ ConnectFails(i) \/ Crash(i)

Calls(i) ==
    \/ Start(i) \/ StartQueued(i) \/ StepDown(i) \/ Stop(i) \/ StopAgain(i)
    \/ JobStarts(i) \/ JobEnds(i)

InstanceNext(i) == Electing(i) \/ Releasing(i) \/ Stepping(i) \/ Faults(i) \/ Calls(i)

Next == OrphanEnds \/ \E i \in Instances : InstanceNext(i)

Spec == Init /\ [][Next]_vars

\* Queries are answered or fail, timers fire, promises settle, the database
\* ends abandoned sessions.
Fairness ==
    /\ WF_vars(OrphanEnds)
    /\ \A i \in Instances :
          /\ WF_vars(Electing(i)) /\ WF_vars(Releasing(i)) /\ WF_vars(Stepping(i))

FairSpec == Spec /\ Fairness

-----------------------------------------------------------------------------
(* Properties                                                              *)

\* Every variable has its type.
TypeOK ==
    /\ running \in [Instances -> BOOLEAN]
    /\ starting \in [Instances -> BOOLEAN]
    /\ timer \in [Instances -> BOOLEAN]
    /\ stopping \in [Instances -> BOOLEAN]
    /\ queued \in [Instances -> BOOLEAN]
    /\ stepping \in [Instances -> {"none", "cycle", "lease"}]
    /\ paused \in [Instances -> BOOLEAN]
    /\ cycle \in [Instances -> Cycles]
    /\ fresh \in [Instances -> BOOLEAN]
    /\ isLeader \in [Instances -> BOOLEAN]
    /\ lease \in [Instances -> {"none", "held", "unlock", "end"}]
    /\ failed \in [Instances -> BOOLEAN]
    /\ locked \in [Instances -> BOOLEAN]
    /\ broken \in [Instances -> BOOLEAN]
    /\ count \in [Instances -> 0..1]
    /\ orphan \in BOOLEAN
    /\ job \in [Instances -> BOOLEAN]
    /\ faults \in 0..MaxFaults
    /\ stops \in 0..MaxStops

\* Two instances call themselves leader only while one of them has lost its
\* session and has not been told: an overtaken cycle, a step down, a restart
\* or a slow release never leaves a second one.
OneLeader ==
    \A i, j \in Instances :
        isLeader[i] /\ isLeader[j] /\ ~broken[i] /\ ~broken[j] => i = j

\* "Returning it idle would leave an advisory lock available to an unrelated
\* pool borrower": a session that holds the lock belongs to a lease that is in
\* use, is being unlocked or is being ended, whether or not the query that was
\* to take or to free the lock failed on it.  An unlock that was answered really
\* freed the lock.
LockIsLeased ==
    \A i \in Instances : count[i] > 0 => lease[i] \in {"held", "unlock", "end"}

\* "Otherwise shutdown can publish a late leader": after stop() returned the
\* instance does not lead, has no lease and no cycle that could bring one.
StoppedHoldsNothing ==
    \A i \in Instances :
        ~running[i] /\ ~stopping[i]
            => ~isLeader[i] /\ lease[i] = "none" /\ cycle[i] = "idle" /\ ~timer[i]

\* What the awaits of the service keep between them, for one instance: which
\* lease goes with which point of the cycle, of stepping down and of the lock.
InstanceInv(i) ==
    /\ count[i] = 1 => ~orphan /\ ~broken[i] /\ lease[i] # "none"
    /\ count[i] = 1 => locked[i] \/ cycle[i] = "answer" \/ lease[i] = "end"
    /\ locked[i] => lease[i] \in {"held", "unlock"} /\ (broken[i] \/ count[i] = 1)
    /\ isLeader[i] => /\ lease[i] = "held" /\ locked[i] /\ running[i]
                      /\ stepping[i] = "none" /\ cycle[i] \in {"idle", "check"}
    /\ lease[i] = "none" => ~broken[i] /\ ~failed[i]
    /\ lease[i] = "held" => ~failed[i]
    /\ lease[i] = "held" /\ stepping[i] = "none" /\ cycle[i] \in {"idle", "check"} => isLeader[i]
    /\ lease[i] = "held" /\ cycle[i] \in {"idle", "check"} => locked[i]
    /\ lease[i] = "unlock" => locked[i] /\ cycle[i] \in {"idle", "drain"}
    /\ lease[i] = "end" => failed[i] /\ (broken[i] \/ cycle[i] \in {"idle", "drain"})
    /\ stepping[i] = "lease" => lease[i] # "held" /\ cycle[i] = "idle"
    /\ cycle[i] = "connect" => lease[i] = "none"
    /\ cycle[i] = "drain" => lease[i] # "held"
    /\ cycle[i] \in {"lock", "answer"} => ~locked[i]
    /\ stopping[i] => ~running[i] /\ stepping[i] # "none"
    /\ stepping[i] # "none" => ~fresh[i] /\ (running[i] \/ stopping[i])
    /\ ~running[i] => ~timer[i] /\ ~starting[i]

\* Why the lock is never left behind and never taken twice, whatever query
\* fails: every instance's lease, lock and cycle fit together, and one session
\* at most holds the lock.  With the type invariant and the one of stop() it is
\* inductive.
LeaderInv ==
    /\ \A i \in Instances : InstanceInv(i)
    /\ \A i, j \in Instances : count[i] = 1 /\ count[j] = 1 => i = j

\* "Zero-downtime failover": while some instance stays up, whatever happened
\* to the others or to its own connection, the fleet has a leader again.
SomeoneLeads ==
    (\E i \in Instances : <>[]running[i]) => []<>(\E i \in Instances : isLeader[i])

\* "execute on exactly ONE instance at a time": no job runs on two instances.
OneJob ==
    \A i, j \in Instances : job[i] /\ job[j] => i = j
=============================================================================
