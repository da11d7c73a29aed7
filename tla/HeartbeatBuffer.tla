-------------------------- MODULE HeartbeatBuffer --------------------------
(***************************************************************************)
(* services/HeartbeatBuffer.js: heartbeats accumulate in Valkey, a hash    *)
(* per node and a set of nodes with something to flush, and every console  *)
(* instance flushes them to the database on a timer of its own.            *)
(*                                                                         *)
(* The byte counters of a hash or of a row are the set of the beats they   *)
(* add up; a beat that a row counts more than once is recorded apart.  The *)
(* gauges are those of one beat, the last one of the hash.  A flush is a   *)
(* sequence of awaits: claim with SPOP, read the hashes, write one         *)
(* transaction, delete the hashes.  Beats and other flushes, of other      *)
(* instances or of a timer that fires before the last flush has ended,     *)
(* come in between.                                                        *)
(***************************************************************************)
EXTENDS Naturals, FiniteSets, FiniteSetsExt

CONSTANTS
    Nodes,
    Flushers,            \* flushes that may be in progress at one time
    Batch,               \* FLUSH_BATCH
    MaxBeats,            \* bound on the beats of a node
    MaxDbFailures,       \* bound on transactions that return an error
    CommitsMayBeLost,    \* an error may hide a COMMIT that took effect
    LongOutages,         \* the database may refuse flushes for ENTRY_TTL_SECONDS
    MaxValkeyFailures,   \* bound on failed writes to Valkey
    MaxCrashes           \* bound on instances that stop in a flush

ASSUME HeartbeatBufferAssumption ==
    /\ Batch \in Nat \ {0}
    /\ {MaxBeats, MaxDbFailures, MaxValkeyFailures, MaxCrashes} \subseteq Nat
    /\ {CommitsMayBeLost, LongOutages} \subseteq BOOLEAN

VARIABLES
    hash,      \* the beats of every node's hash, {} when there is no hash
    pending,   \* the set of nodes to flush
    counted,   \* the beats in the counters of every node's row
    doubled,   \* those among them that are counted more than once
    shown,     \* the beat whose gauges every node's row has, 0 before the first
    step,      \* where every flush is: idle | read | persist | clean
    claimed,   \* the nodes a flush took from the set
    took,      \* the hashes a flush read
    sent,      \* beats the nodes sent
    late,      \* history: beats buffered while a flush had read the node's hash
    expired,   \* history: beats whose hash ran out of time
    repeated,  \* history: beats that reached the row and stayed in reach of a flush
    dbFailures, valkeyFailures, crashes

rowVars  == <<counted, doubled, shown>>
history  == <<late, expired, repeated>>
failures == <<dbFailures, valkeyFailures, crashes>>
vars == <<hash, pending, rowVars, step, claimed, took, sent, history, failures>>

Beats == 1..MaxBeats

Init ==
    /\ hash = [n \in Nodes |-> {}]
    /\ pending = {}
    /\ counted = [n \in Nodes |-> {}] /\ doubled = [n \in Nodes |-> {}]
    /\ shown = [n \in Nodes |-> 0]
    /\ step = [f \in Flushers |-> "idle"]
    /\ claimed = [f \in Flushers |-> {}]
    /\ took = [f \in Flushers |-> [n \in Nodes |-> {}]]
    /\ sent = [n \in Nodes |-> 0]
    /\ late = [n \in Nodes |-> {}] /\ expired = [n \in Nodes |-> {}]
    /\ repeated = [n \in Nodes |-> {}]
    /\ dbFailures = 0 /\ valkeyFailures = 0 /\ crashes = 0

\* Beats B of every node are added to its set of a history.
Add(f, B) == [n \in Nodes |-> f[n] \cup B[n]]

-----------------------------------------------------------------------------
(* Heartbeats                                                              *)

\* A flush has read the node's hash and has not deleted it yet.
HasRead(n) == \E f \in Flushers : n \in claimed[f] /\ step[f] \in {"persist", "clean"}

\* record's MULTI, one transaction of Valkey: HINCRBY, HSET, EXPIRE and SADD.
\* The hash, new or not, has its whole time to live ahead of it again.
Buffered(n) ==
    /\ hash' = [hash EXCEPT ![n] = @ \cup {sent[n] + 1}]
    /\ pending' = pending \cup {n}
    /\ late' = [late EXCEPT ![n] = IF HasRead(n) THEN @ \cup {sent[n] + 1} ELSE @]

\* The heartbeat handler's UPDATE when the buffer refused the beat.
WrittenThrough(n) ==
    /\ counted' = [counted EXCEPT ![n] = @ \cup {sent[n] + 1}]
    /\ shown' = [shown EXCEPT ![n] = sent[n] + 1]
    /\ UNCHANGED doubled

Sent(n) ==
    /\ sent[n] < MaxBeats
    /\ sent' = [sent EXCEPT ![n] = @ + 1]
    /\ UNCHANGED <<step, claimed, took, expired, dbFailures, crashes>>

Record(n) ==
    /\ Sent(n)
    /\ Buffered(n)
    /\ UNCHANGED <<rowVars, repeated, valkeyFailures>>

\* Valkey fails: the beat is written through, and it may be in the buffer too
\* when only the answer was lost.
RecordFails(n) ==
    /\ Sent(n)
    /\ valkeyFailures < MaxValkeyFailures
    /\ valkeyFailures' = valkeyFailures + 1
    /\ WrittenThrough(n)
    /\ \/ Buffered(n) /\ repeated' = [repeated EXCEPT ![n] = @ \cup {sent[n] + 1}]
       \/ UNCHANGED <<hash, pending, late, repeated>>

-----------------------------------------------------------------------------
(* flush                                                                   *)

\* Mutant: the whole set is claimed.
ClaimableAll == {pending}

\* What SPOP may return: up to FLUSH_BATCH nodes.
Claimable == {ids \in SUBSET pending : Cardinality(ids) = Min({Batch, Cardinality(pending)})}

\* SPOP of up to FLUSH_BATCH nodes.
Claim(f) ==
    /\ step[f] = "idle"
    /\ pending # {}
    /\ \E ids \in Claimable :
          /\ claimed' = [claimed EXCEPT ![f] = ids]
          /\ pending' = pending \ ids
    /\ step' = [step EXCEPT ![f] = "read"]
    /\ UNCHANGED <<hash, rowVars, took, sent, history, failures>>

\* The beats of a claimed node that another flush has read and still holds.
HeldByOther(f, n) == UNION {took[g][n] : g \in Flushers \ {f}}

\* Mutant: the hashes are deleted in the MULTI that reads them.
ReadHashesDeletes(f) ==
    /\ step[f] = "read"
    /\ took' = [took EXCEPT ![f] = [n \in Nodes |-> IF n \in claimed[f] THEN hash[n] ELSE {}]]
    /\ hash' = [n \in Nodes |-> IF n \in claimed[f] THEN {} ELSE hash[n]]
    /\ step' = [step EXCEPT ![f] = "persist"]
    /\ UNCHANGED <<pending, rowVars, claimed, sent, history, failures>>

\* The hashes of the batch, read in one MULTI.
ReadHashes(f) ==
    /\ step[f] = "read"
    /\ took' = [took EXCEPT ![f] = [n \in Nodes |-> IF n \in claimed[f] THEN hash[n] ELSE {}]]
    /\ repeated' = Add(repeated, [n \in Nodes |-> took'[f][n] \cap HeldByOther(f, n)])
    /\ step' = [step EXCEPT ![f] = "persist"]
    /\ UNCHANGED <<hash, pending, rowVars, claimed, sent, late, expired, failures>>

\* HSET overwrites: the gauges of a hash are those of its last beat.
LastBeat(B) == Max(B)

\* Mutant: a missing hash is written as zeros.
StoredZeros(f) ==
    /\ counted' = Add(counted, took[f])
    /\ doubled' = Add(doubled, [n \in Nodes |-> counted[n] \cap took[f][n]])
    /\ shown' = [n \in Nodes |-> IF n \notin claimed[f] THEN shown[n]
                                 ELSE IF took[f][n] = {} THEN 0 ELSE LastBeat(took[f][n])]

\* The UPDATEs of persist take effect: for every node whose hash was there the
\* counters are added and the gauges replaced.
Stored(f) ==
    /\ counted' = Add(counted, took[f])
    /\ doubled' = Add(doubled, [n \in Nodes |-> counted[n] \cap took[f][n]])
    /\ shown' = [n \in Nodes |-> IF took[f][n] = {} THEN shown[n] ELSE LastBeat(took[f][n])]

\* persist commits.
Persist(f) ==
    /\ step[f] = "persist"
    /\ Stored(f)
    /\ step' = [step EXCEPT ![f] = "clean"]
    /\ UNCHANGED <<hash, pending, claimed, took, sent, history, failures>>

\* The flush has nothing in hand any more.
Done(f) ==
    /\ step' = [step EXCEPT ![f] = "idle"]
    /\ claimed' = [claimed EXCEPT ![f] = {}]
    /\ took' = [took EXCEPT ![f] = [n \in Nodes |-> {}]]

\* Mutant: the batch is not put back.
PersistFailsForgets(f) ==
    /\ step[f] = "persist"
    /\ dbFailures < MaxDbFailures
    /\ dbFailures' = dbFailures + 1
    /\ Done(f)
    /\ UNCHANGED <<hash, pending, rowVars, sent, history, valkeyFailures, crashes>>

\* Mutant: the UPDATEs run without a transaction around them.
PersistFailsPartly(f) ==
    /\ step[f] = "persist"
    /\ dbFailures < MaxDbFailures
    /\ dbFailures' = dbFailures + 1
    /\ Stored(f)
    /\ pending' = pending \cup claimed[f]
    /\ Done(f)
    /\ UNCHANGED <<hash, sent, history, valkeyFailures, crashes>>

\* persist throws and the batch goes back to the set.  The transaction is
\* rolled back, or the COMMIT took effect and its answer was lost.
PersistFails(f) ==
    /\ step[f] = "persist"
    /\ dbFailures < MaxDbFailures
    /\ dbFailures' = dbFailures + 1
    /\ \/ UNCHANGED <<rowVars, repeated>>
       \/ CommitsMayBeLost /\ Stored(f) /\ repeated' = Add(repeated, took[f])
    /\ pending' = pending \cup claimed[f]
    /\ Done(f)
    /\ UNCHANGED <<hash, sent, late, expired, valkeyFailures, crashes>>

\* The hashes of the batch are deleted.
Clean(f) ==
    /\ step[f] = "clean"
    /\ hash' = [n \in Nodes |-> IF n \in claimed[f] THEN {} ELSE hash[n]]
    /\ Done(f)
    /\ UNCHANGED <<pending, rowVars, sent, history, failures>>

\* The flush ends early: what the row already has and the hash still holds may
\* be counted again.
Abandoned(f) ==
    /\ repeated' = IF step[f] = "clean" THEN Add(repeated, took[f]) ELSE repeated
    /\ Done(f)
    /\ UNCHANGED <<hash, pending, rowVars, sent, late, expired, dbFailures>>

\* A command of the flush to Valkey fails: the read, the SADD that puts a rolled
\* back batch back, or the deletion of hashes the database already has.  flush
\* catches the error and leaves the rest as it is.
FlushFails(f) ==
    /\ step[f] # "idle"
    /\ valkeyFailures < MaxValkeyFailures
    /\ valkeyFailures' = valkeyFailures + 1
    /\ Abandoned(f)
    /\ UNCHANGED crashes

\* The instance stops between two awaits of its flush.
Crash(f) ==
    /\ step[f] # "idle"
    /\ crashes < MaxCrashes
    /\ crashes' = crashes + 1
    /\ Abandoned(f)
    /\ UNCHANGED valkeyFailures

\* A node is in the set, or in the hands of a flush.
InReach(n) == n \in pending \/ \E f \in Flushers : n \in claimed[f]

\* A node sends nothing for ENTRY_TTL_SECONDS and its hash expires.  That is
\* many flush intervals: the hash of a node in the set is flushed before, unless
\* the database refuses all that time.
HashExpires(n) ==
    /\ hash[n] # {}
    /\ InReach(n) => LongOutages /\ dbFailures > 0
    /\ hash' = [hash EXCEPT ![n] = {}]
    /\ expired' = [expired EXCEPT ![n] = @ \cup hash[n]]
    /\ UNCHANGED <<pending, rowVars, step, claimed, took, sent, late, repeated, failures>>

-----------------------------------------------------------------------------
Flush(f) == Claim(f) \/ ReadHashes(f) \/ Persist(f) \/ Clean(f)

Next ==
    \/ \E n \in Nodes : Record(n) \/ RecordFails(n) \/ HashExpires(n)
    \/ \E f \in Flushers : Flush(f) \/ PersistFails(f) \/ FlushFails(f) \/ Crash(f)

Spec == Init /\ [][Next]_vars

\* The flush timer fires and every call of a flush returns.
FairSpec == Spec /\ \A f \in Flushers : WF_vars(Flush(f))

-----------------------------------------------------------------------------
(* Properties                                                              *)

\* Every variable has its type; a flush holds at most FLUSH_BATCH nodes.
TypeOK ==
    /\ hash \in [Nodes -> SUBSET Beats]
    /\ pending \in SUBSET Nodes
    /\ counted \in [Nodes -> SUBSET Beats] /\ doubled \in [Nodes -> SUBSET Beats]
    /\ shown \in [Nodes -> 0..MaxBeats]
    /\ step \in [Flushers -> {"idle", "read", "persist", "clean"}]
    /\ claimed \in [Flushers -> {S \in SUBSET Nodes : Cardinality(S) <= Batch}]
    /\ took \in [Flushers -> [Nodes -> SUBSET Beats]]
    /\ sent \in [Nodes -> 0..MaxBeats]
    /\ late \in [Nodes -> SUBSET Beats] /\ expired \in [Nodes -> SUBSET Beats]
    /\ repeated \in [Nodes -> SUBSET Beats]
    /\ dbFailures \in 0..MaxDbFailures
    /\ valkeyFailures \in 0..MaxValkeyFailures
    /\ crashes \in 0..MaxCrashes

\* Deleting before the write was known to have succeeded "destroyed the
\* telemetry it was meant to persist": whatever fails, and however many flushes
\* run, a beat that is neither in the row nor in the hash arrived while a flush
\* had read the hash and not yet deleted it, or its hash ran out of time.
OnlyLateOrExpiredBeatsLost ==
    \A n \in Nodes : 1..sent[n] \subseteq counted[n] \cup hash[n] \cup late[n] \cup expired[n]

\* "Several beats arriving between two flushes add up": the row counts a beat
\* twice only when a flush read it while another still held it, when the answer
\* to its COMMIT, the deletion of its hash or its flusher was lost after the row
\* was written, or when it was both buffered and written through.  A flush that
\* was rolled back and retried counts nothing twice.
NothingElseCountedTwice == \A n \in Nodes : doubled[n] \subseteq repeated[n]

\* While no instance stops in a flush and Valkey answers, a node with buffered
\* beats is in the set or in the hands of a flush, so that the next flush finds
\* it: overlapping flushes and failing transactions strand nothing.
NothingStranded ==
    crashes = 0 /\ valkeyFailures = 0 => \A n \in Nodes : hash[n] # {} => InReach(n)

\* "Gauges are last-write-wins": with one flush at a time and a Valkey that
\* answers, the row never goes back to an older beat, whatever is retried.
GaugeNeverGoesBack == [][\A n \in Nodes : shown'[n] >= shown[n]]_vars

\* "Put the work back so the next flush retries it": every beat that was not
\* overtaken by a flush reaches the row, as long as no instance stops in a
\* flush, Valkey answers and the database comes back before the hash expires.
BeatsReachTheRow ==
    \A n \in Nodes, b \in Beats :
        b <= sent[n] /\ b \notin late[n] ~> b \in counted[n]

\* "A beat arriving between the read and the delete would otherwise be
\* discarded": every beat sent is in the row or in the hash.
NothingLost ==
    \A n \in Nodes : 1..sent[n] \subseteq counted[n] \cup hash[n]
=============================================================================
