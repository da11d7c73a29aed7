# NeroNet: TLA+ specifications

TLA+ models of the NeroNet overlay mesh, checked with TLC on small instances,
with TLAPS proofs of the main safety properties for every value of the
constants. `PROJECT.json` lists the runs, the source lines behind each
definition, the findings and the hazards.

## The system

NeroNet is a mesh VPN. Go nodes (`cmd/sovereign-node`, `pkg/`) carry traffic in
WireGuard tunnels. A Node.js control plane (`console/backend`), several
stateless instances over PostgreSQL and Valkey, decides who may talk to whom.

| Part | State | Operations | What is hard about it |
|---|---|---|---|
| Node netmap manager (`netmap.go`) | applied document, version, revocations, fail-closed flag, file on disk | heartbeat answer, revoke, fetch, apply, staleness watch, load, persist | three goroutines share a device, and the mutex is released before the device is touched |
| Device (`pkg/dataplane`) and key rotation (`pskepoch`) | peers in WireGuard, `peerKeys` | `SetPeers`, `UpdatePeerPSK`, rotation loop | a failed request may apply in part |
| Control plane netmap (`NetmapService`, `RevocationEngine`, `AclEngine`, `routes/nodes.js`, `goBridge.js`) | node rows, revoked keys, rules, version counter | console handlers, register, heartbeat, `buildNetmap` | handlers are statements without a transaction; reads run in parallel |
| Leader election (`DistributedLeaderService`) | advisory lock, lease, timer | election cycle, step down, stop, jobs | awaits interleave with stop, step down and lost sessions |
| Heartbeat buffer (`HeartbeatBuffer`) | a hash per node and a set in Valkey, node rows | record, flush | several flushers; read, write and delete are separate awaits |
| Credentials, enrolment, pre-auth keys, challenges | rows and nonces | mint, validate, rotate, revoke, consume | rotation against revocation, lost answers |
| Console sessions, MFA, OIDC | session families, refresh tokens, grants | sign in, rotate, revoke | replayed or concurrent refreshes |
| Audit chain, crypto shredding, peering, routes, compartments, risk | rows | see `PROJECT.json` | concurrent appends, two-person rules |
| Relay, onion routing, ACL filter, replay window, NAT, DNS, proxies | in-memory | see `PROJECT.json` | mostly I/O and algorithms |

A node heartbeats. The answer carries the revoked keys and the netmap version.
A greater version makes the node fetch the document that `buildNetmap`
assembles. Every console change is meant to move the version.

## Modules

### NetmapNode

One node. `pc` is the goroutine that handles heartbeats and documents, `watch`
the staleness watcher, and `RotateKeys` the rotation loop. A step is one
critical section of the manager's mutex or one call on the device, because the
code releases the mutex in between. `wg` holds for each key whether the device
has no peer, a bare peer (a key without addresses, which carries nothing) or a
full one. Time is two flags: the document is past its bound, and so is the
stored one. The control plane is reduced to what a node observes: a version,
the revoked keys, and any document that names no revoked peer.

A process that registered (`mode` is `boot`, `load` or `run`) has a heartbeat
loop. One whose registration attempts all failed (`loadAlone`, `alone`) has none
for as long as it lives (`main.go:149`): it keeps the stored document until the
watcher empties the device. The liveness properties speak of the first kind.
A start with no overlay address (`ErrNoAddresses`) is a process with no peers.
The spike peer document (`dataplane.go:199`), which replaces the peer set in a
lab without a control plane, is not modelled.

### NetmapControl

The rows, and the console handlers as sequences of SQL statements (`todo`), one
statement per step. Registration is one transaction and one step. The reader is
one enrolled node whose `buildNetmap` reads run one at a time: its own row, then
the version, the policy and the revocations, then the candidate rows.
`InIssueOrder` says whether the reads issued together run in the order issued (a
pool of one connection, or SQLite) or in any order (the default pool of 20).
Rule contents are abstracted to the set of nodes the reader may talk to.

The reader is quarantined and released by the same handlers as any node. An
entry of `revoked_keys` keeps its reason when its window ends, and a later
quarantine does not overwrite it. `POST /revoke` takes its reason from the
request, so it may read as a quarantine's. Deleting a user removes the nodes it
owns by cascade. Two history variables: `silent` has the nodes changed by
something that moves no version since the version last moved, and `missed` the
requests whose `revokeNodeKeys` found no row.

### LeaderElection

One step per await of the service. `count` is the session's hold on the
advisory lock, `broken` a session the database has ended and the instance has
not noticed, `orphan` a lock held by a session nobody uses any more.
A query may fail because its session is gone, or return an error on a session
that lives and keeps its lock. `pg_try_advisory_lock` and the end of sessions are
external.

### HeartbeatBuffer

The counters of a hash or a row are the set of the beats they add up, and
`doubled` has the beats a row counts more than once. The gauges are those of one
beat. A flush is claim, read, persist, clean. `Flushers` are flushes in progress,
of any instance. A transaction that returns an error was rolled back, or its
COMMIT took effect and the answer was lost. A hash expires when its node is
silent for `ENTRY_TTL_SECONDS`. That is many flush intervals, so the hash of a
node that flushes still reach expires only in a long outage of the database. The
history variables are `late` (beats buffered while a flush had read the hash),
`expired`, and `repeated` (beats in reach of a second write).

## Runs

| Run | Result | Shows |
|---|---|---|
| `node_faults` | holds | revocations stay removed and the device carries only the document's peers, with refused device calls, a crash and a restore; also the inductive invariant |
| `node_progress` | holds | a registered process reaches the control plane's version, also after a restore, and comes back after failing closed |
| `control_in_order` | holds | when reads run in order, a reader that is up to date missed only its own quarantine and what no handler announces; a row that DELETE removes has a key revoked for good; only quarantines are lifted |
| `control_concurrent` | holds | whatever the order of the reads, a node that a finished handler withdrew is in no current document |
| `leader_faults` | holds | one leader, no leaked lock, stop is final, the inductive invariant, and failover |
| `buffer_faults` | holds | only late and expired beats are lost; what is counted twice was read by two flushes or stayed in reach after it was written; while no instance crashes and Valkey answers, nothing is stranded |
| `buffer_one_flush` | holds | with one flush at a time, no crash and a Valkey that answers, gauges never go back and every beat no flush overtook reaches the row |
| `node_stale_reopened` | violated | a revocation reinstalls the peers of an expired document |
| `control_reads_race` | violated | a reader quarantined between the reads of its own row and of the version gets a current document that names its peers |
| `control_unquarantine` | violated | `/unquarantine`, PUT and `attestNode` leave the revocation, run after a quarantine or beside one |
| `leader_job_overlap` | violated | a job outlives the lock it started under |
| `buffer_lost_beat` | violated | a beat between a flush's read and its delete is lost |

A violated run states what a comment of the source promises. `PROJECT.json`
quotes the comment and names the line that departs from it.

TLC finds more counterexamples in the same modules with other instances:

| Property | Instance | What happens |
|---|---|---|
| `AppliedWhole` | `NodeStaleReopened.cfg`, one key | `EnforceStaleness` empties the device after an apply that recovered (`netmap.go:438`) |
| `NoLeftoverPeer` | one key, `MayGoStale = FALSE` | `UpdatePeerPSK` recreates a removed peer, without addresses, that `SetPeers` does not know (`dataplane.go:456`) |
| `RevocationLands` | `FairSpec`, one key, `MaxFailures = 1` | a revocation the device refused is not retried (`netmap.go:399`) |
| `HoldsTheVersion` | `NodeProgress.cfg`, `MaxVersion = 3`, no crash, `MayGoStale = FALSE` | after a restore the node keeps its newer document until the version passes it again (`netmap.go:154`) |
| `NothingMissed` | `ControlInOrder.cfg`, only `BeatsRevive` | a heartbeat changes the peer sets without a bump (`HeartbeatBuffer.js:232`) |
| `NothingMissed` | `ControlInOrder.cfg`, only `MaxDeaths = 1` | the instance stops between a write and its bump (`nodes.js:394`) |
| `NothingMissed` | `ControlInOrder.cfg`, only `KeysExpire` | a revocation expires and no version moves (`RevocationEngine.js:178`) |
| `NothingMissed` | `ControlInOrder.cfg`, only `UsersGo` | a deleted user's nodes go and no version moves (`users.js:190`) |
| `GaugeNeverGoesBack` | `BufferLostBeat.cfg`, two flushes | overlapping flushes commit out of order |

With all four switched off, `NothingMissed` holds on that instance.

`OneLeader` speaks of instances whose sessions live. An instance whose session
the database has ended may call itself leader until it is told, and no lock
service of this kind avoids that.

### Bounds

- Node: two versions give an old and a new document. One key, with one fault of
  each kind: the properties are about one key at a time, and the theorems cover
  any number. `node_stale_reopened` has two, so that one is revoked and the
  other stays.
- Control: the reader and one other node, two requests in flight, three changes
  in all, one request cut off. Handlers touch one node, so interference needs
  two requests on the same one, and the third is what a reader may miss.
  `control_concurrent` leaves expiry out: it changes no row.
  `CHECK_DEADLOCK FALSE`: the model stops when its changes are spent.
- Leader: two instances, two faults, one stop. A third instance adds a waiter
  of the same kind.
- Buffer: with faults one node, two flushes, four beats and one failure of each
  kind: hashes are independent. With one flush two nodes and a batch of one, so
  that a flush leaves a node for the next, and two failed transactions.
  Deadlock is not checked, because beats are bounded.

### Fairness

- Node: goroutines keep running and calls return (weak). A heartbeat or a fetch
  that is retried on every tick succeeds again and again if the control plane is
  reachable again and again (strong).
- Leader: queries are answered or fail, timers fire, the database ends dead
  sessions.
- Buffer: the flush timer fires and its calls return.

## Proofs

`NetmapNodeProofs` proves, for every set of keys and every bound:

- `TypeCorrect`;
- `RevocationsApplied`: `Spec => []RevokedKeyRemoved`;
- `OnlyDocumentPeers`: `Spec => []CarriesOnlyTheDocument`.

Neither property is inductive. `RevocationInv` adds that a document in hand
lists every key still owed, that the device holds what `SetPeers` was last
given, and that nothing recorded as revoked is routed. All three theorems follow
from `NodeInv == TypeOK /\ RevocationInv /\ CarriesOnlyTheDocument`. They rest
on `NetmapNodeAssumption` only. The two safety properties are conditional on the
device having accepted its updates; `RevocationLands` in the table above shows
what happens otherwise.

`LeaderElectionProofs` proves, for every set of instances:

- `TypeCorrect`;
- `AtMostOneLeader`: `Spec => []OneLeader`;
- `LockNeverLeaks`: `Spec => []LockIsLeased`;
- `StopIsFinal`: `Spec => []StoppedHoldsNothing`.

A lock is never left behind because every way a query can fail, also on a session
that lives, marks the lease as failed, and a failed lease's connection is ended
before it goes back to the pool. `InstanceInv` ties each point of the election
cycle, of stepping down and of releasing to the lease and lock it goes with.
`LeaderInv` adds that one session at most holds the lock. The theorems follow from
`TypeOK /\ LeaderInv /\ StoppedHoldsNothing`. One lemma per conjunct shows that
each action keeps it.

Only model-checked: all liveness (TLAPS here has no ENABLED or fairness
reasoning), and everything about `NetmapControl` and `HeartbeatBuffer`.

## Not modelled

Cryptography, encodings, packet and stream I/O, the user interface, deployment
files and metrics formatting. Valkey losing data is accepted loss in the code and
left out. The components table of `PROJECT.json` gives the reason for each part.

## Plan

1. `NodeCredential`: mint, validate, rotate and revoke against quarantine, with
   lost answers; enrolment with pre-auth keys and challenges.
2. `ConsoleSession`: families, refresh rotation and replay, root grants, MFA
   codes; an abstract specification (a refresh token is spent once) that it
   implements.
3. `NetmapControl` extended with endpoint recording, automatic quarantine and
   compartment moves; `NetmapMesh` composing it with `NetmapNode`, and an
   abstract "revoked peers leave within the bound" specification it refines.
4. `AuditChain` and `CryptoShredding`: concurrent appends, holds against
   destruction.
5. Algorithms: the replay window with its width, ACL evaluation against
   `simulatePacket`, route failover, rate-limit windows.
6. `DerpFallback` and the relay's router.
7. Proofs: `WithdrawnPeerLeaves`, `DeletedStaysOut` and `OnlyQuarantinesAreLifted`
   of `NetmapControl`; `OnlyLateOrExpiredBeatsLost` and `NothingStranded` of
   `HeartbeatBuffer`; the refinements of steps 2 and 3.
