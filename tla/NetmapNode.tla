----------------------------- MODULE NetmapNode -----------------------------
(***************************************************************************)
(* One node's side of the netmap: cmd/sovereign-node/netmap.go with the    *)
(* peer set of pkg/dataplane and the pre-shared-key rotation of            *)
(* pkg/crypto/pskepoch.                                                    *)
(*                                                                         *)
(* Three goroutines share the manager and the WireGuard device:            *)
(*   - the heartbeat loop (pc), which applies revocations and documents;   *)
(*   - the staleness watcher (watch), which empties the peer set;          *)
(*   - the PSK rotation loop, which rewrites a key of every peer it knows. *)
(* The manager's mutex is released before the device is touched, so a step *)
(* of this module is one critical section or one call on the device.       *)
(*                                                                         *)
(* Of the control plane the module keeps what a node can observe of it:    *)
(* the netmap version and the set of revoked keys, each changed by one     *)
(* committed statement at a time, and the documents it serves.  A document *)
(* never names a revoked key as a peer, and is otherwise arbitrary.        *)
(***************************************************************************)
EXTENDS Naturals

CONSTANTS
    Keys,             \* the public keys of the other nodes
    MaxVersion,       \* bound on the netmap version
    MaxFailures,      \* bound on the device calls that return an error
    MaxCrashes,       \* bound on the restarts of the node process
    MaxRestores,      \* bound on restorations of the database from a backup
    MayGoStale        \* whether an outage may last max_staleness_seconds

ASSUME NetmapNodeAssumption ==
    /\ MaxVersion \in Nat \ {0}
    /\ MaxFailures \in Nat
    /\ MaxCrashes \in Nat
    /\ MaxRestores \in Nat
    /\ MayGoStale \in BOOLEAN

VARIABLES
    cpVersion,    \* the netmap row of mesh_epochs
    cpRevoked,    \* the unexpired rows of revoked_keys
    known,        \* the nodes table has this node's row
    mode,         \* the life of the process: see Modes
    pc,           \* where the goroutine that applies documents stands
    hbKeys,       \* RevokedKeys of the heartbeat response in hand
    hbVersion,    \* NetmapVersion of the heartbeat response in hand
    held,         \* the version named in the netmap request
    doc,          \* the document being applied
    version,      \* netmapManager.version, 0 when none is applied
    peers,        \* netmapManager.peers
    stale,        \* now - confirmedAt >= maxStaleness
    failClosed,   \* netmapManager.failClosed
    revoked,      \* netmapManager.revoked: key -> version it was learned at
    watch,        \* where the staleness watcher stands
    wg,           \* what the WireGuard device holds for every key
    peerKeys,     \* Device.peerKeys, the keys SetPeers believes installed
    pskPeers,     \* the keys the PSK rotation manager was given
    disk,         \* netmap.json, or NoDocument
    diskStale,    \* the stored document is past its staleness bound
    owed,         \* history: keys heard revoked and revoked ever since
    failures, crashes, restores

cpVars   == <<cpVersion, cpRevoked, known, restores>>
hbVars   == <<hbKeys, hbVersion, held, doc>>
mgrVars  == <<version, peers, stale, failClosed, revoked>>
devVars  == <<wg, peerKeys, failures>>
diskVars == <<disk, diskStale>>
vars == <<cpVars, mode, pc, hbVars, mgrVars, watch, devVars, pskPeers,
          diskVars, owed, crashes>>

Versions == 0..MaxVersion

Documents == [version : Versions, peers : SUBSET Keys, revoked : SUBSET Keys]

NoDocument == [version |-> 0, peers |-> {}, revoked |-> {}]

RevokedMaps == UNION {[S -> Versions] : S \in SUBSET Keys}

NothingRevoked == [k \in {} |-> 0]

\* A process is down, or booting (registered, asking for its first document),
\* or loading the document on disk, or running.  "alone" and "loadAlone" are
\* the last two for a process whose registration failed: it has no heartbeat
\* loop and gets none until it is started again.
Modes == {"down", "boot", "load", "loadAlone", "run", "alone"}

Running == mode \in {"run", "alone"}

\* The process leaves its loading state.
Runs == mode' = IF mode \in {"loadAlone", "alone"} THEN "alone" ELSE "run"

\* A peer is absent, or known with a key but no allowed IPs (bare), or full.
PeerStates == {"absent", "bare", "full"}

\* The peers the device carries traffic for: those with allowed IPs.
Routed == {k \in Keys : wg[k] = "full"}

\* The goroutine is done with what it had in hand.
Rest ==
    /\ pc' = "idle"
    /\ hbKeys' = {} /\ hbVersion' = 0 /\ held' = 0 /\ doc' = NoDocument

Init ==
    /\ cpVersion = 1
    /\ cpRevoked = {}
    /\ known = TRUE
    /\ mode = "down"
    /\ pc = "idle"
    /\ hbKeys = {} /\ hbVersion = 0 /\ held = 0 /\ doc = NoDocument
    /\ version = 0 /\ peers = {} /\ stale = FALSE /\ failClosed = FALSE
    /\ revoked = NothingRevoked
    /\ watch = "idle"
    /\ wg = [k \in Keys |-> "absent"]
    /\ peerKeys = {}
    /\ pskPeers = {}
    /\ disk = NoDocument /\ diskStale = FALSE
    /\ owed = {}
    /\ failures = 0 /\ crashes = 0 /\ restores = 0

-----------------------------------------------------------------------------
(* The control plane, as far as a node can observe it                      *)

\* The upsert of a key into revoked_keys commits.
ControlRevoke(k) ==
    /\ k \notin cpRevoked
    /\ cpRevoked' = cpRevoked \cup {k}
    /\ UNCHANGED <<cpVersion, known, restores, mode, pc, hbVars, mgrVars, watch,
                   devVars, pskPeers, diskVars, owed, crashes>>

\* The row of a key is deleted or expires.
ControlWithdraw(k) ==
    /\ k \in cpRevoked
    /\ cpRevoked' = cpRevoked \ {k}
    /\ owed' = owed \ {k}
    /\ UNCHANGED <<cpVersion, known, restores, mode, pc, hbVars, mgrVars, watch,
                   devVars, pskPeers, diskVars, crashes>>

\* bumpEpoch('netmap').  The bound leaves room for the bump of an enrolment.
ControlBump ==
    /\ cpVersion < (IF known THEN MaxVersion ELSE MaxVersion - 1)
    /\ cpVersion' = cpVersion + 1
    /\ UNCHANGED <<cpRevoked, known, restores, mode, pc, hbVars, mgrVars, watch,
                   devVars, pskPeers, diskVars, owed, crashes>>

\* The database is restored from a backup that is older than the netmap
\* version the fleet already holds and predates this node's enrolment.
ControlRestore ==
    /\ restores < MaxRestores
    /\ restores' = restores + 1
    /\ \E v \in 1..(cpVersion - 1) : cpVersion' = v
    /\ \E S \in SUBSET Keys : cpRevoked' = S
    /\ known' = FALSE
    /\ owed' = owed \cap cpRevoked'
    /\ UNCHANGED <<mode, pc, hbVars, mgrVars, watch, devVars, pskPeers,
                   diskVars, crashes>>

-----------------------------------------------------------------------------
(* The device: pkg/dataplane                                               *)

\* Mutant: the request does not name the peers to remove.
SetPeersNeverRemoves(target) ==
    /\ wg' = [k \in Keys |-> IF k \in target THEN "full" ELSE wg[k]]
    /\ peerKeys' = target
    /\ UNCHANGED failures

\* IpcSet applied the whole request: keys installed before and not named now
\* are removed, the named ones are written in full.  A key the device holds
\* but peerKeys does not list is not touched.
SetPeersReturns(target) ==
    /\ wg' = [k \in Keys |-> IF k \in target THEN "full"
                             ELSE IF k \in peerKeys THEN "absent" ELSE wg[k]]
    /\ peerKeys' = target
    /\ UNCHANGED failures

\* SetPeers returned an error: IpcSet applied a prefix of the request, which
\* lists the removals first, and peerKeys keeps its old value.
SetPeersFails(target) ==
    /\ failures < MaxFailures
    /\ failures' = failures + 1
    /\ \E gone \in SUBSET (peerKeys \ target), came \in SUBSET target :
          /\ came # {} => gone = peerKeys \ target
          /\ wg' = [k \in Keys |-> IF k \in came THEN "full"
                                   ELSE IF k \in gone THEN "absent" ELSE wg[k]]
    /\ UNCHANGED peerKeys

\* rotateLocked: UpdatePeerPSK for every key, which names the peer to the
\* device without update_only and so creates the ones the device lacks.
Rotated(dev, keys) ==
    [k \in Keys |-> IF k \in keys /\ dev[k] = "absent" THEN "bare" ELSE dev[k]]

-----------------------------------------------------------------------------
(* The heartbeat loop                                                      *)

\* The control plane's heartbeat handler reads the revocations ...
HeartbeatReadRevoked ==
    /\ mode = "run" /\ pc = "idle"
    /\ hbKeys' = cpRevoked
    /\ pc' = "beat"
    /\ UNCHANGED <<cpVars, mode, hbVersion, held, doc, mgrVars, watch, devVars,
                   pskPeers, diskVars, owed, crashes>>

\* ... and the netmap version last, and the response reaches the node.
HeartbeatReadVersion ==
    /\ pc = "beat"
    /\ known
    /\ hbVersion' = cpVersion
    /\ pc' = "revocations"
    /\ UNCHANGED <<cpVars, mode, hbKeys, held, doc, mgrVars, watch, devVars,
                   pskPeers, diskVars, owed, crashes>>

\* The heartbeat times out or is refused: the loop waits for the next tick.
HeartbeatLost ==
    /\ pc = "beat"
    /\ Rest
    /\ UNCHANGED <<cpVars, mode, mgrVars, watch, devVars, pskPeers, diskVars,
                   owed, crashes>>

\* The control plane has no row for the node: it enrols again, which inserts
\* the row and bumps the version, and waits for the next tick.
Reenrol ==
    /\ pc = "beat"
    /\ ~known
    /\ known' = TRUE
    /\ cpVersion < MaxVersion
    /\ cpVersion' = cpVersion + 1
    /\ Rest
    /\ UNCHANGED <<cpRevoked, restores, mode, mgrVars, watch, devVars, pskPeers,
                   diskVars, owed, crashes>>

\* Mutant: the version after the one the heartbeat reported.
LearnedAtNext(map, keys, atVersion) ==
    [k \in DOMAIN map \cup keys |-> IF k \in keys THEN atVersion + 1 ELSE map[k]]

\* The revocations a heartbeat listed, recorded with the version it reported.
Learned(map, keys, atVersion) ==
    [k \in DOMAIN map \cup keys |->
        IF k \in keys /\ (k \notin DOMAIN map \/ map[k] < atVersion)
        THEN atVersion ELSE map[k]]

\* Mutant: a revocation is recorded and waits for the next document.
RecordRevocationsLazily ==
    /\ pc = "revocations"
    /\ revoked' = Learned(revoked, hbKeys, hbVersion)
    /\ pc' = "confirm"
    /\ owed' = hbKeys \cap cpRevoked
    /\ hbKeys' = {}
    /\ UNCHANGED <<cpVars, mode, hbVersion, held, doc, version, peers, stale, failClosed,
                   watch, devVars, pskPeers, diskVars, crashes>>

\* ApplyRevocations, under the mutex.  Nothing newly revoked: the device is
\* not touched.
RecordRevocations ==
    /\ pc = "revocations"
    /\ revoked' = Learned(revoked, hbKeys, hbVersion)
    /\ pc' = IF hbKeys \subseteq DOMAIN revoked THEN "confirm" ELSE "rebuild"
    /\ owed' = hbKeys \cap cpRevoked
    /\ hbKeys' = {}
    /\ UNCHANGED <<cpVars, mode, hbVersion, held, doc, version, peers, stale, failClosed,
                   watch, devVars, pskPeers, diskVars, crashes>>

\* Mutant: the peer set is rebuilt without the revocations.
RebuildPeersUnfiltered ==
    /\ pc = "rebuild"
    /\ SetPeersReturns(peers) \/ SetPeersFails(peers)
    /\ pc' = "confirm"
    /\ UNCHANGED <<cpVars, mode, hbVars, mgrVars, watch, pskPeers, diskVars,
                   owed, crashes>>

\* ApplyRevocations, after the mutex: the document's peers without the
\* revoked ones.  An error is logged and nothing else.
RebuildPeers ==
    /\ pc = "rebuild"
    /\ \/ SetPeersReturns(peers \ DOMAIN revoked)
       \/ SetPeersFails(peers \ DOMAIN revoked)
    /\ pc' = "confirm"
    /\ UNCHANGED <<cpVars, mode, hbVars, mgrVars, watch, pskPeers, diskVars,
                   owed, crashes>>

\* Confirm: the control plane answered.
Confirm ==
    /\ pc = "confirm"
    /\ stale' = FALSE
    /\ pc' = "decide"
    /\ UNCHANGED <<cpVars, mode, hbVars, version, peers, failClosed, revoked,
                   watch, devVars, pskPeers, diskVars, owed, crashes>>

\* Mutant: a version one ahead is taken for the one held.
FetchNeededTwoAhead == failClosed \/ hbVersion > version + 1

\* Mutant: a node that failed closed waits for a new version.
FetchNeededNewVersion == hbVersion > version

FetchNeeded == failClosed \/ hbVersion > version

\* onHeartbeat asks for a document when the version advanced, and asks as if
\* it held none when it is recovering from a fail-closed.
Decide ==
    /\ pc = "decide"
    /\ IF FetchNeeded
       THEN /\ pc' = "fetch"
            /\ held' = IF failClosed THEN 0 ELSE version
            /\ hbVersion' = 0
            /\ UNCHANGED <<hbKeys, doc>>
       ELSE Rest
    /\ UNCHANGED <<cpVars, mode, mgrVars, watch, devVars, pskPeers, diskVars,
                   owed, crashes>>

-----------------------------------------------------------------------------
(* Fetching a document                                                     *)

\* The request fails, the control plane holds the version the node named, or
\* the document does not convert: nothing is touched.
FetchKeepsDocument ==
    /\ mode = "run" /\ pc = "fetch"
    /\ Rest
    /\ UNCHANGED <<cpVars, mode, mgrVars, watch, devVars, pskPeers,
                   diskVars, owed, crashes>>

\* buildNetmap starts: it reads the version and the revocations ...
FetchStarts ==
    /\ pc = "fetch"
    /\ known
    /\ held # cpVersion
    /\ doc' = [version |-> cpVersion, peers |-> {}, revoked |-> cpRevoked]
    /\ pc' = "serving"
    /\ held' = 0
    /\ UNCHANGED <<cpVars, mode, hbKeys, hbVersion, mgrVars, watch,
                   devVars, pskPeers, diskVars, owed, crashes>>

\* ... in either order, at different moments ...
FetchReadsLate ==
    /\ pc = "serving"
    /\ \/ doc' = [doc EXCEPT !.version = cpVersion]
       \/ doc' = [doc EXCEPT !.revoked = cpRevoked]
    /\ doc' # doc
    /\ UNCHANGED <<cpVars, mode, pc, hbKeys, hbVersion, held, mgrVars, watch,
                   devVars, pskPeers, diskVars, owed, crashes>>

\* ... and then names peers none of which it read as revoked.
FetchReturns ==
    /\ pc = "serving"
    /\ \E S \in SUBSET (Keys \ doc.revoked) : doc' = [doc EXCEPT !.peers = S]
    /\ pc' = "install"
    /\ UNCHANGED <<cpVars, mode, hbKeys, hbVersion, held, mgrVars, watch,
                   devVars, pskPeers, diskVars, owed, crashes>>

-----------------------------------------------------------------------------
(* Apply                                                                   *)

\* The revocations that survive a document: a key the document does not list
\* is withdrawn unless it was learned at a later version.
Merged(map, d) ==
    LET kept == {k \in DOMAIN map : ~(d.version >= map[k] /\ k \notin d.revoked)}
    IN  [k \in kept \cup d.revoked |->
            IF k \in d.revoked /\ (k \notin kept \/ map[k] < d.version)
            THEN d.version ELSE map[k]]

\* Apply up to its SetPeers.  Only this goroutine writes netmapManager.revoked,
\* so reading it and installing the peers are one step.  When the device
\* refuses, the document in hand is dropped.
InstallPeers ==
    /\ pc = "install"
    /\ \/ /\ SetPeersReturns(doc.peers \ DOMAIN Merged(revoked, doc))
          /\ pc' = "record"
          /\ UNCHANGED <<mode, hbVars>>
       \/ /\ SetPeersFails(doc.peers \ DOMAIN Merged(revoked, doc))
          /\ mode # "boot"
          /\ Rest
          /\ Runs
    /\ UNCHANGED <<cpVars, mgrVars, watch, pskPeers, diskVars, owed,
                   crashes>>

\* Apply's second critical section.
RecordDocument ==
    /\ pc = "record"
    /\ version' = doc.version
    /\ peers' = doc.peers
    /\ stale' = FALSE
    /\ failClosed' = FALSE
    /\ revoked' = Merged(revoked, doc)
    /\ pc' = "psk"
    /\ UNCHANGED <<cpVars, mode, hbVars, watch, devVars, pskPeers, diskVars,
                   owed, crashes>>

\* psk.SetPeers with every peer the document names, which rotates at once.
HandPeersToRotation ==
    /\ pc = "psk"
    /\ pskPeers' = doc.peers
    /\ wg' = Rotated(wg, doc.peers)
    /\ pc' = "persist"
    /\ UNCHANGED <<cpVars, mode, hbVars, mgrVars, watch, peerKeys, failures,
                   diskVars, owed, crashes>>

\* persist: a temporary file and a rename.  An error is logged and the older
\* document stays.  A document that came from disk keeps its age.
Persist ==
    /\ pc = "persist"
    /\ \/ disk' = doc /\ diskStale' = (diskStale /\ mode \in {"load", "loadAlone"})
       \/ UNCHANGED diskVars
    /\ Rest
    /\ Runs
    /\ UNCHANGED <<cpVars, mgrVars, watch, devVars, pskPeers, owed, crashes>>

-----------------------------------------------------------------------------
(* Starting, stopping, the other two goroutines and time                   *)

\* main: one of registerWithRetry's attempts succeeds, and the heartbeat loop
\* starts.  A node without a row gets one, which bumps the version.  Then
\* startDataplane asks for the first document as if none were held.
StartRegistered ==
    /\ mode = "down"
    /\ known' = TRUE
    /\ known \/ cpVersion < MaxVersion
    /\ cpVersion' = IF known THEN cpVersion ELSE cpVersion + 1
    /\ mode' = "boot"
    /\ pc' = "fetch"
    /\ held' = 0
    /\ UNCHANGED <<cpRevoked, restores, hbKeys, hbVersion, doc, mgrVars, watch, devVars,
                   pskPeers, diskVars, owed, crashes>>

\* LoadPersisted applies the stored document if there is one inside its bound.
\* If not, the process runs without a peer, at default deny.
LoadPersisted(loading, running) ==
    /\ IF disk # NoDocument /\ ~diskStale
       THEN mode' = loading /\ pc' = "install" /\ doc' = disk
                              /\ UNCHANGED <<hbKeys, hbVersion, held>>
       ELSE mode' = running /\ Rest
    /\ UNCHANGED <<cpVars, mgrVars, watch, devVars,
                   pskPeers, diskVars, owed, crashes>>

\* The request for the first document fails.
FirstFetchFails ==
    /\ mode = "boot" /\ pc = "fetch"
    /\ LoadPersisted("load", "run")

\* Every attempt to register failed: the process starts no heartbeat loop and
\* asks for no document.
StartUnregistered ==
    /\ mode = "down"
    /\ LoadPersisted("loadAlone", "alone")

\* The process ends: memory and the device are gone, the file stays.
ProcessEnds ==
    /\ mode' = "down"
    /\ Rest
    /\ version' = 0 /\ peers' = {} /\ stale' = FALSE /\ failClosed' = FALSE
    /\ revoked' = NothingRevoked
    /\ watch' = "idle"
    /\ wg' = [k \in Keys |-> "absent"]
    /\ peerKeys' = {}
    /\ pskPeers' = {}
    /\ owed' = {}
    /\ UNCHANGED <<cpVars, diskVars>>

\* The node stops or is killed, at any point.
Crash ==
    /\ mode # "down"
    /\ crashes < MaxCrashes
    /\ crashes' = crashes + 1
    /\ ProcessEnds
    /\ UNCHANGED failures

\* startDataplane returns the error of the first Apply and the node exits.
InitialApplyFails ==
    /\ mode = "boot" /\ pc = "install"
    /\ failures < MaxFailures
    /\ failures' = failures + 1
    /\ ProcessEnds
    /\ UNCHANGED crashes

\* EnforceStaleness, under the mutex.
EnforceStaleness ==
    /\ Running /\ watch = "idle"
    /\ version # 0 /\ ~failClosed /\ stale
    /\ failClosed' = TRUE
    /\ watch' = "empty"
    /\ UNCHANGED <<cpVars, mode, pc, hbVars, version, peers, stale, revoked,
                   devVars, pskPeers, diskVars, owed, crashes>>

\* EnforceStaleness, after the mutex: SetPeers(nil).  An error is logged.
EmptyPeers ==
    /\ watch = "empty"
    /\ SetPeersReturns({}) \/ SetPeersFails({})
    /\ watch' = "idle"
    /\ UNCHANGED <<cpVars, mode, pc, hbVars, mgrVars, pskPeers, diskVars, owed,
                   crashes>>

\* The PSK loop notices a new epoch.
RotateKeys ==
    /\ Running
    /\ wg' = Rotated(wg, pskPeers)
    /\ wg' # wg
    /\ UNCHANGED <<cpVars, mode, pc, hbVars, mgrVars, watch, peerKeys,
                   failures, pskPeers, diskVars, owed, crashes>>

\* max_staleness_seconds pass with no answer from the control plane: the
\* heartbeat loop is between two beats or waiting for an answer.
OutageOutlastsBound ==
    /\ MayGoStale
    /\ Running /\ version # 0
    /\ pc \in {"idle", "beat"}
    /\ stale' = TRUE
    /\ UNCHANGED <<cpVars, mode, pc, hbVars, version, peers, failClosed,
                   revoked, watch, devVars, pskPeers, diskVars, owed, crashes>>

\* The stored document grows older than its bound.
StoredDocumentExpires ==
    /\ disk # NoDocument
    /\ diskStale' = TRUE
    /\ UNCHANGED <<cpVars, mode, pc, hbVars, mgrVars, watch, devVars, pskPeers,
                   disk, owed, crashes>>

-----------------------------------------------------------------------------
Control ==
    \/ \E k \in Keys : ControlRevoke(k) \/ ControlWithdraw(k)
    \/ ControlBump
    \/ ControlRestore

HeartbeatLoop ==
    \/ HeartbeatReadRevoked \/ HeartbeatReadVersion \/ HeartbeatLost \/ Reenrol
    \/ RecordRevocations \/ RebuildPeers \/ Confirm \/ Decide

ApplyDocument ==
    \/ FetchStarts \/ FetchReadsLate \/ FetchReturns \/ FetchKeepsDocument
    \/ InstallPeers \/ RecordDocument \/ HandPeersToRotation \/ Persist

Lifecycle ==
    \/ StartRegistered \/ FirstFetchFails \/ StartUnregistered
    \/ Crash \/ InitialApplyFails

Background == EnforceStaleness \/ EmptyPeers \/ RotateKeys

Time == OutageOutlastsBound \/ StoredDocumentExpires

Next == Control \/ HeartbeatLoop \/ ApplyDocument \/ Lifecycle \/ Background \/ Time

Spec == Init /\ [][Next]_vars

\* Every goroutine keeps running and every call returns.  A lost heartbeat or
\* a failed fetch is retried on the next tick, and the network delivers one
\* again and again, so those two successes are strongly fair.
Fairness ==
    /\ WF_vars(StartRegistered \/ StartUnregistered)
    /\ WF_vars(FetchStarts \/ FirstFetchFails)
    /\ WF_vars(HeartbeatReadRevoked)
    /\ WF_vars(HeartbeatReadVersion \/ HeartbeatLost \/ Reenrol)
    /\ SF_vars(HeartbeatReadVersion \/ Reenrol)
    /\ WF_vars(FetchStarts \/ FetchKeepsDocument)
    /\ SF_vars(FetchStarts)
    /\ WF_vars(FetchReturns)
    /\ WF_vars(RecordRevocations \/ RebuildPeers \/ Confirm \/ Decide)
    /\ WF_vars(InstallPeers \/ RecordDocument \/ HandPeersToRotation \/ Persist)
    /\ WF_vars(EnforceStaleness \/ EmptyPeers)

FairSpec == Spec /\ Fairness

-----------------------------------------------------------------------------
(* Properties                                                              *)

PCs == {"idle", "beat", "revocations", "rebuild", "confirm", "decide", "fetch",
        "serving", "install", "record", "psk", "persist"}

\* Every variable has its type.
TypeOK ==
    /\ cpVersion \in Versions /\ cpRevoked \in SUBSET Keys /\ known \in BOOLEAN
    /\ mode \in Modes
    /\ pc \in PCs
    /\ hbKeys \in SUBSET Keys /\ hbVersion \in Versions /\ held \in Versions
    /\ doc \in Documents
    /\ version \in Versions /\ peers \in SUBSET Keys
    /\ stale \in BOOLEAN /\ failClosed \in BOOLEAN
    /\ revoked \in RevokedMaps
    /\ watch \in {"idle", "empty"}
    /\ wg \in [Keys -> PeerStates] /\ peerKeys \in SUBSET Keys
    /\ pskPeers \in SUBSET Keys
    /\ disk \in Documents /\ diskStale \in BOOLEAN
    /\ owed \in SUBSET Keys
    /\ failures \in 0..MaxFailures /\ crashes \in 0..MaxCrashes
    /\ restores \in 0..MaxRestores

\* Rule 3 of netmap.go, "revocations are applied the moment they are seen": a
\* key that a heartbeat listed, and that has stayed revoked since, is carried
\* by no later step of any goroutine, whatever document is applied next, as
\* long as the device accepts what it is given.
RevokedKeyRemoved ==
    pc # "rebuild" /\ failures = 0 => owed \cap Routed = {}

\* Rules 1 and 2: whatever interleaving of document, revocation and staleness
\* steps, the device carries only peers that the applied document names (the
\* one being applied, between its SetPeers and its record).  Before the first
\* document that is nobody.
CarriesOnlyTheDocument ==
    failures = 0 => Routed \subseteq (IF pc = "record" THEN doc.peers ELSE peers)

\* Why the two properties above hold, step by step: documents in hand list
\* every key still owed, only a running node owes anything, and the device
\* carries exactly the keys SetPeers was last given, none of them recorded as
\* revoked.  Between a document's SetPeers and its record the revocations that
\* count are those the document leaves.
RevocationInv ==
    /\ mode = "down" => pc = "idle"
    /\ pc \in {"beat", "revocations", "rebuild", "confirm", "decide"} => mode = "run"
    /\ mode # "run" => owed = {}
    /\ owed \subseteq cpRevoked \cap DOMAIN revoked
    /\ pc \in {"serving", "install", "record"} => owed \subseteq doc.revoked
    /\ failures = 0 =>
          /\ Routed = peerKeys
          /\ pc \notin {"rebuild", "record"} => Routed \cap DOMAIN revoked = {}
          /\ pc = "record" => Routed \cap DOMAIN Merged(revoked, doc) = {}

\* The process has registered, so its heartbeat loop runs.
Registered == mode \in {"boot", "load", "run"}

\* The heartbeat's version number is enough: whatever is lost, refused or
\* restored from a backup, a process that has registered and keeps running is
\* never left behind the version the control plane holds.
TracksControlPlane == Registered ~> (version >= cpVersion \/ ~Registered)

\* The same without the case of a node that is ahead of a restored database.
HoldsTheVersion == Registered ~> (version = cpVersion \/ ~Registered)

\* A registered process that failed closed asks again although no version has
\* moved, and leaves that state once the control plane answers.
FailClosedEnds == (failClosed /\ Registered) ~> ~(failClosed /\ Registered)

\* Rule 3: once the age has passed the bound, and the watcher is done, every
\* peer is removed.
StaleRemovesEveryPeer ==
    stale /\ failClosed /\ watch = "idle" /\ pc = "idle" /\ failures = 0
        => Routed = {}

\* Rule 2, "applied whole or not at all": with no step in flight and the node
\* not failed closed, the device carries the applied document's peers, less
\* the revoked ones.
AppliedWhole ==
    Running /\ pc = "idle" /\ watch = "idle" /\ ~failClosed /\ failures = 0
        => Routed = peers \ DOMAIN revoked

\* SetPeers, "every peer not in the new set is removed": with no call in
\* flight the device knows no key beyond the last set it was given.
NoLeftoverPeer ==
    pc = "idle" /\ watch = "idle" /\ failures = 0
        => {k \in Keys : wg[k] # "absent"} \subseteq peerKeys

\* A revocation the node heard of reaches the device sooner or later, even if
\* one call on the device fails.
RevocationLands ==
    \A k \in Keys : k \in owed ~> k \notin owed \cap Routed
=============================================================================
