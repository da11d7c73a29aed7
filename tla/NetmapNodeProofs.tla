-------------------------- MODULE NetmapNodeProofs --------------------------
(* Proofs about NetmapNode, for every set of keys and every bound. *)
EXTENDS NetmapNode, TLAPS

-----------------------------------------------------------------------------
(* What a revocation map is                                                *)

\* A function from some of the keys to versions is a revocation map.
LEMMA RevokedMapIntro ==
    ASSUME NEW S \in SUBSET Keys, NEW f \in [S -> Versions]
    PROVE  f \in RevokedMaps
BY DEF RevokedMaps

\* A revocation map is defined on keys and gives versions.
LEMMA RevokedMapElim ==
    ASSUME NEW m \in RevokedMaps
    PROVE  /\ DOMAIN m \subseteq Keys
           /\ \A k \in DOMAIN m : m[k] \in Versions
BY DEF RevokedMaps

\* ApplyRevocations keeps every recorded key and adds the ones it was given.
LEMMA LearnedFacts ==
    ASSUME NEW m \in RevokedMaps, NEW K \in SUBSET Keys, NEW v \in Versions
    PROVE  /\ Learned(m, K, v) \in RevokedMaps
           /\ DOMAIN Learned(m, K, v) = DOMAIN m \cup K
<1>1. DOMAIN m \subseteq Keys /\ \A k \in DOMAIN m : m[k] \in Versions
  BY RevokedMapElim
<1>2. Learned(m, K, v) \in [DOMAIN m \cup K -> Versions]
  BY <1>1 DEF Learned
<1>3. DOMAIN m \cup K \in SUBSET Keys
  BY <1>1
<1>. QED  BY <1>2, <1>3, RevokedMapIntro

\* Apply drops withdrawn keys and keeps every key the document lists.
LEMMA MergedFacts ==
    ASSUME NEW m \in RevokedMaps, NEW d \in Documents
    PROVE  /\ Merged(m, d) \in RevokedMaps
           /\ d.revoked \subseteq DOMAIN Merged(m, d)
<1>. DEFINE kept == {k \in DOMAIN m : ~(d.version >= m[k] /\ k \notin d.revoked)}
<1>1. DOMAIN m \subseteq Keys /\ \A k \in DOMAIN m : m[k] \in Versions
  BY RevokedMapElim
<1>2. d.revoked \in SUBSET Keys /\ d.version \in Versions
  BY DEF Documents
<1>3. kept \cup d.revoked \in SUBSET Keys
  BY <1>1, <1>2
<1>4. Merged(m, d) \in [kept \cup d.revoked -> Versions]
  BY <1>1, <1>2 DEF Merged
<1>. QED  BY <1>3, <1>4, RevokedMapIntro

-----------------------------------------------------------------------------
(* Type correctness                                                        *)

USE DEF cpVars, hbVars, mgrVars, devVars, diskVars

\* Every version is a natural number.
LEMMA VersionFacts ==
    /\ Versions \subseteq Nat
    /\ 0 \in Versions /\ 1 \in Versions
    /\ \A v \in Versions : v < MaxVersion => v + 1 \in Versions
    /\ \A v \in Versions : 1..(v - 1) \subseteq Versions
BY NetmapNodeAssumption DEF Versions

\* The document nobody sent is a document, and no key is revoked at first.
LEMMA InitialValues ==
    /\ NoDocument \in Documents
    /\ NothingRevoked \in RevokedMaps
    /\ DOMAIN NothingRevoked = {}
<1>1. NoDocument \in Documents
  BY VersionFacts DEF NoDocument, Documents
<1>2. NothingRevoked \in [{} -> Versions]
  BY DEF NothingRevoked
<1>3. DOMAIN NothingRevoked = {}
  BY DEF NothingRevoked
<1>. QED  BY <1>1, <1>2, <1>3, RevokedMapIntro

\* The device operations keep the device's variables in their types.
LEMMA SetPeersTypes ==
    ASSUME TypeOK, NEW T \in SUBSET Keys,
           SetPeersReturns(T) \/ SetPeersFails(T)
    PROVE  /\ wg' \in [Keys -> PeerStates]
           /\ peerKeys' \in SUBSET Keys
           /\ failures' \in 0..MaxFailures
<1>1. CASE SetPeersReturns(T)
  BY <1>1 DEF TypeOK, SetPeersReturns, PeerStates
<1>2. CASE SetPeersFails(T)
  <2>1. wg' \in [Keys -> PeerStates]
    BY <1>2 DEF TypeOK, SetPeersFails, PeerStates
  <2>2. peerKeys' \in SUBSET Keys
    BY <1>2 DEF TypeOK, SetPeersFails
  <2>3. failures' \in 0..MaxFailures
    BY <1>2, NetmapNodeAssumption DEF TypeOK, SetPeersFails
  <2>. QED  BY <2>1, <2>2, <2>3
<1>. QED  BY <1>1, <1>2

\* A process that ends leaves every variable but the counters in its type.
LEMMA ProcessEndsTypes ==
    ASSUME TypeOK, ProcessEnds,
           failures' \in 0..MaxFailures, crashes' \in 0..MaxCrashes
    PROVE  TypeOK'
<1>1. wg' \in [Keys -> PeerStates]
  BY DEF ProcessEnds, PeerStates
<1>2. /\ version' \in Versions /\ hbVersion' \in Versions /\ held' \in Versions
      /\ doc' \in Documents /\ revoked' \in RevokedMaps
  BY VersionFacts, InitialValues DEF ProcessEnds, Rest
<1>3. /\ cpVersion' \in Versions /\ cpRevoked' \in SUBSET Keys /\ known' \in BOOLEAN
      /\ restores' \in 0..MaxRestores /\ disk' \in Documents /\ diskStale' \in BOOLEAN
  BY DEF TypeOK, ProcessEnds
<1>4. /\ mode' \in Modes /\ pc' \in PCs
      /\ watch' \in {"idle", "empty"}
      /\ stale' \in BOOLEAN /\ failClosed' \in BOOLEAN
  BY DEF ProcessEnds, Rest, PCs, Modes
<1>5. /\ hbKeys' \in SUBSET Keys /\ peers' \in SUBSET Keys /\ owed' \in SUBSET Keys
      /\ peerKeys' \in SUBSET Keys /\ pskPeers' \in SUBSET Keys
  BY DEF ProcessEnds, Rest
<1>. QED  BY <1>1, <1>2, <1>3, <1>4, <1>5 DEF TypeOK

\* Every variable keeps its type: all steps of Next preserve TypeOK.
LEMMA TypeStep == TypeOK /\ [Next]_vars => TypeOK'
<1> SUFFICES ASSUME TypeOK, [Next]_vars PROVE TypeOK'
  OBVIOUS
<1>. USE VersionFacts, InitialValues
<1>1. CASE UNCHANGED vars
  BY <1>1 DEF TypeOK, vars
<1>2. CASE Control
  <2>1. ASSUME NEW k \in Keys, ControlRevoke(k) \/ ControlWithdraw(k) PROVE TypeOK'
    BY <2>1 DEF TypeOK, ControlRevoke, ControlWithdraw
  <2>2. CASE ControlBump
    <3>1. cpVersion' \in Versions
      BY <2>2, NetmapNodeAssumption DEF TypeOK, ControlBump, Versions
    <3>. QED  BY <2>2, <3>1 DEF TypeOK, ControlBump
  <2>3. CASE ControlRestore
    <3>1. cpVersion' \in Versions /\ restores' \in 0..MaxRestores
      BY <2>3, NetmapNodeAssumption DEF TypeOK, ControlRestore
    <3>. QED  BY <2>3, <3>1 DEF TypeOK, ControlRestore
  <2>. QED  BY <1>2, <2>1, <2>2, <2>3 DEF Control
<1>3. CASE HeartbeatLoop
  <2>1. CASE HeartbeatReadRevoked
    BY <2>1 DEF TypeOK, HeartbeatReadRevoked, PCs
  <2>2. CASE HeartbeatReadVersion
    BY <2>2 DEF TypeOK, HeartbeatReadVersion, PCs
  <2>3. CASE HeartbeatLost
    BY <2>3 DEF TypeOK, HeartbeatLost, Rest, PCs
  <2>4. CASE Reenrol
    BY <2>4 DEF TypeOK, Reenrol, Rest, PCs
  <2>5. CASE RecordRevocations
    <3>1. revoked' \in RevokedMaps
      BY <2>5, LearnedFacts DEF TypeOK, RecordRevocations
    <3>. QED  BY <2>5, <3>1 DEF TypeOK, RecordRevocations, PCs
  <2>6. CASE RebuildPeers
    <3>1. /\ wg' \in [Keys -> PeerStates]
          /\ peerKeys' \in SUBSET Keys
          /\ failures' \in 0..MaxFailures
      <4>1. peers \ DOMAIN revoked \in SUBSET Keys
        BY DEF TypeOK
      <4>. QED  BY <2>6, <4>1, SetPeersTypes DEF RebuildPeers
    <3>. QED  BY <2>6, <3>1 DEF TypeOK, RebuildPeers, PCs
  <2>7. CASE Confirm
    BY <2>7 DEF TypeOK, Confirm, PCs
  <2>8. CASE Decide
    BY <2>8 DEF TypeOK, Decide, Rest, PCs
  <2>. QED  BY <1>3, <2>1, <2>2, <2>3, <2>4, <2>5, <2>6, <2>7, <2>8 DEF HeartbeatLoop
<1>4. CASE ApplyDocument
  <2>1. CASE FetchStarts
    BY <2>1 DEF TypeOK, FetchStarts, PCs, Documents
  <2>2. CASE FetchReadsLate
    BY <2>2 DEF TypeOK, FetchReadsLate, Documents
  <2>3. CASE FetchReturns
    BY <2>3 DEF TypeOK, FetchReturns, PCs, Documents
  <2>4. CASE FetchKeepsDocument
    BY <2>4 DEF TypeOK, FetchKeepsDocument, Rest, PCs
  <2>5. CASE InstallPeers
    <3>1. /\ wg' \in [Keys -> PeerStates]
          /\ peerKeys' \in SUBSET Keys
          /\ failures' \in 0..MaxFailures
      <4>1. doc.peers \ DOMAIN Merged(revoked, doc) \in SUBSET Keys
        BY DEF TypeOK, Documents
      <4>. QED  BY <2>5, <4>1, SetPeersTypes DEF InstallPeers
    <3>. QED  BY <2>5, <3>1 DEF TypeOK, InstallPeers, Rest, Runs, Modes, PCs
  <2>6. CASE RecordDocument
    <3>1. revoked' \in RevokedMaps
      BY <2>6, MergedFacts DEF TypeOK, RecordDocument
    <3>2. doc.version \in Versions /\ doc.peers \in SUBSET Keys
      BY DEF TypeOK, Documents
    <3>. QED  BY <2>6, <3>1, <3>2 DEF TypeOK, RecordDocument, PCs
  <2>7. CASE HandPeersToRotation
    <3>1. wg' \in [Keys -> PeerStates] /\ pskPeers' \in SUBSET Keys
      BY <2>7 DEF TypeOK, HandPeersToRotation, Rotated, PeerStates, Documents
    <3>. QED  BY <2>7, <3>1 DEF TypeOK, HandPeersToRotation, PCs
  <2>8. CASE Persist
    BY <2>8 DEF TypeOK, Persist, Rest, Runs, Modes, PCs
  <2>. QED  BY <1>4, <2>1, <2>2, <2>3, <2>4, <2>5, <2>6, <2>7, <2>8 DEF ApplyDocument
<1>5. CASE Lifecycle
  <2>1. CASE StartRegistered
    <3>1. cpVersion' \in Versions
      BY <2>1 DEF TypeOK, StartRegistered
    <3>. QED  BY <2>1, <3>1 DEF TypeOK, StartRegistered, Modes, PCs
  <2>2. CASE FirstFetchFails \/ StartUnregistered
    BY <2>2 DEF TypeOK, FirstFetchFails, StartUnregistered, LoadPersisted, Rest, Modes, PCs
  <2>3. CASE Crash
    <3>1. crashes' \in 0..MaxCrashes
      BY <2>3, NetmapNodeAssumption DEF TypeOK, Crash
    <3>. QED  BY <2>3, <3>1, ProcessEndsTypes DEF TypeOK, Crash
  <2>4. CASE InitialApplyFails
    <3>1. failures' \in 0..MaxFailures
      BY <2>4, NetmapNodeAssumption DEF TypeOK, InitialApplyFails
    <3>. QED  BY <2>4, <3>1, ProcessEndsTypes DEF TypeOK, InitialApplyFails
  <2>. QED  BY <1>5, <2>1, <2>2, <2>3, <2>4 DEF Lifecycle
<1>6. CASE Background
  <2>1. CASE EnforceStaleness
    BY <2>1 DEF TypeOK, EnforceStaleness
  <2>2. CASE EmptyPeers
    <3>1. /\ wg' \in [Keys -> PeerStates]
          /\ peerKeys' \in SUBSET Keys
          /\ failures' \in 0..MaxFailures
      BY <2>2, SetPeersTypes DEF EmptyPeers
    <3>. QED  BY <2>2, <3>1 DEF TypeOK, EmptyPeers
  <2>3. CASE RotateKeys
    <3>1. wg' \in [Keys -> PeerStates]
      BY <2>3 DEF TypeOK, RotateKeys, Rotated, PeerStates
    <3>. QED  BY <2>3, <3>1 DEF TypeOK, RotateKeys
  <2>. QED  BY <1>6, <2>1, <2>2, <2>3 DEF Background
<1>7. CASE Time
  BY <1>7 DEF TypeOK, Time, OutageOutlastsBound, StoredDocumentExpires
<1>. QED  BY <1>1, <1>2, <1>3, <1>4, <1>5, <1>6, <1>7 DEF Next

\* The initial values have their types.
LEMMA InitTypes == Init => TypeOK
<1> SUFFICES ASSUME Init PROVE TypeOK
  OBVIOUS
<1>1. wg \in [Keys -> PeerStates]
  BY DEF Init, PeerStates
<1>2. failures \in 0..MaxFailures /\ crashes \in 0..MaxCrashes /\ restores \in 0..MaxRestores
  BY NetmapNodeAssumption DEF Init
<1>3. /\ cpVersion \in Versions /\ version \in Versions /\ hbVersion \in Versions
      /\ held \in Versions /\ doc \in Documents /\ disk \in Documents
      /\ revoked \in RevokedMaps
  BY VersionFacts, InitialValues DEF Init
<1>. QED  BY <1>1, <1>2, <1>3 DEF Init, TypeOK, Modes, PCs

\* Every variable of the node keeps its type, for every set of keys and every
\* bound.
THEOREM TypeCorrect == Spec => []TypeOK
BY InitTypes, TypeStep, PTL DEF Spec

-----------------------------------------------------------------------------
(* Revoked keys and the device                                             *)

\* What one successful SetPeers leaves on a device that agreed with peerKeys:
\* exactly the set it was given.
LEMMA SetPeersInstalls ==
    ASSUME TypeOK, Routed = peerKeys, NEW T \in SUBSET Keys, SetPeersReturns(T)
    PROVE  Routed' = T /\ peerKeys' = T
BY DEF TypeOK, SetPeersReturns, Routed

\* A SetPeers that returned an error is remembered.
LEMMA SetPeersFailureCounts ==
    ASSUME TypeOK, NEW T, SetPeersFails(T)
    PROVE  failures' # 0
BY NetmapNodeAssumption DEF TypeOK, SetPeersFails

\* Rotating pre-shared keys gives no peer allowed IPs.
LEMMA RotationCarriesNothing ==
    ASSUME TypeOK, NEW K, wg' = Rotated(wg, K)
    PROVE  Routed' = Routed
BY DEF TypeOK, Rotated, Routed

\* The inductive invariant of the node.
NodeInv == TypeOK /\ RevocationInv /\ CarriesOnlyTheDocument

\* Every step of Next preserves the inductive invariant.
LEMMA NodeStep == NodeInv /\ [Next]_vars => NodeInv'
<1> SUFFICES ASSUME TypeOK, RevocationInv, CarriesOnlyTheDocument, [Next]_vars
             PROVE  RevocationInv' /\ CarriesOnlyTheDocument'
  BY TypeStep DEF NodeInv
<1>. DEFINE Goal == RevocationInv' /\ CarriesOnlyTheDocument'
<1>0. ASSUME UNCHANGED wg PROVE Routed' = Routed
  BY <1>0 DEF Routed
<1>1. CASE UNCHANGED vars
  BY <1>1, <1>0 DEF RevocationInv, CarriesOnlyTheDocument, vars, Merged
<1>2. CASE Control
  <2>1. ASSUME NEW k \in Keys, ControlRevoke(k) \/ ControlWithdraw(k) PROVE Goal
    BY <2>1, <1>0
    DEF RevocationInv, CarriesOnlyTheDocument, ControlRevoke, ControlWithdraw, Merged
  <2>2. CASE ControlBump
    BY <2>2, <1>0 DEF RevocationInv, CarriesOnlyTheDocument, ControlBump, Merged
  <2>3. CASE ControlRestore
    BY <2>3, <1>0 DEF RevocationInv, CarriesOnlyTheDocument, ControlRestore, Merged
  <2>. QED  BY <1>2, <2>1, <2>2, <2>3 DEF Control
<1>3. CASE HeartbeatLoop
  <2>1. CASE HeartbeatReadRevoked \/ HeartbeatReadVersion \/ HeartbeatLost \/ Reenrol
    BY <2>1, <1>0
    DEF RevocationInv, CarriesOnlyTheDocument, HeartbeatReadRevoked,
        HeartbeatReadVersion, HeartbeatLost, Reenrol, Rest
  <2>2. CASE RecordRevocations
    <3>1. DOMAIN revoked' = DOMAIN revoked \cup hbKeys
      BY <2>2, LearnedFacts DEF TypeOK, RecordRevocations
    <3>. QED  BY <2>2, <1>0, <3>1 DEF RevocationInv, CarriesOnlyTheDocument, RecordRevocations
  <2>3. CASE RebuildPeers
    <3>1. peers \ DOMAIN revoked \in SUBSET Keys
      BY DEF TypeOK
    <3>2. failures' = 0 => /\ failures = 0
                           /\ Routed' = peers \ DOMAIN revoked /\ peerKeys' = Routed'
      BY <2>3, <3>1, SetPeersInstalls, SetPeersFailureCounts
      DEF RebuildPeers, RevocationInv, SetPeersReturns
    <3>. QED  BY <2>3, <3>2 DEF RevocationInv, CarriesOnlyTheDocument, RebuildPeers
  <2>4. CASE Confirm \/ Decide
    BY <2>4, <1>0 DEF RevocationInv, CarriesOnlyTheDocument, Confirm, Decide, Rest
  <2>. QED  BY <1>3, <2>1, <2>2, <2>3, <2>4 DEF HeartbeatLoop
<1>4. CASE ApplyDocument
  <2>1. CASE FetchStarts
    BY <2>1, <1>0 DEF RevocationInv, CarriesOnlyTheDocument, FetchStarts
  <2>2. CASE FetchReadsLate
    <3>1. owed \subseteq doc'.revoked
      BY <2>2 DEF TypeOK, Documents, RevocationInv, FetchReadsLate
    <3>. QED  BY <2>2, <1>0, <3>1 DEF RevocationInv, CarriesOnlyTheDocument, FetchReadsLate
  <2>3. CASE FetchReturns
    <3>1. owed \subseteq doc'.revoked
      BY <2>3 DEF TypeOK, Documents, RevocationInv, FetchReturns
    <3>. QED  BY <2>3, <1>0, <3>1 DEF RevocationInv, CarriesOnlyTheDocument, FetchReturns
  <2>4. CASE FetchKeepsDocument
    BY <2>4, <1>0 DEF RevocationInv, CarriesOnlyTheDocument, FetchKeepsDocument, Rest
  <2>5. CASE InstallPeers
    <3>1. doc.peers \ DOMAIN Merged(revoked, doc) \in SUBSET Keys
      BY DEF TypeOK, Documents
    <3>2. CASE failures' = 0
      <4>1. /\ SetPeersReturns(doc.peers \ DOMAIN Merged(revoked, doc))
            /\ pc' = "record" /\ UNCHANGED <<mode, hbVars>>
        BY <2>5, <3>2, SetPeersFailureCounts DEF InstallPeers
      <4>2. failures = 0
        BY <3>2, <4>1 DEF SetPeersReturns
      <4>3. /\ Routed' = doc.peers \ DOMAIN Merged(revoked, doc)
            /\ peerKeys' = Routed'
        BY <3>1, <4>1, <4>2, SetPeersInstalls DEF RevocationInv
      <4>4. revoked' = revoked /\ doc' = doc /\ owed' = owed /\ cpRevoked' = cpRevoked
        BY <2>5, <4>1 DEF InstallPeers
      <4>5. Merged(revoked, doc)' = Merged(revoked, doc)
        BY <4>4 DEF Merged
      <4>. QED  BY <2>5, <4>1, <4>3, <4>4, <4>5 DEF RevocationInv, CarriesOnlyTheDocument, InstallPeers
    <3>3. CASE failures' # 0
      BY <2>5, <3>3 DEF RevocationInv, CarriesOnlyTheDocument, InstallPeers, Rest, Runs
    <3>. QED  BY <3>2, <3>3
  <2>6. CASE RecordDocument
    <3>1. doc.revoked \subseteq DOMAIN Merged(revoked, doc)
      BY MergedFacts DEF TypeOK
    <3>. QED  BY <2>6, <1>0, <3>1 DEF RevocationInv, CarriesOnlyTheDocument, RecordDocument
  <2>7. CASE HandPeersToRotation
    <3>1. Routed' = Routed
      BY <2>7, RotationCarriesNothing DEF HandPeersToRotation
    <3>. QED  BY <2>7, <3>1 DEF RevocationInv, CarriesOnlyTheDocument, HandPeersToRotation
  <2>8. CASE Persist
    BY <2>8, <1>0 DEF RevocationInv, CarriesOnlyTheDocument, Persist, Rest, Runs
  <2>. QED  BY <1>4, <2>1, <2>2, <2>3, <2>4, <2>5, <2>6, <2>7, <2>8 DEF ApplyDocument
<1>5. CASE Lifecycle
  <2>1. CASE StartRegistered
    BY <2>1, <1>0 DEF RevocationInv, CarriesOnlyTheDocument, StartRegistered
  <2>2. CASE FirstFetchFails \/ StartUnregistered
    BY <2>2, <1>0
    DEF RevocationInv, CarriesOnlyTheDocument, FirstFetchFails, StartUnregistered,
        LoadPersisted, Rest
  <2>3. CASE ProcessEnds
    <3>1. Routed' = {}
      BY <2>3 DEF ProcessEnds, Routed
    <3>. QED  BY <2>3, <3>1, InitialValues
              DEF RevocationInv, CarriesOnlyTheDocument, ProcessEnds, Rest
  <2>. QED  BY <1>5, <2>1, <2>2, <2>3 DEF Lifecycle, Crash, InitialApplyFails
<1>6. CASE Background
  <2>1. CASE EnforceStaleness
    BY <2>1, <1>0 DEF RevocationInv, CarriesOnlyTheDocument, EnforceStaleness, Merged
  <2>2. CASE EmptyPeers
    <3>1. failures' = 0 => failures = 0 /\ Routed' = {} /\ peerKeys' = {}
      BY <2>2, SetPeersInstalls, SetPeersFailureCounts
      DEF EmptyPeers, RevocationInv, SetPeersReturns
    <3>. QED  BY <2>2, <3>1 DEF RevocationInv, CarriesOnlyTheDocument, EmptyPeers, Merged
  <2>3. CASE RotateKeys
    <3>1. Routed' = Routed
      BY <2>3, RotationCarriesNothing DEF RotateKeys
    <3>. QED  BY <2>3, <3>1 DEF RevocationInv, CarriesOnlyTheDocument, RotateKeys, Merged
  <2>. QED  BY <1>6, <2>1, <2>2, <2>3 DEF Background
<1>7. CASE Time
  BY <1>7, <1>0
  DEF RevocationInv, CarriesOnlyTheDocument, Time, OutageOutlastsBound,
      StoredDocumentExpires, Merged
<1>. QED  BY <1>1, <1>2, <1>3, <1>4, <1>5, <1>6, <1>7 DEF Next

\* The inductive invariant holds of every reachable state.
LEMMA NodeInvariant == Spec => []NodeInv
<1>1. Init => RevocationInv /\ CarriesOnlyTheDocument
  BY InitialValues DEF Init, RevocationInv, CarriesOnlyTheDocument, Routed
<1>2. Init => NodeInv
  BY <1>1, InitTypes DEF NodeInv
<1>. QED  BY <1>2, NodeStep, PTL DEF Spec

\* ApplyRevocations and Apply together: a key that a heartbeat listed and that
\* stays revoked is never carried again, for every number of keys, versions,
\* restarts, database restorations and outages.
THEOREM RevocationsApplied == Spec => []RevokedKeyRemoved
<1>1. NodeInv => RevokedKeyRemoved
  <2> SUFFICES ASSUME TypeOK, RevocationInv, pc # "rebuild", failures = 0
               PROVE  owed \cap Routed = {}
    BY DEF NodeInv, RevokedKeyRemoved
  <2>1. CASE pc = "record"
    BY <2>1, MergedFacts DEF TypeOK, RevocationInv
  <2>2. CASE pc # "record"
    BY <2>2 DEF RevocationInv
  <2>. QED  BY <2>1, <2>2
<1>. QED  BY <1>1, NodeInvariant, PTL

\* Default deny and whole documents: whatever the goroutines do, the device
\* carries only peers of the applied document.
THEOREM OnlyDocumentPeers == Spec => []CarriesOnlyTheDocument
<1>1. NodeInv => CarriesOnlyTheDocument
  BY DEF NodeInv
<1>. QED  BY <1>1, NodeInvariant, PTL
=============================================================================
