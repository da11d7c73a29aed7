--------------------------- MODULE NetmapControl ---------------------------
(***************************************************************************)
(* The control plane's side of the netmap: the rows a document is built    *)
(* from, the console handlers that change them, the version that tells the *)
(* fleet to fetch, and NetmapService.buildNetmap.                          *)
(*                                                                         *)
(* A console handler is a sequence of SQL statements on the shared pool,   *)
(* with no transaction around them, so a step is one statement.  Handlers  *)
(* of several requests, and of several console instances, interleave.      *)
(* Registration is one transaction and one step.                           *)
(*                                                                         *)
(* The reader is one node of the organisation.  It fetches its document    *)
(* whenever the version it is told differs from the one it holds, and the  *)
(* console's handlers quarantine it as they do any other.  Its own health, *)
(* key and removal change nothing in its document and are left out.        *)
(***************************************************************************)
EXTENDS Naturals, Sequences

CONSTANTS
    Nodes,         \* the nodes of one organisation
    Reader,        \* the node whose document is followed
    Requests,      \* console requests that may be in flight at one time
    MaxChanges,    \* bound on handlers started and registrations
    InIssueOrder,  \* buildNetmap's parallel reads run in the order issued
    BeatsRevive,   \* heartbeats of nodes marked unhealthy arrive
    KeysExpire,    \* the retention window of a revocation may end
    UsersGo,       \* the console deletes the owner of a node
    MaxDeaths      \* bound on requests cut off between two statements

ASSUME NetmapControlAssumption ==
    /\ MaxChanges \in Nat /\ MaxDeaths \in Nat
    /\ Reader \in Nodes
    /\ {InIssueOrder, BeatsRevive, KeysExpire, UsersGo} \subseteq BOOLEAN

VARIABLES
    row,       \* the nodes table: exists, is_quarantined, is_healthy
    entry,     \* revoked_keys: what the reason says, and expires_at > NOW()
    allowed,   \* the nodes that the ACL rules let the reader talk to
    version,   \* the netmap row of mesh_epochs
    todo,      \* the statements every request still has to run
    missed,    \* requests whose revokeNodeKeys found no row
    reader,    \* what buildNetmap has read so far
    held,      \* the document the reader holds
    changes,   \* handlers started and registrations so far
    deaths,    \* requests cut off so far
    silent     \* history: nodes changed by what moves no version, since it moved

vars == <<row, entry, allowed, version, todo, missed, reader, held, changes, deaths, silent>>

Rows == [exists : BOOLEAN, quarantined : BOOLEAN, healthy : BOOLEAN]

Gone == [exists |-> FALSE, quarantined |-> FALSE, healthy |-> FALSE]

Active == [exists |-> TRUE, quarantined |-> FALSE, healthy |-> TRUE]

NoEntry == [why |-> "none", active |-> FALSE]

Peers == Nodes \ {Reader}

\* The nodes buildNetmap selects: not quarantined and healthy.
Candidates == {n \in Peers : row[n].exists /\ ~row[n].quarantined /\ row[n].healthy}

\* The nodes compileFor expands the rules over: not quarantined.
PolicyPeers == {n \in Peers : row[n].exists /\ ~row[n].quarantined}

\* activeRevocations: the entries whose retention window is open.
Revoked == {n \in Nodes : entry[n].active}

\* No console request is half-way.
Settled == \A r \in Requests : todo[r] = <<>>

\* The peers a document built in one instant would name.
CurrentPeers ==
    IF row[Reader].quarantined THEN {} ELSE (Candidates \cap allowed) \ Revoked

ReadNothing ==
    [left |-> {}, quarantined |-> FALSE, version |-> 0,
     policy |-> {}, rules |-> {}, revoked |-> {}]

Init ==
    /\ row = [n \in Nodes |-> Active]
    /\ entry = [n \in Nodes |-> NoEntry]
    /\ allowed = Peers
    /\ version = 1
    /\ todo = [r \in Requests |-> <<>>]
    /\ missed = {}
    /\ reader = ReadNothing
    /\ held = [version |-> 1, quarantined |-> FALSE, peers |-> Peers]
    /\ changes = 0
    /\ deaths = 0
    /\ silent = {}

-----------------------------------------------------------------------------
(* The console's handlers, as the statements they run                      *)

Mark(n, q, h) == [do |-> "mark", node |-> n, quarantined |-> q, healthy |-> h]
Health(n, h)  == [do |-> "health", node |-> n, healthy |-> h]
Select(n)     == [do |-> "select", node |-> n]
Revoke(n, w)  == [do |-> "revoke", node |-> n, why |-> w]
Peek(n)       == [do |-> "peek", node |-> n]
Lift(n)       == [do |-> "lift", node |-> n]
Delete(n, w)  == [do |-> "delete", node |-> n, why |-> w]
Rule(n, on)   == [do |-> "rule", node |-> n, on |-> on]
Bump(n)       == [do |-> "bump", node |-> n]

\* revokeNodeKeys: select the row, upsert the key, bump.
RevokeNodeKeys(n, why) == <<Select(n), Revoke(n, why), Bump(n)>>

\* liftQuarantineRevocation: look for a quarantine's entry, delete it, bump.
LiftQuarantineRevocation(n) == <<Peek(n), Lift(n), Bump(n)>>

\* Mutant: the row goes before the key is revoked.
DeleteNodeFirst(n, why) == <<Delete(n, why)>> \o RevokeNodeKeys(n, why) \o <<Bump(n)>>

\* DELETE /nodes/:id, with a reason of its own, and POST /nodes/:id/revoke,
\* with the reason of the request: one that begins with "quarantine:" reads as
\* a quarantine's.
DeleteNode(n, why) == RevokeNodeKeys(n, why) \o <<Delete(n, why), Bump(n)>>

\* POST /nodes/:id/quarantine and the quarantine action.
Quarantine(n) == <<Mark(n, TRUE, FALSE)>> \o RevokeNodeKeys(n, "quarantine") \o <<Bump(n)>>

\* The lift_quarantine action.
LiftQuarantine(n) == <<Mark(n, FALSE, TRUE)>> \o LiftQuarantineRevocation(n) \o <<Bump(n)>>

\* Mutant: the fleet is not told.
UnquarantineSilently(n) == <<Mark(n, FALSE, TRUE)>>

\* POST /nodes/:id/unquarantine, PUT /nodes/:id with status active, and
\* attestNode of the risk engine.
Unquarantine(n) == <<Mark(n, FALSE, TRUE), Bump(n)>>

\* Mutant: the fleet is told before the row changes.
PutQuarantinedBumpsFirst(n) == <<Bump(n), Mark(n, TRUE, FALSE)>>

\* PUT /nodes/:id with status quarantined.
PutQuarantined(n) == <<Mark(n, TRUE, FALSE), Bump(n)>>

\* PUT /nodes/:id with is_healthy.
PutHealth(n, h) == <<Health(n, h), Bump(n)>>

\* revokePeering, for a node imported under the agreement: its row stays.
RevokePeering(n) == RevokeNodeKeys(n, "other")

\* DELETE /users/:id, for the owner of node n: the row goes by ON DELETE
\* CASCADE, no key is revoked and no version moves.
DeleteUser(n) == <<Delete(n, "owner")>>

\* createRule and deleteRule, for a rule that decides about node n.
ChangeRule(n, on) == <<Rule(n, on), Bump(n)>>

\* The handlers that first look the node up and answer 404 without it.  Those
\* that set is_quarantined are all that the reader's own document depends on.
NodeHandlers(n) ==
    {Quarantine(n), LiftQuarantine(n), Unquarantine(n), PutQuarantined(n)}
        \cup IF n = Reader THEN {}
             ELSE {DeleteNode(n, why) : why \in {"other", "quarantine"}}
                      \cup {PutHealth(n, h) : h \in BOOLEAN}

OtherHandlers(n) ==
    {RevokePeering(n)} \cup {ChangeRule(n, on) : on \in BOOLEAN}

\* A request arrives.
StartHandler(r) ==
    /\ todo[r] = <<>>
    /\ changes < MaxChanges
    /\ changes' = changes + 1
    /\ \/ \E n \in Nodes : row[n].exists /\ \E p \in NodeHandlers(n) : todo' = [todo EXCEPT ![r] = p]
       \/ \E n \in Peers : \E p \in OtherHandlers(n) : todo' = [todo EXCEPT ![r] = p]
       \/ UsersGo /\ \E n \in Peers : todo' = [todo EXCEPT ![r] = DeleteUser(n)]
    /\ UNCHANGED <<row, entry, allowed, version, missed, reader, held, deaths, silent>>

\* An UPDATE of a row that is gone changes nothing.
Updated(n, q, h) ==
    IF row[n].exists THEN [exists |-> TRUE, quarantined |-> q, healthy |-> h] ELSE row[n]

\* Mutant: the upsert always overwrites the reason.
UpsertedAlways(old, why) == [why |-> why, active |-> TRUE]

\* Mutant: the upsert adds to the reason.
UpsertedBoth(old, why) == [why |-> IF old.why = "none" THEN why ELSE "both", active |-> TRUE]

\* The upsert opens a new retention window.  A quarantine does not overwrite
\* the reason of another revocation, not even of one whose window has ended.
Upserted(old, why) ==
    [why |-> IF why = "quarantine" /\ old.why = "other" THEN old.why ELSE why,
     active |-> TRUE]

\* The next statement of a request runs.  SELECT and the look for a
\* quarantine's entry end their helper early when they find nothing.
RunStatement(r) ==
    /\ todo[r] # <<>>
    /\ LET s == Head(todo[r])
           Rest(skip) == SubSeq(todo[r], 2 + skip, Len(todo[r]))
           noRow == s.do = "select" /\ ~row[s.node].exists
           noEntry == s.do = "peek" /\ entry[s.node].why # "quarantine"
       IN  /\ row' = CASE s.do = "mark" ->
                            [row EXCEPT ![s.node] = Updated(s.node, s.quarantined, s.healthy)]
                       [] s.do = "health" ->
                            [row EXCEPT ![s.node] = Updated(s.node, row[s.node].quarantined, s.healthy)]
                       [] s.do = "delete" -> [row EXCEPT ![s.node] = Gone]
                       [] OTHER -> row
           /\ entry' = CASE s.do = "revoke" ->
                              [entry EXCEPT ![s.node] = Upserted(entry[s.node], s.why)]
                         [] s.do = "lift" /\ entry[s.node].why = "quarantine" ->
                              [entry EXCEPT ![s.node] = NoEntry]
                         [] OTHER -> entry
           /\ allowed' = IF s.do # "rule" THEN allowed
                         ELSE IF s.on THEN allowed \cup {s.node} ELSE allowed \ {s.node}
           /\ version' = IF s.do = "bump" THEN version + 1 ELSE version
           /\ todo' = [todo EXCEPT ![r] = IF noRow \/ noEntry THEN Rest(2) ELSE Rest(0)]
           /\ missed' = IF todo'[r] = <<>> THEN missed \ {r}
                        ELSE IF noRow THEN missed \cup {r} ELSE missed
           /\ silent' = CASE s.do = "bump" -> {}
                          [] s.do = "delete" /\ s.why = "owner" -> silent \cup {s.node}
                          [] OTHER -> silent
    /\ UNCHANGED <<reader, held, changes, deaths>>

\* The instance serving a request stops: the rest never runs.
HandlerDies(r) ==
    /\ todo[r] # <<>>
    /\ deaths < MaxDeaths
    /\ deaths' = deaths + 1
    /\ todo' = [todo EXCEPT ![r] = <<>>]
    /\ missed' = missed \ {r}
    /\ silent' = silent \cup {Head(todo[r]).node}
    /\ UNCHANGED <<row, entry, allowed, version, reader, held, changes>>

-----------------------------------------------------------------------------
(* Nodes                                                                   *)

\* isRevoked: an entry whose retention window is open.
IsRevoked(n) == n \in Revoked

\* POST /v4/control/register, one transaction: a revoked key stays out, a new
\* row or one that comes back to the peer sets bumps the version.
Register(n) ==
    /\ ~IsRevoked(n)
    /\ changes < MaxChanges
    /\ changes' = changes + 1
    /\ row' = [row EXCEPT ![n] = [exists |-> TRUE, quarantined |-> row[n].quarantined,
                                  healthy |-> TRUE]]
    /\ LET told == ~row[n].exists \/ (~row[n].healthy /\ ~row[n].quarantined)
       IN  /\ version' = IF told THEN version + 1 ELSE version
           /\ silent' = IF told THEN {} ELSE silent
    /\ UNCHANGED <<entry, allowed, todo, missed, reader, held, deaths>>

\* A heartbeat is written through, or the buffer of heartbeats is flushed:
\* the row is marked healthy and no version moves.
Beat(n) ==
    /\ BeatsRevive
    /\ row[n].exists /\ ~row[n].healthy
    /\ row' = [row EXCEPT ![n].healthy = TRUE]
    /\ silent' = silent \cup {n}
    /\ UNCHANGED <<entry, allowed, version, todo, missed, reader, held, changes, deaths>>

\* The retention window, which is days, ends with no request half-way:
\* activeRevocations and isRevoked no longer see the entry, which stays.
Expire(n) ==
    /\ KeysExpire
    /\ Settled
    /\ IsRevoked(n)
    /\ entry' = [entry EXCEPT ![n].active = FALSE]
    /\ silent' = silent \cup {n}
    /\ UNCHANGED <<row, allowed, version, todo, missed, reader, held, changes, deaths>>

-----------------------------------------------------------------------------
(* buildNetmap for the reader                                              *)

Reads == {"version", "policy", "rules", "revoked", "rows"}

\* POST /v4/control/netmap: the version asked with is not the current one.  The
\* fleet's token lets the reader ask whatever became of its own credential.
Outdated == version # held.version

\* The reader asks, and buildNetmap reads the reader's own row first.
Fetch ==
    /\ reader = ReadNothing
    /\ Outdated
    /\ reader' = [reader EXCEPT !.left = Reads, !.quarantined = row[Reader].quarantined]
    /\ UNCHANGED <<row, entry, allowed, version, todo, missed, held, changes, deaths, silent>>

\* What has to be read before a given read.  Promise.all issues the version,
\* compileFor and the revocations together; compileFor reads the node's scope,
\* then the peers, then the rules; the candidate rows come when all is there.
\* A pool of one connection serves the queries in the order they were issued,
\* which puts the revocations before compileFor's second query.
Before(read) ==
    CASE read = "rows"    -> {"version", "policy", "rules", "revoked"}
      [] read = "rules"   -> {"policy"}
      [] read = "policy"  -> IF InIssueOrder THEN {"version", "revoked"} ELSE {}
      [] read = "revoked" -> IF InIssueOrder THEN {"version"} ELSE {}
      [] OTHER            -> {}

Ready(read) == read \in reader.left /\ Before(read) \cap reader.left = {}

ReadVersion ==
    /\ Ready("version")
    /\ reader' = [reader EXCEPT !.left = @ \ {"version"}, !.version = version]
    /\ UNCHANGED <<row, entry, allowed, version, todo, missed, held, changes, deaths, silent>>

ReadPolicyPeers ==
    /\ Ready("policy")
    /\ reader' = [reader EXCEPT !.left = @ \ {"policy"}, !.policy = PolicyPeers]
    /\ UNCHANGED <<row, entry, allowed, version, todo, missed, held, changes, deaths, silent>>

ReadRules ==
    /\ Ready("rules")
    /\ reader' = [reader EXCEPT !.left = @ \ {"rules"}, !.rules = allowed]
    /\ UNCHANGED <<row, entry, allowed, version, todo, missed, held, changes, deaths, silent>>

ReadRevocations ==
    /\ Ready("revoked")
    /\ reader' = [reader EXCEPT !.left = @ \ {"revoked"}, !.revoked = Revoked]
    /\ UNCHANGED <<row, entry, allowed, version, todo, missed, held, changes, deaths, silent>>

\* The candidate rows, filtered by what was read before, are the document.
\* For a reader that was quarantined they are not read: it has no peers.
ReadRows ==
    /\ Ready("rows")
    /\ held' = [version |-> reader.version,
                quarantined |-> reader.quarantined,
                peers |-> IF reader.quarantined THEN {}
                          ELSE (Candidates \cap reader.policy \cap reader.rules) \ reader.revoked]
    /\ reader' = ReadNothing
    /\ UNCHANGED <<row, entry, allowed, version, todo, missed, changes, deaths, silent>>

-----------------------------------------------------------------------------
Next ==
    \/ \E r \in Requests : StartHandler(r) \/ RunStatement(r) \/ HandlerDies(r)
    \/ \E n \in Peers : Register(n) \/ Beat(n) \/ Expire(n)
    \/ Fetch \/ ReadVersion \/ ReadPolicyPeers \/ ReadRules \/ ReadRevocations \/ ReadRows

Spec == Init /\ [][Next]_vars

-----------------------------------------------------------------------------
(* Properties                                                              *)

\* Every variable has its type.
TypeOK ==
    /\ row \in [Nodes -> Rows]
    /\ entry \in [Nodes -> [why : {"none", "quarantine", "other"}, active : BOOLEAN]]
    /\ allowed \in SUBSET Nodes
    /\ version \in Nat
    /\ DOMAIN todo = Requests
    /\ missed \in SUBSET Requests
    /\ reader.left \subseteq Reads
    /\ held.version \in Nat /\ held.quarantined \in BOOLEAN /\ held.peers \subseteq Peers
    /\ changes \in 0..MaxChanges
    /\ deaths \in 0..MaxDeaths
    /\ silent \in SUBSET Nodes

\* No handler is half-way, and the reader holds the current version: it will
\* not ask again.
UpToDate ==
    Settled /\ reader = ReadNothing /\ held.version = version

\* "A global counter over-signals and can never under-signal": the document of
\* a reader that is up to date is the one the database now describes.
NoUnderSignal == UpToDate => held.peers = CurrentPeers

\* What can be missed when buildNetmap's queries run in the order issued: its
\* own row, read before the version, and what no handler announced (a reviving
\* heartbeat, an expired revocation, a deleted owner, a request cut off).  In
\* everything else the document of a reader that is up to date is the one the
\* database now describes, whatever interleaved with the build.
OnlySilentChangesMissed ==
    UpToDate /\ held.quarantined = row[Reader].quarantined
        => held.peers \ silent = CurrentPeers \ silent

\* The same, with no exception for what no handler announces.
NothingMissed ==
    UpToDate /\ held.quarantined = row[Reader].quarantined => held.peers = CurrentPeers

\* "A key revoked for any other reason stays revoked when a quarantine on the
\* same node is lifted", in whatever order the statements of a revocation, a
\* quarantine and its lifting run.  Only the retention window ends it, and a
\* quarantine written after that does not make it one that can be lifted.
OnlyQuarantinesAreLifted ==
    [][\A n \in Nodes : entry[n].why = "other"
          => /\ entry'[n].why = "other"
             /\ entry[n].active => entry'[n].active \/ Expire(n)]_vars

\* buildNetmap reads the candidate rows after the version, so a node that a
\* finished handler deleted, quarantined or marked unhealthy is in no document
\* of the current version, however its other reads are ordered.  Only the
\* cascade of a deleted owner and a request cut off are announced by nobody.
WithdrawnPeerLeaves == UpToDate => held.peers \ silent \subseteq Candidates

\* "Remove the node record - the key is already blacklisted": when DELETE
\* /nodes/:id removes a row, the revocation it wrote is in force and cannot be
\* lifted, whatever other requests ran since; so an instance that stops at any
\* statement leaves no row deleted whose key may register again.
DeletedStaysOut ==
    \A r \in Requests \ missed, n \in Nodes :
        todo[r] # <<>> /\ Head(todo[r]) = Delete(n, "other") /\ row[n].exists
            => entry[n] = [why |-> "other", active |-> TRUE]

\* "Without this it could never come back": a node whose quarantine was lifted
\* is not kept out by the revocation the quarantine wrote.
LiftedCanRegister ==
    Settled => \A n \in Nodes :
        row[n].exists /\ ~row[n].quarantined
            => entry[n] # [why |-> "quarantine", active |-> TRUE]
=============================================================================
