------------------------------ MODULE PeerRegistry ------------------------------
(***************************************************************************)
(* The registry of src/core/peer_registry.cpp: the subscriptions of this   *)
(* daemon, the paused ones, the index from topics to subscriptions, the    *)
(* known peers and the routing table built from them.                      *)
(*                                                                         *)
(* Each method is an operator from a registry to a registry.  A method     *)
(* that takes two locks one after the other is two operators: those that   *)
(* change peers_ are followed by Rebuilt, for rebuildRoutingTable().       *)
(* Time is a flag: an expired pause, a silent peer.                        *)
(***************************************************************************)
EXTENDS Integers, FiniteSets

CONSTANTS
  Subs,       \* subscription ids
  Topics,
  Peers,      \* instance uuids of other daemons
  Endpoints,  \* the addresses peers announce
  Hashes,     \* topic_state_hash values
  Sequences   \* sequence numbers of deliveries

ASSUME RegistryAssumption == Sequences \subseteq Nat /\ 0 \in Sequences

VARIABLE registry

With(f, k, v) == [x \in DOMAIN f \cup {k} |-> IF x = k THEN v ELSE f[x]]

Without(f, ks) == [x \in DOMAIN f \ ks |-> f[x]]

Empty == [x \in {} |-> x]

\* A new PeerRegistry.
NewRegistry ==
  [local  |-> Empty,   \* localSubscriptions_
   paused |-> Empty,   \* pausedSubscriptions_
   index  |-> Empty,   \* topicToSubscriptions_
   dirty  |-> TRUE,    \* hashDirty_
   peers  |-> Empty,   \* peers_
   routes |-> Empty]   \* routingTable_

LocalSubscription == [topics : SUBSET Topics, last : Sequences]

PausedSubscription == [topics : SUBSET Topics, last : Sequences, expired : BOOLEAN]

PeerInfo == [endpoint : Endpoints, hash : Hashes, topics : SUBSET Topics,
             synced : BOOLEAN, silent : BOOLEAN]

-----------------------------------------------------------------------------
(* Local subscriptions, under subscriptionMutex_ *)

At(ix, t) == IF t \in DOMAIN ix THEN ix[t] ELSE {}

Indexed(ix, s, ts) ==
  [t \in DOMAIN ix \cup ts |-> At(ix, t) \cup (IF t \in ts THEN {s} ELSE {})]

\* Variant: a topic that loses its last subscription stays in the index.
UnindexedKeepsEmpty(ix, s, ts) ==
  [t \in DOMAIN ix |-> IF t \in ts THEN ix[t] \ {s} ELSE ix[t]]

\* A topic without subscriptions leaves the index.
Unindexed(ix, s, ts) ==
  [t \in {u \in DOMAIN ix : u \in ts => ix[u] \ {s} # {}} |->
     IF t \in ts THEN ix[t] \ {s} ELSE ix[t]]

\* An id that is in use is refused.
AddLocalSubscription(r, s, ts) ==
  IF s \in DOMAIN r.local THEN r
  ELSE [r EXCEPT !.local = With(@, s, [topics |-> ts, last |-> 0]),
                 !.index = Indexed(@, s, ts),
                 !.dirty = TRUE]

\* What removeLocalSubscription() saves of a subscription it pauses.
Pausing(sub) == [topics |-> sub.topics, last |-> sub.last, expired |-> FALSE]

RemoveLocalSubscription(r, s, pause) ==
  IF s \notin DOMAIN r.local THEN r
  ELSE [r EXCEPT !.paused = IF pause THEN With(@, s, Pausing(r.local[s])) ELSE @,
                 !.index = Unindexed(@, s, r.local[s].topics),
                 !.local = Without(@, {s}),
                 !.dirty = TRUE]

Resumable(r, s) == s \in DOMAIN r.paused /\ ~r.paused[s].expired

\* Variant: the paused entry is kept.
ResumeKeepsPaused(r, s) ==
  IF ~Resumable(r, s) THEN r
  ELSE [r EXCEPT !.local = With(@, s, [topics |-> r.paused[s].topics, last |-> r.paused[s].last]),
                 !.index = Indexed(@, s, r.paused[s].topics),
                 !.dirty = TRUE]

\* An expired entry is only erased.
ResumeSubscription(r, s) ==
  IF ~Resumable(r, s) THEN [r EXCEPT !.paused = Without(@, {s})]
  ELSE [r EXCEPT !.local = With(@, s, [topics |-> r.paused[s].topics, last |-> r.paused[s].last]),
                 !.index = Indexed(@, s, r.paused[s].topics),
                 !.paused = Without(@, {s}),
                 !.dirty = TRUE]

ExpiredPauses(r) == {s \in DOMAIN r.paused : r.paused[s].expired}

ClearExpiredPausedSubscriptions(r) == [r EXCEPT !.paused = Without(@, ExpiredPauses(r))]

\* One number for all topics of the subscription, whatever it was before.
UpdateSubscriptionSequence(r, s, seq) ==
  IF s \in DOMAIN r.local THEN [r EXCEPT !.local = With(@, s, [@[s] EXCEPT !.last = seq])] ELSE r

LocalSubscriptions(r, t) == At(r.index, t) \cap DOMAIN r.local

LocalTopics(r) == DOMAIN r.index

-----------------------------------------------------------------------------
(* Peers, under peerMutex_, and routes, under routingMutex_ *)

\* Variant: only new peers are synchronised.
NeedsSyncIfNew(r, p, hash) == p \notin DOMAIN r.peers

\* upsertPeer() asks for a synchronisation when the peer is new or its hash is.
NeedsSync(r, p, hash) == p \in DOMAIN r.peers => r.peers[p].hash # hash

Refreshed(info, endpoint, hash, needsSync) ==
  [info EXCEPT !.endpoint = endpoint, !.hash = hash, !.silent = FALSE,
               !.synced = info.synced /\ ~needsSync]

UpsertPeer(r, p, endpoint, hash) ==
  [r EXCEPT !.peers =
     With(@, p, IF p \in DOMAIN @ THEN Refreshed(@[p], endpoint, hash, NeedsSync(r, p, hash))
                ELSE [endpoint |-> endpoint, hash |-> hash, topics |-> {},
                      synced |-> FALSE, silent |-> FALSE])]

RemovePeer(r, p) == [r EXCEPT !.peers = Without(@, {p})]

UpdatePeerState(r, p, topics, hash) ==
  IF p \notin DOMAIN r.peers THEN r
  ELSE [r EXCEPT !.peers = With(@, p, [@[p] EXCEPT !.topics = topics, !.hash = hash, !.synced = TRUE])]

\* Variant: synchronised peers are kept.
DeadUnsyncedPeers(r) == {p \in DOMAIN r.peers : r.peers[p].silent /\ ~r.peers[p].synced}

DeadPeers(r) == {p \in DOMAIN r.peers : r.peers[p].silent}

ReapDeadPeers(r) == [r EXCEPT !.peers = Without(@, DeadPeers(r))]

SyncedPeers(r) == {p \in DOMAIN r.peers : r.peers[p].synced}

RoutesFrom(r) ==
  [t \in UNION {r.peers[p].topics : p \in SyncedPeers(r)} |->
     {p \in SyncedPeers(r) : t \in r.peers[p].topics}]

Rebuilt(r) == [r EXCEPT !.routes = RoutesFrom(r)]

RemoteSubscribers(r, t) == At(r.routes, t)

HasSubscribers(r, t) == t \in DOMAIN r.routes \cup DOMAIN r.index

-----------------------------------------------------------------------------
(* The registry by itself: any thread may call any method at any time *)

RegistryInit == registry = NewRegistry

SubscriptionStep ==
  \/ \E s \in Subs, ts \in SUBSET Topics :
       s \notin DOMAIN registry.paused /\ registry' = AddLocalSubscription(registry, s, ts)
  \/ \E s \in Subs, pause \in BOOLEAN : registry' = RemoveLocalSubscription(registry, s, pause)
  \/ \E s \in Subs : registry' = ResumeSubscription(registry, s)
  \/ registry' = ClearExpiredPausedSubscriptions(registry)
  \/ \E s \in Subs, seq \in Sequences : registry' = UpdateSubscriptionSequence(registry, s, seq)

PeerStep ==
  \/ \E p \in Peers, e \in Endpoints, h \in Hashes : registry' = UpsertPeer(registry, p, e, h)
  \/ \E p \in Peers : registry' = RemovePeer(registry, p)
  \/ \E p \in Peers, ts \in SUBSET Topics, h \in Hashes : registry' = UpdatePeerState(registry, p, ts, h)
  \/ registry' = ReapDeadPeers(registry)
  \/ registry' = Rebuilt(registry)

\* getLocalTopicHash() clears the flag, in a step of its own.
ClearDirty == registry' = [registry EXCEPT !.dirty = FALSE]

\* Time passes: a pause reaches its end, a peer stays silent too long.
TimeStep ==
  \/ \E s \in DOMAIN registry.paused :
       registry' = [registry EXCEPT !.paused = With(@, s, [@[s] EXCEPT !.expired = TRUE])]
  \/ \E p \in DOMAIN registry.peers :
       registry' = [registry EXCEPT !.peers = With(@, p, [@[p] EXCEPT !.silent = TRUE])]

RegistryNext == SubscriptionStep \/ PeerStep \/ ClearDirty \/ TimeStep

RegistrySpec == RegistryInit /\ [][RegistryNext]_registry

-----------------------------------------------------------------------------
(* Properties *)

\* The type of the registry.
RegistryTypeOK ==
  /\ DOMAIN registry.local \subseteq Subs
  /\ \A s \in DOMAIN registry.local : registry.local[s] \in LocalSubscription
  /\ DOMAIN registry.paused \subseteq Subs
  /\ \A s \in DOMAIN registry.paused : registry.paused[s] \in PausedSubscription
  /\ DOMAIN registry.index \subseteq Topics
  /\ DOMAIN registry.peers \subseteq Peers
  /\ \A p \in DOMAIN registry.peers : registry.peers[p] \in PeerInfo
  /\ registry.dirty \in BOOLEAN

(* topicToSubscriptions_ is exactly the inverse of the topics of           *)
(* localSubscriptions_, and holds no topic nobody subscribes to, through   *)
(* every add, remove, pause and resume: what beacons announce and what     *)
(* getLocalSubscriptions() returns rest on it.                             *)
IndexExact ==
  /\ \A t \in DOMAIN registry.index :
       /\ registry.index[t] # {}
       /\ \A s \in registry.index[t] : s \in DOMAIN registry.local /\ t \in registry.local[s].topics
  /\ \A s \in DOMAIN registry.local :
       \A t \in registry.local[s].topics : t \in DOMAIN registry.index /\ s \in registry.index[t]

(* A subscription is never active and paused at once: pausing moves it,    *)
(* resuming moves it back.                                                 *)
ActiveXorPaused == DOMAIN registry.local \cap DOMAIN registry.paused = {}
=============================================================================
