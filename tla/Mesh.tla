---------------------------------- MODULE Mesh ----------------------------------
(***************************************************************************)
(* Daemons that find each other and forward messages: beacons over UDP     *)
(* (src/core/discovery_agent.cpp), the exchange of topics and the pushing  *)
(* of messages over gRPC (src/services/mesh_service.cpp, mesh_client.cpp)  *)
(* and the part of src/core/peer_registry.cpp that serves them.            *)
(*                                                                         *)
(* A daemon announces a hash of its topics.  Whoever sees a new hash asks  *)
(* for the topics and rebuilds its routes.  The hash is cached behind a    *)
(* flag that two threads, the sender of beacons and the server of          *)
(* GetNodeState, check, fill and clear in separate atomic steps.           *)
(*                                                                         *)
(* Beacons are lost and reordered, calls fail after their deadline,        *)
(* daemons crash and come back under a new uuid at the same address.  What *)
(* a hash is computed from stands for the hash: the sorted topics one      *)
(* after the other.  The callback that starts a synchronisation is set by  *)
(* the code that builds the daemon; here it calls getNodeState() and       *)
(* stores the answer with updatePeerState().                               *)
(***************************************************************************)
EXTENDS Integers, Sequences, SequencesExt, FiniteSets

CONSTANTS
  Homes,       \* daemons with subscribers: they announce and serve their topics
  Observers,   \* daemons with publishers: they listen, synchronise and push
  Layouts,     \* the cluster of each daemon, as configurations to choose from
  Budgets      \* bounds to choose from, see BudgetType

(* A topic name is a sequence of letters, which are numbers; a subscription *)
(* asks for a set of topics.                                                *)
BudgetType ==
  [interests : SUBSET SUBSET Seq(Nat), \* what may be subscribed to
   start : SUBSET SUBSET Seq(Nat),     \* subscribed to before the first beacon
   changes : Nat,                      \* subscriptions added or removed
   restarts : Nat,                     \* crashes of homes
   faults : Nat,                       \* failing calls, silence of a living peer
   messages : Nat,                     \* messages published
   air : Nat,                          \* beacons on their way at a time
   calls : Nat]                        \* answers on their way at a time

ASSUME MeshAssumption ==
  /\ Homes \cap Observers = {}
  /\ Layouts \subseteq [Homes \cup Observers -> Nat]
  /\ \A b \in Budgets : b \in BudgetType

VARIABLES
  cluster,   \* the cluster of each daemon, fixed
  up,        \* the homes that run
  life,      \* how often each home was started
  home,      \* the registry of each home
  cached,    \* cachedLocalHash_ of each home
  thread,    \* where the sender and the server of each home are
  air,       \* beacons on their way, with their receiver
  view,      \* the registry of each observer
  sync,      \* the peers each observer has yet to ask for their topics
  answers,   \* answers of GetNodeState on their way
  outcome,   \* history: how the last call for the topics of a peer ended
  pending,   \* observers that changed peers_ and have to rebuild their routes
  sending,   \* the message each PublishReactor has, and the peers left to push it to
  push,      \* messages being pushed
  arrived,   \* history: the messages that arrived at each home, in order
  left       \* what is left of the budget

vars == <<cluster, up, life, home, cached, thread, air, view, sync, answers,
          outcome, pending, push, sending, arrived, left>>

Uuid(n) == <<n, life[n]>>

MaxOf(what) == Max({b[what] : b \in Budgets})

Uuids == Homes \X (1..(MaxOf("restarts") + 1))

Interests == UNION {b.interests : b \in Budgets}

Topics == UNION Interests

-----------------------------------------------------------------------------
(* computeLocalTopicHash(): the topics sorted and put together *)

Before(a, b) ==
  \/ \E k \in DOMAIN a \cap DOMAIN b : SubSeq(a, 1, k - 1) = SubSeq(b, 1, k - 1) /\ a[k] < b[k]
  \/ Len(a) < Len(b) /\ a = SubSeq(b, 1, Len(a))

Concatenated == [ts \in SUBSET Topics |-> FlattenSeq(SetToSortSeq(ts, Before))]

HashOf(ts) == Concatenated[ts]

\* CRC64 of nothing is 0, what cachedLocalHash_ starts with.
NoHash == HashOf({})

\* A subscription is named by its interest.
R == INSTANCE PeerRegistry WITH
  Subs <- Interests, Peers <- Uuids, Endpoints <- Homes,
  Hashes <- {HashOf(ts) : ts \in SUBSET Topics}, Sequences <- {0},
  registry <- 0

Resting == [at |-> "rest"]

Threads == {"sender", "server"}

\* The registry after the subscriptions of ts.
Started(ts) == FoldSet(LAMBDA i, r : R!AddLocalSubscription(r, i, i), R!NewRegistry, ts)

Init ==
  /\ cluster \in Layouts
  /\ up = Homes
  /\ life = [n \in Homes |-> 1]
  /\ left \in Budgets
  /\ home = [n \in Homes |-> Started(left.start)]
  /\ cached = [n \in Homes |-> NoHash]
  /\ thread = [n \in Homes |-> [t \in Threads |-> Resting]]
  /\ air = {}
  /\ view = [m \in Observers |-> R!NewRegistry]
  /\ sync = [m \in Observers |-> {}]
  /\ answers = {}
  /\ outcome = [m \in Observers |-> [p \in Uuids |-> "none"]]
  /\ pending = {}
  /\ push = {}
  /\ sending = [m \in Observers |-> [id |-> 0, to |-> {}]]
  /\ arrived = [n \in Homes |-> <<>>]

homeVars == <<up, life, home, cached, thread>>
observerVars == <<view, sync, answers, outcome, pending>>
messageVars == <<push, sending, arrived>>

Spend(what) == left[what] > 0 /\ left' = [left EXCEPT ![what] = @ - 1]

-----------------------------------------------------------------------------
(* A home: its subscriptions, and getLocalTopicHash() in either thread *)

Subscribe(n) ==
  /\ n \in up /\ Spend("changes")
  /\ \E ts \in left.interests :
       /\ ts \notin DOMAIN home[n].local
       /\ home' = [home EXCEPT ![n] = R!AddLocalSubscription(@, ts, ts)]
  /\ UNCHANGED <<cluster, up, life, cached, thread, air, observerVars, messageVars>>

Unsubscribe(n) ==
  /\ n \in up /\ Spend("changes")
  /\ \E ts \in DOMAIN home[n].local :
       home' = [home EXCEPT ![n] = R!RemoveLocalSubscription(@, ts, FALSE)]
  /\ UNCHANGED <<cluster, up, life, cached, thread, air, observerVars, messageVars>>

Step(n, t, state) == thread' = [thread EXCEPT ![n][t] = state]

\* if (hashDirty_.load())
AfterCheck(n) == IF home[n].dirty THEN "compute" ELSE "load"

\* The sender wakes up and begins a beacon.
BeginBeacon(n) ==
  /\ n \in up /\ thread[n]["sender"] = Resting
  /\ Step(n, "sender", [at |-> AfterCheck(n)])
  /\ UNCHANGED <<cluster, up, life, home, cached, air, observerVars, messageVars, left>>

CheckDirty(n) ==
  /\ thread[n]["server"].at = "check"
  /\ Step(n, "server", [thread[n]["server"] EXCEPT !.at = AfterCheck(n)])
  /\ UNCHANGED <<cluster, up, life, home, cached, air, observerVars, messageVars, left>>

\* computeLocalTopicHash(), under the lock of the subscriptions.
ComputeHash(n, t) ==
  /\ thread[n][t].at = "compute"
  /\ Step(n, t, [hash |-> HashOf(R!LocalTopics(home[n])), at |-> "store"] @@ thread[n][t])
  /\ UNCHANGED <<cluster, up, life, home, cached, air, observerVars, messageVars, left>>

StoreHash(n, t) ==
  /\ thread[n][t].at = "store"
  /\ cached' = [cached EXCEPT ![n] = thread[n][t].hash]
  /\ Step(n, t, [thread[n][t] EXCEPT !.at = "clear", !.hash = NoHash])
  /\ UNCHANGED <<cluster, up, life, home, air, observerVars, messageVars, left>>

\* hashDirty_.store(false), also when a subscription has set it meanwhile.
ClearDirty(n, t) ==
  /\ thread[n][t].at = "clear"
  /\ home' = [home EXCEPT ![n].dirty = FALSE]
  /\ Step(n, t, [thread[n][t] EXCEPT !.at = "load"])
  /\ UNCHANGED <<cluster, up, life, cached, air, observerVars, messageVars, left>>

\* sendBeacon() with the cached hash, to every observer.
SendBeacon(n) ==
  /\ thread[n]["sender"].at = "load" /\ Cardinality(air) < left.air
  /\ air' = air \cup {[to |-> m, uuid |-> Uuid(n), hash |-> cached[n],
                       cluster |-> cluster[n]] : m \in Observers}
  /\ Step(n, "sender", Resting)
  /\ UNCHANGED <<cluster, up, life, home, cached, observerVars, messageVars, left>>

LoseBeacon ==
  /\ \E b \in air : air' = air \ {b}
  /\ UNCHANGED <<cluster, homeVars, observerVars, messageVars, left>>

-----------------------------------------------------------------------------
(* An observer: processBeacon() and the reaping of silent peers *)

\* The own uuid cannot come here: homes and observers are different daemons.
ProcessBeacon(m, n) ==
  \E b \in air :
    /\ b.to = m /\ b.uuid[1] = n
    /\ air' = air \ {b}
    /\ IF b.cluster # cluster[m] THEN UNCHANGED <<view, sync>>
       ELSE /\ view' = [view EXCEPT ![m] = R!UpsertPeer(@, b.uuid, n, b.hash)]
            /\ sync' = IF R!NeedsSync(view[m], b.uuid, b.hash)
                       THEN [sync EXCEPT ![m] = @ \cup {b.uuid}] ELSE sync
    /\ UNCHANGED <<cluster, homeVars, answers, outcome, pending, messageVars, left>>

\* No beacon for peer_timeout_ms: after a crash, or because they were lost.
PeerFallsSilent(m) ==
  /\ \E p \in DOMAIN view[m].peers :
       /\ ~view[m].peers[p].silent
       /\ view' = [view EXCEPT ![m].peers[p].silent = TRUE]
       /\ IF p[1] \in up /\ p = Uuid(p[1]) THEN Spend("faults") ELSE UNCHANGED left
  /\ UNCHANGED <<cluster, homeVars, air, sync, answers, outcome, pending, messageVars>>

Reap(m) ==
  /\ R!DeadPeers(view[m]) # {}
  /\ view' = [view EXCEPT ![m] = R!ReapDeadPeers(@)]
  /\ pending' = pending \cup {m}
  /\ UNCHANGED <<cluster, homeVars, air, sync, answers, outcome, messageVars, left>>

Rebuild(m) ==
  /\ m \in pending
  /\ view' = [view EXCEPT ![m] = R!Rebuilt(@)]
  /\ pending' = pending \ {m}
  /\ UNCHANGED <<cluster, homeVars, air, sync, answers, outcome, messageVars, left>>

-----------------------------------------------------------------------------
(* getNodeState(), from the callback of the observer to its answer *)

\* The home reads its topics first, then its hash, in the server thread.
ReadTopics(m, n) ==
  /\ n \in up /\ thread[n]["server"] = Resting /\ Cardinality(answers) < left.calls
  /\ \E p \in sync[m] :
       /\ p[1] = n
       /\ sync' = [sync EXCEPT ![m] = @ \ {p}]
       /\ Step(n, "server", [at |-> "check", to |-> m, peer |-> p,
                             topics |-> R!LocalTopics(home[n])])
  /\ UNCHANGED <<cluster, up, life, home, cached, air, view, answers, outcome, pending, messageVars, left>>

AnswerState(n) ==
  /\ thread[n]["server"].at = "load"
  /\ LET call == thread[n]["server"] IN
       answers' = answers \cup {[to |-> call.to, peer |-> call.peer,
                                 topics |-> call.topics, hash |-> cached[n]]}
  /\ Step(n, "server", Resting)
  /\ UNCHANGED <<cluster, up, life, home, cached, air, view, sync, outcome, pending, messageVars, left>>

\* The callback stores the answer; the routes follow in a step of their own.
StoreAnswer(m) ==
  /\ \E a \in answers :
       /\ a.to = m
       /\ answers' = answers \ {a}
       /\ view' = [view EXCEPT ![m] = R!UpdatePeerState(@, a.peer, a.topics, a.hash)]
       /\ outcome' = [outcome EXCEPT ![m][a.peer] = IF a.hash = HashOf(a.topics) THEN "good" ELSE "torn"]
  /\ pending' = pending \cup {m}
  /\ UNCHANGED <<cluster, homeVars, air, sync, messageVars, left>>

\* The deadline passes, or nobody listens at the address: no second attempt.
CallFails(m) ==
  /\ \/ \E p \in sync[m] :
          /\ sync' = [sync EXCEPT ![m] = @ \ {p}]
          /\ outcome' = [outcome EXCEPT ![m][p] = "failed"]
          /\ IF p[1] \in up THEN Spend("faults") ELSE UNCHANGED left
          /\ UNCHANGED answers
     \/ \E a \in answers :
          /\ a.to = m
          /\ answers' = answers \ {a}
          /\ outcome' = [outcome EXCEPT ![m][a.peer] = "failed"]
          /\ Spend("faults")
          /\ UNCHANGED sync
  /\ UNCHANGED <<cluster, homeVars, air, view, pending, messageVars>>

-----------------------------------------------------------------------------
(* Crashes *)

Crash(n) ==
  /\ n \in up /\ Spend("restarts")
  /\ up' = up \ {n}
  /\ thread' = [thread EXCEPT ![n] = [t \in Threads |-> Resting]]
  /\ home' = [home EXCEPT ![n] = R!NewRegistry]
  /\ cached' = [cached EXCEPT ![n] = NoHash]
  /\ UNCHANGED <<cluster, life, air, observerVars, messageVars>>

\* main() makes a new uuid; the addresses come from the configuration.  Clients
\* that subscribe again at once have done so before the first beacon.
Restart(n) ==
  /\ n \notin up
  /\ up' = up \cup {n}
  /\ life' = [life EXCEPT ![n] = @ + 1]
  /\ home' = [home EXCEPT ![n] = Started(left.start)]
  /\ UNCHANGED <<cluster, cached, thread, air, observerVars, messageVars, left>>

-----------------------------------------------------------------------------
(* PublishReactor on an observer, PushMessage on a home *)

ReadRoutes(m) ==
  /\ sending[m].to = {} /\ Spend("messages")
  /\ \E t \in UNION left.interests :
       sending' = [sending EXCEPT ![m] = [id |-> left.messages, to |-> R!RemoteSubscribers(view[m], t)]]
  /\ UNCHANGED <<cluster, homeVars, air, observerVars, push, arrived>>

\* A peer that is gone by now is passed over.
PushToPeer(m) ==
  /\ \E p \in sending[m].to :
       /\ sending' = [sending EXCEPT ![m].to = @ \ {p}]
       /\ push' = IF p \in DOMAIN view[m].peers
                  THEN push \cup {[id |-> sending[m].id, to |-> view[m].peers[p].endpoint, peer |-> p]}
                  ELSE push
  /\ UNCHANGED <<cluster, homeVars, air, observerVars, arrived, left>>

\* Variant: a message is pushed again after an error though it arrived.
PushArrivesTwice ==
  /\ \E c \in push :
       /\ c.to \in up
       /\ push' = push \ {c}
       /\ arrived' = [arrived EXCEPT ![c.to] = @ \o <<c.id, c.id>>]
  /\ UNCHANGED <<cluster, homeVars, air, observerVars, sending, left>>

\* deliverLocally(): the message is not forwarded again.
PushArrives ==
  /\ \E c \in push :
       /\ c.to \in up
       /\ push' = push \ {c}
       /\ arrived' = [arrived EXCEPT ![c.to] = Append(@, c.id)]
  /\ UNCHANGED <<cluster, homeVars, air, observerVars, sending, left>>

\* The failure is logged and the message is not pushed again.
PushFails ==
  /\ \E c \in push :
       /\ push' = push \ {c}
       /\ IF c.to \in up THEN Spend("faults") ELSE UNCHANGED left
  /\ UNCHANGED <<cluster, homeVars, air, observerVars, sending, arrived>>

-----------------------------------------------------------------------------
HashStep(n, t) == ComputeHash(n, t) \/ StoreHash(n, t) \/ ClearDirty(n, t)

HomeStep(n) ==
  \/ Subscribe(n) \/ Unsubscribe(n) \/ Crash(n) \/ Restart(n)
  \/ BeginBeacon(n) \/ SendBeacon(n) \/ CheckDirty(n) \/ AnswerState(n)
  \/ \E t \in Threads : HashStep(n, t)
  \/ \E m \in Observers : ReadTopics(m, n) \/ ProcessBeacon(m, n)

ObserverStep(m) ==
  \/ PeerFallsSilent(m) \/ Reap(m) \/ Rebuild(m) \/ StoreAnswer(m) \/ CallFails(m)
  \/ ReadRoutes(m) \/ PushToPeer(m)

Next ==
  \/ \E n \in Homes : HomeStep(n)
  \/ \E m \in Observers : ObserverStep(m)
  \/ LoseBeacon \/ PushArrives \/ PushFails

Spec == Init /\ [][Next]_vars

Dead(m) == {p \in DOMAIN view[m].peers : p[1] \notin up \/ p # Uuid(p[1])}

(***************************************************************************)
(* Threads that run go on; the sender wakes up again and again; beacons    *)
(* may be lost but not all of them; a call ends; a peer that sends nothing *)
(* is noticed.  Nothing is assumed of subscribers, publishers, crashes and *)
(* faults.                                                                 *)
(***************************************************************************)
FairSpec ==
  /\ Spec
  /\ \A n \in Homes :
       /\ WF_vars(BeginBeacon(n)) /\ WF_vars(SendBeacon(n))
       /\ WF_vars(CheckDirty(n)) /\ WF_vars(AnswerState(n))
       /\ \A t \in Threads : WF_vars(HashStep(n, t))
       /\ \A m \in Observers : WF_vars(ReadTopics(m, n)) /\ SF_vars(ProcessBeacon(m, n))
  /\ \A m \in Observers :
       /\ WF_vars(Reap(m)) /\ WF_vars(Rebuild(m)) /\ WF_vars(StoreAnswer(m))
       /\ WF_vars(CallFails(m))
       /\ WF_vars(Dead(m) # {} /\ PeerFallsSilent(m))

-----------------------------------------------------------------------------
(* Properties *)

\* The type of every variable.
TypeOK ==
  /\ up \subseteq Homes /\ life \in [Homes -> 1..(MaxOf("restarts") + 1)]
  /\ \A n \in Homes : R!LocalTopics(home[n]) \subseteq Topics
  /\ \A m \in Observers : DOMAIN view[m].peers \subseteq Uuids /\ sync[m] \subseteq Uuids
  /\ pending \subseteq Observers
  /\ arrived \in [Homes -> Seq(1..MaxOf("messages"))]

(* Clusters do not mix: no peer of another cluster is ever in the registry *)
(* and no message crosses, whatever beacons are received.                  *)
Isolated ==
  /\ \A m \in Observers : \A p \in DOMAIN view[m].peers : cluster[p[1]] = cluster[m]
  /\ \A c \in push : \E m \in Observers : cluster[c.to] = cluster[m]

(* Whenever no rebuild is due, the routing table has every topic of every  *)
(* synchronised peer, and nothing but topics known peers announced:        *)
(* peers_ and routingTable_ are behind two locks and changed one after the *)
(* other by the receiver and by callbacks.                                 *)
RoutesFollowPeers ==
  \A m \in Observers \ pending :
    LET v == view[m] IN
    /\ \A t \in DOMAIN v.routes : \A p \in v.routes[t] : p \in DOMAIN v.peers /\ t \in v.peers[p].topics
    /\ \A p \in R!SyncedPeers(v) : \A t \in v.peers[p].topics : p \in R!RemoteSubscribers(v, t)

Count(n, id) == Cardinality({k \in DOMAIN arrived[n] : arrived[n][k] = id})

(* A message arrives at a daemon at most once for each of its lives: it is *)
(* duplicated only while a publisher knows the daemon by an old uuid too.  *)
OncePerLife == \A n \in Homes, id \in 1..MaxOf("messages") : Count(n, id) <= life[n]

Routed(m, n) == {t \in DOMAIN view[m].routes : Uuid(n) \in view[m].routes[t]}

\* The routes are right.
Right(m, n) == Routed(m, n) = R!LocalTopics(home[n])

\* The cached hash is old and the flag was cleared after the change.
StaleCache(n) == ~home[n].dirty /\ cached[n] # HashOf(R!LocalTopics(home[n]))

\* The answer had the topics of one moment and the hash of another.
TornAnswer(m, n) == outcome[m][Uuid(n)] = "torn"

\* The last call for the topics failed; the hash was stored before it.
CallFailed(m, n) == outcome[m][Uuid(n)] = "failed"

\* Other topics with the same hash.
SameHash(m, n) ==
  /\ Uuid(n) \in R!SyncedPeers(view[m])
  /\ view[m].peers[Uuid(n)].topics # R!LocalTopics(home[n])
  /\ HashOf(view[m].peers[Uuid(n)].topics) = HashOf(R!LocalTopics(home[n]))

(* Once subscriptions stop changing, the routes of every daemon settle on  *)
(* the topics of every running daemon of its cluster, in spite of lost and *)
(* reordered beacons, restarts and timeouts.  The only ways to stay wrong  *)
(* are the four above.                                                     *)
RoutesSettle ==
  \A m \in Observers, n \in Homes :
    <>[](n \in up /\ cluster[m] = cluster[n] =>
           Right(m, n) \/ StaleCache(n) \/ TornAnswer(m, n) \/ CallFailed(m, n) \/ SameHash(m, n))

(* A daemon that is gone for good leaves every routing table in the end,   *)
(* beacons that arrive after its death included.                           *)
DeadLeaveRoutes ==
  \A m \in Observers : <>[](\A t \in DOMAIN view[m].routes : view[m].routes[t] \cap Dead(m) = {})
=============================================================================
