----------------------------- MODULE SessionsProofs -----------------------------
(***************************************************************************)
(* Whatever methods of the registry are called, in whatever order, its     *)
(* index is the inverse of its subscriptions. The sessions of one daemon   *)
(* keep the registry and activeStreams_ in step, use the registry as       *)
(* PeerRegistry expects, and lose no retained message.                     *)
(***************************************************************************)
EXTENDS SessionsStepProofs

\* Steps that need arithmetic cite SMT.
USE Zenon

\* The index ix is the inverse of the topics of the subscriptions in subs.
Inverts(subs, ix) ==
  /\ \A t \in DOMAIN ix :
       /\ ix[t] # {}
       /\ \A s \in ix[t] : s \in DOMAIN subs /\ t \in subs[s].topics
  /\ \A s \in DOMAIN subs : \A t \in subs[s].topics : t \in DOMAIN ix /\ s \in ix[t]

-----------------------------------------------------------------------------
(* The inductive invariant, of any registry *)

\* A registry with these members.
Rec(l, p, i, d, pe, ro) ==
  [local |-> l, paused |-> p, index |-> i, dirty |-> d, peers |-> pe, routes |-> ro]

Shape(r) == r = Rec(r.local, r.paused, r.index, r.dirty, r.peers, r.routes)

\* The part of it that subscriptionMutex_ protects.
SubscriptionInv(subs, pauses, ix) ==
  /\ DOMAIN subs \subseteq Subs /\ \A s \in DOMAIN subs : subs[s] \in LocalSubscription
  /\ DOMAIN pauses \subseteq Subs /\ \A s \in DOMAIN pauses : pauses[s] \in PausedSubscription
  /\ DOMAIN ix \subseteq Topics
  /\ Inverts(subs, ix)
  /\ DOMAIN subs \cap DOMAIN pauses = {}

\* The part of it that peerMutex_ protects.
PeerInv(peers) == DOMAIN peers \subseteq Peers /\ \A p \in DOMAIN peers : peers[p] \in PeerInfo

RegistryInv(r) ==
  /\ Shape(r) /\ r.dirty \in BOOLEAN
  /\ SubscriptionInv(r.local, r.paused, r.index)
  /\ PeerInv(r.peers)

\* An assignment to one member.
PutLocal(r, v) == [r EXCEPT !.local = v]
PutPaused(r, v) == [r EXCEPT !.paused = v]
PutIndex(r, v) == [r EXCEPT !.index = v]
PutDirty(r, v) == [r EXCEPT !.dirty = v]
PutPeers(r, v) == [r EXCEPT !.peers = v]
PutRoutes(r, v) == [r EXCEPT !.routes = v]

\* hashDirty_ = true, and a registry where it is.
Mark(r) == PutDirty(r, TRUE)
Marked(l, p, i, pe, ro) == Rec(l, p, i, TRUE, pe, ro)

\* Assignments to the members of a registry.
LEMMA PutFields ==
  ASSUME NEW l, NEW p, NEW i, NEW d, NEW pe, NEW ro, NEW v
  PROVE  /\ PutLocal(Rec(l, p, i, d, pe, ro), v) = Rec(v, p, i, d, pe, ro)
         /\ PutPaused(Rec(l, p, i, d, pe, ro), v) = Rec(l, v, i, d, pe, ro)
         /\ PutIndex(Rec(l, p, i, d, pe, ro), v) = Rec(l, p, v, d, pe, ro)
         /\ PutDirty(Rec(l, p, i, d, pe, ro), v) = Rec(l, p, i, v, pe, ro)
         /\ PutPeers(Rec(l, p, i, d, pe, ro), v) = Rec(l, p, i, d, v, ro)
         /\ PutRoutes(Rec(l, p, i, d, pe, ro), v) = Rec(l, p, i, d, pe, v)
<1>1. PutLocal(Rec(l, p, i, d, pe, ro), v) = Rec(v, p, i, d, pe, ro)
  BY SMT DEF Rec, PutLocal
<1>2. PutPaused(Rec(l, p, i, d, pe, ro), v) = Rec(l, v, i, d, pe, ro)
  BY SMT DEF Rec, PutPaused
<1>3. PutIndex(Rec(l, p, i, d, pe, ro), v) = Rec(l, p, v, d, pe, ro)
  BY SMT DEF Rec, PutIndex
<1>4. PutDirty(Rec(l, p, i, d, pe, ro), v) = Rec(l, p, i, v, pe, ro)
  BY SMT DEF Rec, PutDirty
<1>5. PutPeers(Rec(l, p, i, d, pe, ro), v) = Rec(l, p, i, d, v, ro)
  BY SMT DEF Rec, PutPeers
<1>6. PutRoutes(Rec(l, p, i, d, pe, ro), v) = Rec(l, p, i, d, pe, v)
  BY SMT DEF Rec, PutRoutes
<1> QED BY <1>1, <1>2, <1>3, <1>4, <1>5, <1>6

\* The members of a registry.
LEMMA RecFields ==
  ASSUME NEW l, NEW p, NEW i, NEW d, NEW pe, NEW ro
  PROVE  /\ Rec(l, p, i, d, pe, ro).local = l /\ Rec(l, p, i, d, pe, ro).paused = p
         /\ Rec(l, p, i, d, pe, ro).index = i /\ Rec(l, p, i, d, pe, ro).dirty = d
         /\ Rec(l, p, i, d, pe, ro).peers = pe /\ Rec(l, p, i, d, pe, ro).routes = ro
BY DEF Rec

\* The invariant of a registry given by its members.
LEMMA RecInv ==
  ASSUME NEW l, NEW p, NEW i, NEW d \in BOOLEAN, NEW pe, NEW ro,
         SubscriptionInv(l, p, i), PeerInv(pe)
  PROVE  RegistryInv(Rec(l, p, i, d, pe, ro))
<1> DEFINE r == Rec(l, p, i, d, pe, ro)
<1>1. /\ r.local = l /\ r.paused = p /\ r.index = i
      /\ r.dirty = d /\ r.peers = pe /\ r.routes = ro
  BY SMT, RecFields
<1>2. r = Rec(l, p, i, d, pe, ro)
  OBVIOUS
<1> HIDE DEF r
<1>3. RegistryInv(r)
  BY <1>1, <1>2 DEF Shape, RegistryInv
<1> QED BY <1>3 DEF r

\* The same where hashDirty_ is set.
LEMMA MarkedInv ==
  ASSUME NEW l, NEW p, NEW i, NEW pe, NEW ro, SubscriptionInv(l, p, i), PeerInv(pe)
  PROVE  RegistryInv(Marked(l, p, i, pe, ro))
BY RecInv DEF Marked

\* Setting it.
LEMMA MarkField ==
  ASSUME NEW l, NEW p, NEW i, NEW d, NEW pe, NEW ro
  PROVE  Mark(Rec(l, p, i, d, pe, ro)) = Marked(l, p, i, pe, ro)
<1> DEFINE yes == TRUE
<1> HIDE DEF yes
<1>1. PutDirty(Rec(l, p, i, d, pe, ro), yes) = Rec(l, p, i, yes, pe, ro)
  BY SMT, PutFields
<1> QED BY <1>1 DEF yes, Mark, Marked

\* The assignments of addLocalSubscription().
LEMMA AddAssigns ==
  ASSUME NEW l, NEW p, NEW i, NEW d, NEW pe, NEW ro, NEW l2, NEW i2
  PROVE  Mark(PutIndex(PutLocal(Rec(l, p, i, d, pe, ro), l2), i2))
           = Marked(l2, p, i2, pe, ro)
<1>1. PutLocal(Rec(l, p, i, d, pe, ro), l2) = Rec(l2, p, i, d, pe, ro)
  BY SMT, PutFields
<1>2. PutIndex(Rec(l2, p, i, d, pe, ro), i2) = Rec(l2, p, i2, d, pe, ro)
  BY SMT, PutFields
<1>3. Mark(Rec(l2, p, i2, d, pe, ro)) = Marked(l2, p, i2, pe, ro)
  BY MarkField
<1> QED BY <1>1, <1>2, <1>3

\* The assignments of resumeSubscription().
LEMMA ResumeAssigns ==
  ASSUME NEW l, NEW p, NEW i, NEW d, NEW pe, NEW ro, NEW l2, NEW p2, NEW i2
  PROVE  Mark(PutPaused(PutIndex(PutLocal(Rec(l, p, i, d, pe, ro), l2), i2), p2))
           = Marked(l2, p2, i2, pe, ro)
<1>1. PutLocal(Rec(l, p, i, d, pe, ro), l2) = Rec(l2, p, i, d, pe, ro)
  BY SMT, PutFields
<1>2. PutIndex(Rec(l2, p, i, d, pe, ro), i2) = Rec(l2, p, i2, d, pe, ro)
  BY SMT, PutFields
<1>3. PutPaused(Rec(l2, p, i2, d, pe, ro), p2) = Rec(l2, p2, i2, d, pe, ro)
  BY SMT, PutFields
<1>4. Mark(Rec(l2, p2, i2, d, pe, ro)) = Marked(l2, p2, i2, pe, ro)
  BY MarkField
<1> QED BY <1>1, <1>2, <1>3, <1>4

\* The assignments of removeLocalSubscription().
LEMMA RemoveAssigns ==
  ASSUME NEW l, NEW p, NEW i, NEW d, NEW pe, NEW ro, NEW l2, NEW p2, NEW i2
  PROVE  Mark(PutLocal(PutIndex(PutPaused(Rec(l, p, i, d, pe, ro), p2), i2), l2))
           = Marked(l2, p2, i2, pe, ro)
<1>1. PutPaused(Rec(l, p, i, d, pe, ro), p2) = Rec(l, p2, i, d, pe, ro)
  BY SMT, PutFields
<1>2. PutIndex(Rec(l, p2, i, d, pe, ro), i2) = Rec(l, p2, i2, d, pe, ro)
  BY SMT, PutFields
<1>3. PutLocal(Rec(l, p2, i2, d, pe, ro), l2) = Rec(l2, p2, i2, d, pe, ro)
  BY SMT, PutFields
<1>4. Mark(Rec(l2, p2, i2, d, pe, ro)) = Marked(l2, p2, i2, pe, ro)
  BY MarkField
<1> QED BY <1>1, <1>2, <1>3, <1>4

-----------------------------------------------------------------------------
(* Every registry RegistrySpec reaches *)

Inv == RegistryInv(registry)

\* A new registry has the invariant.
LEMMA InitInv == RegistryInit => Inv
<1> SUFFICES ASSUME RegistryInit PROVE RegistryInv(registry)
  BY DEF Inv
<1>1. registry = Marked(Empty, Empty, Empty, Empty, Empty)
  BY DEF RegistryInit, NewRegistry, Marked, Rec
<1>2. DOMAIN Empty = {}
  BY DEF Empty
<1>3. SubscriptionInv(Empty, Empty, Empty) /\ PeerInv(Empty)
  BY <1>2 DEF SubscriptionInv, PeerInv, Inverts
<1> QED BY <1>1, <1>3, MarkedInv

\* Every method, and the passing of time, keeps it.
LEMMA NextInv == Inv /\ [RegistryNext]_registry => Inv'
\* addLocalSubscription() and resumeSubscription() keep the index exact.
<1>IndexedInverse. ASSUME NEW subs, NEW ix, NEW s, NEW sub, s \notin DOMAIN subs, Inverts(subs, ix)
                   PROVE  Inverts(With(subs, s, sub), Indexed(ix, s, sub.topics))
  <2> USE <1>IndexedInverse
  <2> DEFINE ts == sub.topics
             subs2 == With(subs, s, sub)
             ix2 == Indexed(ix, s, ts)
  <2>1. /\ DOMAIN subs2 = DOMAIN subs \cup {s} /\ subs2[s] = sub
        /\ \A x \in DOMAIN subs : subs2[x] = subs[x]
    BY DEF With
  <2>2. /\ DOMAIN ix2 = DOMAIN ix \cup ts
        /\ \A t \in DOMAIN ix2 : ix2[t] = At(ix, t) \cup (IF t \in ts THEN {s} ELSE {})
    BY DEF Indexed
  <2> HIDE DEF subs2, ix2
  <2>3. ASSUME NEW t \in DOMAIN ix2
        PROVE  ix2[t] # {} /\ \A x \in ix2[t] : x \in DOMAIN subs2 /\ t \in subs2[x].topics
    BY SMT, <2>1, <2>2 DEF Inverts, At
  <2>4. ASSUME NEW x \in DOMAIN subs2, NEW t \in subs2[x].topics
        PROVE  t \in DOMAIN ix2 /\ x \in ix2[t]
    BY SMT, <2>1, <2>2 DEF Inverts, At
  <2>5. Inverts(subs2, ix2)
    BY <2>3, <2>4 DEF Inverts
  <2> QED BY <2>5 DEF subs2, ix2
\* removeLocalSubscription() keeps the index exact, empty topics included.
<1>UnindexedInverse. ASSUME NEW subs, NEW ix, NEW s, s \in DOMAIN subs, Inverts(subs, ix)
                     PROVE  Inverts(Without(subs, {s}), Unindexed(ix, s, subs[s].topics))
  <2> USE <1>UnindexedInverse
  <2> DEFINE ts == subs[s].topics
             subs2 == Without(subs, {s})
             ix2 == Unindexed(ix, s, ts)
  <2>1. DOMAIN subs2 = DOMAIN subs \ {s} /\ \A x \in DOMAIN subs2 : subs2[x] = subs[x]
    BY DEF Without
  <2>2. /\ DOMAIN ix2 = {u \in DOMAIN ix : u \in ts => ix[u] \ {s} # {}}
        /\ \A t \in DOMAIN ix2 : ix2[t] = IF t \in ts THEN ix[t] \ {s} ELSE ix[t]
    BY DEF Unindexed
  <2> HIDE DEF subs2, ix2
  <2>3. ASSUME NEW t \in DOMAIN ix2
        PROVE  ix2[t] # {} /\ \A x \in ix2[t] : x \in DOMAIN subs2 /\ t \in subs2[x].topics
    <3>1. t \in DOMAIN ix /\ ix2[t] \subseteq ix[t]
      BY <2>2
    <3>2. s \notin ix2[t]
      <4>1. CASE t \in ts
        BY <2>2, <4>1
      <4>2. CASE t \notin ts
        BY <2>2, <3>1, <4>2 DEF Inverts
      <4> QED BY <4>1, <4>2
    <3>3. ix2[t] # {}
      BY <2>2, <3>1 DEF Inverts
    <3> QED BY <2>1, <3>1, <3>2, <3>3 DEF Inverts
  <2>4. ASSUME NEW x \in DOMAIN subs2, NEW t \in subs2[x].topics
        PROVE  t \in DOMAIN ix2 /\ x \in ix2[t]
    <3>1. t \in DOMAIN ix /\ x \in ix[t] /\ x # s
      BY <2>1 DEF Inverts
    <3> QED BY <2>2, <3>1
  <2>5. Inverts(subs2, ix2)
    BY <2>3, <2>4 DEF Inverts
  <2> QED BY <2>5 DEF subs2, ix2
\* The index does not depend on the sequence numbers of the subscriptions.
<1>SameTopicsInverse. ASSUME NEW subs, NEW ix, NEW s \in DOMAIN subs, NEW sub, sub.topics = subs[s].topics,
                             Inverts(subs, ix)
                      PROVE  Inverts(With(subs, s, sub), ix)
  <2> USE <1>SameTopicsInverse
  <2> DEFINE subs2 == With(subs, s, sub)
  <2>1. /\ DOMAIN subs2 = DOMAIN subs
        /\ \A x \in DOMAIN subs2 : subs2[x].topics = subs[x].topics
    BY DEF With
  <2> HIDE DEF subs2
  <2>2. Inverts(subs2, ix)
    BY <2>1 DEF Inverts
  <2> QED BY <2>2 DEF subs2
\* addLocalSubscription(), for an id that is not paused.
<1>AddKeepsInv. ASSUME NEW l, NEW p, NEW i, NEW d \in BOOLEAN, NEW pe, NEW ro,
                       SubscriptionInv(l, p, i), PeerInv(pe), NEW r, r = Rec(l, p, i, d, pe, ro),
                       NEW s \in Subs, NEW ts \in SUBSET Topics, s \notin DOMAIN p
                PROVE  RegistryInv(AddLocalSubscription(r, s, ts))
  <2> USE <1>AddKeepsInv
  <2>1. r.local = l /\ r.index = i
    BY SMT, RecFields
  <2>2. RegistryInv(r)
    BY RecInv
  <2>3. CASE s \in DOMAIN l
    <3>1. AddLocalSubscription(r, s, ts) = r
      BY <2>1, <2>3 DEF AddLocalSubscription
    <3> QED BY <2>2, <3>1
  <2>4. CASE s \notin DOMAIN l
    <3> DEFINE sub == [topics |-> ts, last |-> 0]
               subs == With(l, s, sub)
               ix == Indexed(i, s, ts)
    <3>1. sub.topics = ts /\ sub \in LocalSubscription
      BY RegistryAssumption DEF LocalSubscription
    <3>2. AddLocalSubscription(r, s, ts) = Mark(PutIndex(PutLocal(r, subs), ix))
      BY <2>1, <2>4 DEF AddLocalSubscription, Mark, PutDirty, PutIndex, PutLocal
    <3>3. DOMAIN ix \subseteq Topics
      BY DEF Indexed, SubscriptionInv
    <3>4. Inverts(subs, Indexed(i, s, sub.topics))
      BY <2>4, <1>IndexedInverse DEF SubscriptionInv
    <3>5. Inverts(subs, ix)
      BY <3>1, <3>4
    <3> HIDE DEF sub
    <3>6. DOMAIN subs = DOMAIN l \cup {s} /\ \A x \in DOMAIN subs : subs[x] \in LocalSubscription
      BY <3>1 DEF With, SubscriptionInv
    <3> HIDE DEF subs, ix
    <3>7. SubscriptionInv(subs, p, ix)
      BY <3>3, <3>5, <3>6 DEF SubscriptionInv
    <3>8. AddLocalSubscription(r, s, ts) = Marked(subs, p, ix, pe, ro)
      <4>1. Mark(PutIndex(PutLocal(Rec(l, p, i, d, pe, ro), subs), ix))
              = Marked(subs, p, ix, pe, ro)
        BY SMT, AddAssigns
      <4> QED BY <3>2, <4>1
    <3>9. RegistryInv(Marked(subs, p, ix, pe, ro))
      BY <3>7, MarkedInv
    <3> QED BY <3>8, <3>9
  <2> QED BY <2>3, <2>4
\* removeLocalSubscription(), with and without pause.
<1>RemoveKeepsInv. ASSUME NEW l, NEW p, NEW i, NEW d \in BOOLEAN, NEW pe, NEW ro,
                          SubscriptionInv(l, p, i), PeerInv(pe), NEW r, r = Rec(l, p, i, d, pe, ro),
                          NEW s \in Subs, NEW pause \in BOOLEAN
                   PROVE  RegistryInv(RemoveLocalSubscription(r, s, pause))
  <2> USE <1>RemoveKeepsInv
  <2>1. r.local = l /\ r.index = i /\ r.paused = p
    BY SMT, RecFields
  <2>2. RegistryInv(r)
    BY RecInv
  <2>3. CASE s \notin DOMAIN l
    <3>1. RemoveLocalSubscription(r, s, pause) = r
      BY <2>1, <2>3 DEF RemoveLocalSubscription
    <3> QED BY <2>2, <3>1
  <2>4. CASE s \in DOMAIN l
    <3> DEFINE saved == Pausing(l[s])
               pauses == IF pause THEN With(p, s, saved) ELSE p
               subs == Without(l, {s})
               ix == Unindexed(i, s, l[s].topics)
    <3>1. RemoveLocalSubscription(r, s, pause)
            = Mark(PutLocal(PutIndex(PutPaused(r, pauses), ix), subs))
      BY <2>1, <2>4 DEF RemoveLocalSubscription, Mark, PutDirty, PutIndex, PutLocal, PutPaused
    <3>2. saved \in PausedSubscription
      BY <2>4 DEF SubscriptionInv, LocalSubscription, PausedSubscription, Pausing
    <3> HIDE DEF saved
    <3>3. /\ DOMAIN pauses \subseteq DOMAIN p \cup {s}
          /\ \A x \in DOMAIN pauses : pauses[x] \in PausedSubscription
      BY <3>2 DEF With, SubscriptionInv
    <3>4. DOMAIN subs = DOMAIN l \ {s} /\ \A x \in DOMAIN subs : subs[x] \in LocalSubscription
      BY DEF Without, SubscriptionInv
    <3>5. DOMAIN ix \subseteq Topics
      BY DEF Unindexed, SubscriptionInv
    <3>6. Inverts(subs, ix)
      BY <2>4, <1>UnindexedInverse DEF SubscriptionInv
    <3> HIDE DEF pauses, subs, ix
    <3>7. SubscriptionInv(subs, pauses, ix)
      BY <3>3, <3>4, <3>5, <3>6 DEF SubscriptionInv
    <3>8. Mark(PutLocal(PutIndex(PutPaused(Rec(l, p, i, d, pe, ro), pauses), ix), subs))
            = Marked(subs, pauses, ix, pe, ro)
      BY SMT, RemoveAssigns
    <3>9. RegistryInv(Marked(subs, pauses, ix, pe, ro))
      BY <3>7, MarkedInv
    <3> QED BY <3>1, <3>8, <3>9
  <2> QED BY <2>3, <2>4
\* resumeSubscription(), of a pause that is there, has expired or is unknown.
<1>ResumeKeepsInv. ASSUME NEW l, NEW p, NEW i, NEW d \in BOOLEAN, NEW pe, NEW ro,
                          SubscriptionInv(l, p, i), PeerInv(pe), NEW r, r = Rec(l, p, i, d, pe, ro),
                          NEW s \in Subs
                   PROVE  RegistryInv(ResumeSubscription(r, s))
  <2> USE <1>ResumeKeepsInv
  <2>1. r.local = l /\ r.index = i /\ r.paused = p
    BY SMT, RecFields
  <2> DEFINE pauses == Without(p, {s})
  <2>2. DOMAIN pauses = DOMAIN p \ {s} /\ \A x \in DOMAIN pauses : pauses[x] \in PausedSubscription
    BY DEF Without, SubscriptionInv
  <2>3. CASE ~Resumable(r, s)
    <3>1. ResumeSubscription(r, s) = PutPaused(r, pauses)
      BY <2>1, <2>3 DEF ResumeSubscription, PutPaused
    <3> HIDE DEF pauses
    <3>2. SubscriptionInv(l, pauses, i)
      BY <2>2 DEF SubscriptionInv
    <3>3. PutPaused(Rec(l, p, i, d, pe, ro), pauses) = Rec(l, pauses, i, d, pe, ro)
      BY SMT, PutFields
    <3>4. RegistryInv(Rec(l, pauses, i, d, pe, ro))
      BY <3>2, RecInv
    <3> QED BY <3>1, <3>3, <3>4
  <2>4. CASE Resumable(r, s)
    <3> DEFINE sub == [topics |-> p[s].topics, last |-> p[s].last]
               subs == With(l, s, sub)
               ix == Indexed(i, s, p[s].topics)
    <3>1. ResumeSubscription(r, s)
            = Mark(PutPaused(PutIndex(PutLocal(r, subs), ix), pauses))
      BY <2>1, <2>4 DEF ResumeSubscription, Mark, PutDirty, PutIndex, PutLocal, PutPaused
    <3>2. s \in DOMAIN p /\ s \notin DOMAIN l /\ p[s] \in PausedSubscription
      BY <2>1, <2>4 DEF Resumable, SubscriptionInv
    <3>3. sub.topics = p[s].topics /\ sub \in LocalSubscription /\ p[s].topics \subseteq Topics
      BY <3>2 DEF LocalSubscription, PausedSubscription
    <3>4. DOMAIN ix \subseteq Topics
      BY <3>3 DEF Indexed, SubscriptionInv
    <3>5. Inverts(subs, Indexed(i, s, sub.topics))
      BY <3>2, <1>IndexedInverse DEF SubscriptionInv
    <3>6. Inverts(subs, ix)
      BY <3>3, <3>5
    <3> HIDE DEF sub
    <3>7. DOMAIN subs = DOMAIN l \cup {s} /\ \A x \in DOMAIN subs : subs[x] \in LocalSubscription
      BY <3>3 DEF With, SubscriptionInv
    <3> HIDE DEF subs, ix, pauses
    <3>8. SubscriptionInv(subs, pauses, ix)
      BY <2>2, <3>4, <3>6, <3>7 DEF SubscriptionInv
    <3>9. Mark(PutPaused(PutIndex(PutLocal(Rec(l, p, i, d, pe, ro), subs), ix), pauses))
            = Marked(subs, pauses, ix, pe, ro)
      BY SMT, ResumeAssigns
    <3>10. RegistryInv(Marked(subs, pauses, ix, pe, ro))
      BY <3>8, MarkedInv
    <3> QED BY <3>1, <3>9, <3>10
  <2> QED BY <2>3, <2>4
\* An assignment to pausedSubscriptions_ alone.
<1>PutPausedInv. ASSUME NEW l, NEW p, NEW i, NEW d \in BOOLEAN, NEW pe, NEW ro, PeerInv(pe),
                        NEW r, r = Rec(l, p, i, d, pe, ro), NEW v, SubscriptionInv(l, v, i)
                 PROVE  RegistryInv(PutPaused(r, v))
  <2> USE <1>PutPausedInv
  <2>1. PutPaused(Rec(l, p, i, d, pe, ro), v) = Rec(l, v, i, d, pe, ro)
    BY SMT, PutFields
  <2> QED BY <2>1, RecInv
\* An assignment to localSubscriptions_ alone.
<1>PutLocalInv. ASSUME NEW l, NEW p, NEW i, NEW d \in BOOLEAN, NEW pe, NEW ro, PeerInv(pe),
                       NEW r, r = Rec(l, p, i, d, pe, ro), NEW v, SubscriptionInv(v, p, i)
                PROVE  RegistryInv(PutLocal(r, v))
  <2> USE <1>PutLocalInv
  <2>1. PutLocal(Rec(l, p, i, d, pe, ro), v) = Rec(v, p, i, d, pe, ro)
    BY SMT, PutFields
  <2> QED BY <2>1, RecInv
\* An assignment to peers_ alone.
<1>PutPeersInv. ASSUME NEW l, NEW p, NEW i, NEW d \in BOOLEAN, NEW pe, NEW ro, SubscriptionInv(l, p, i),
                       NEW r, r = Rec(l, p, i, d, pe, ro), NEW v, PeerInv(v)
                PROVE  RegistryInv(PutPeers(r, v))
  <2> USE <1>PutPeersInv
  <2>1. PutPeers(Rec(l, p, i, d, pe, ro), v) = Rec(l, p, i, d, v, ro)
    BY SMT, PutFields
  <2> QED BY <2>1, RecInv
\* clearExpiredPausedSubscriptions().
<1>ClearExpiredKeepsInv. ASSUME NEW l, NEW p, NEW i, NEW d \in BOOLEAN, NEW pe, NEW ro,
                                SubscriptionInv(l, p, i), PeerInv(pe), NEW r, r = Rec(l, p, i, d, pe, ro)
                         PROVE  RegistryInv(ClearExpiredPausedSubscriptions(r))
  <2> USE <1>ClearExpiredKeepsInv
  <2>1. r.paused = p
    BY SMT, RecFields
  <2> DEFINE pauses == Without(p, ExpiredPauses(r))
  <2>2. ClearExpiredPausedSubscriptions(r) = PutPaused(r, pauses)
    BY <2>1 DEF ClearExpiredPausedSubscriptions, PutPaused
  <2>3. DOMAIN pauses \subseteq DOMAIN p /\ \A x \in DOMAIN pauses : pauses[x] \in PausedSubscription
    BY DEF Without, SubscriptionInv
  <2> HIDE DEF pauses
  <2>4. SubscriptionInv(l, pauses, i)
    BY <2>3 DEF SubscriptionInv
  <2>5. RegistryInv(PutPaused(r, pauses))
    BY <2>4, <1>PutPausedInv
  <2> QED BY <2>2, <2>5
\* A pause whose end passes.
<1>ExpiryKeepsInv. ASSUME NEW l, NEW p, NEW i, NEW d \in BOOLEAN, NEW pe, NEW ro,
                          SubscriptionInv(l, p, i), PeerInv(pe), NEW r, r = Rec(l, p, i, d, pe, ro),
                          NEW s \in DOMAIN p
                   PROVE  RegistryInv([r EXCEPT !.paused = With(@, s, [@[s] EXCEPT !.expired = TRUE])])
  <2> USE <1>ExpiryKeepsInv
  <2>1. r.paused = p
    BY SMT, RecFields
  <2> DEFINE pause == [p[s] EXCEPT !.expired = TRUE]
             pauses == With(p, s, pause)
  <2>2. [r EXCEPT !.paused = With(@, s, [@[s] EXCEPT !.expired = TRUE])] = PutPaused(r, pauses)
    BY <2>1 DEF PutPaused
  <2>3. p[s] \in PausedSubscription
    BY DEF SubscriptionInv
  <2>4. pause \in PausedSubscription
    BY <2>3 DEF PausedSubscription
  <2> HIDE DEF pause
  <2>5. DOMAIN pauses = DOMAIN p /\ \A x \in DOMAIN pauses : pauses[x] \in PausedSubscription
    BY <2>4 DEF With, SubscriptionInv
  <2> HIDE DEF pauses
  <2>6. SubscriptionInv(l, pauses, i)
    BY <2>5 DEF SubscriptionInv
  <2>7. RegistryInv(PutPaused(r, pauses))
    BY <2>6, <1>PutPausedInv
  <2> QED BY <2>2, <2>7
\* updateSubscriptionSequence().
<1>SequenceKeepsInv. ASSUME NEW l, NEW p, NEW i, NEW d \in BOOLEAN, NEW pe, NEW ro,
                            SubscriptionInv(l, p, i), PeerInv(pe), NEW r, r = Rec(l, p, i, d, pe, ro),
                            NEW s \in Subs, NEW seq \in Sequences
                     PROVE  RegistryInv(UpdateSubscriptionSequence(r, s, seq))
  <2> USE <1>SequenceKeepsInv
  <2>1. r.local = l
    BY SMT, RecFields
  <2>2. RegistryInv(r)
    BY RecInv
  <2>3. CASE s \notin DOMAIN l
    <3>1. UpdateSubscriptionSequence(r, s, seq) = r
      BY <2>1, <2>3 DEF UpdateSubscriptionSequence
    <3> QED BY <2>2, <3>1
  <2>4. CASE s \in DOMAIN l
    <3> DEFINE sub == [l[s] EXCEPT !.last = seq]
               subs == With(l, s, sub)
    <3>1. UpdateSubscriptionSequence(r, s, seq) = PutLocal(r, subs)
      BY <2>1, <2>4 DEF UpdateSubscriptionSequence, PutLocal
    <3>2. l[s] \in LocalSubscription
      BY <2>4 DEF SubscriptionInv
    <3>3. sub \in LocalSubscription /\ sub.topics = l[s].topics
      BY <3>2 DEF LocalSubscription
    <3> HIDE DEF sub
    <3>4. DOMAIN subs = DOMAIN l /\ \A x \in DOMAIN subs : subs[x] \in LocalSubscription
      BY <2>4, <3>3 DEF With, SubscriptionInv
    <3>5. Inverts(subs, i)
      BY <2>4, <3>3, <1>SameTopicsInverse DEF SubscriptionInv
    <3> HIDE DEF subs
    <3>6. SubscriptionInv(subs, p, i)
      BY <3>4, <3>5 DEF SubscriptionInv
    <3>7. RegistryInv(PutLocal(r, subs))
      BY <3>6, <1>PutLocalInv
    <3> QED BY <3>1, <3>7
  <2> QED BY <2>3, <2>4
\* A peer entered or replaced.
<1>WithPeerInv. ASSUME NEW pe, PeerInv(pe), NEW q \in Peers, NEW info \in PeerInfo
                PROVE  PeerInv(With(pe, q, info))
  BY <1>WithPeerInv DEF PeerInv, With
\* Peers erased.
<1>WithoutPeersInv. ASSUME NEW pe, PeerInv(pe), NEW qs
                    PROVE  PeerInv(Without(pe, qs))
  BY <1>WithoutPeersInv DEF PeerInv, Without
\* upsertPeer().
<1>UpsertKeepsInv. ASSUME NEW l, NEW p, NEW i, NEW d \in BOOLEAN, NEW pe, NEW ro,
                          SubscriptionInv(l, p, i), PeerInv(pe), NEW r, r = Rec(l, p, i, d, pe, ro),
                          NEW q \in Peers, NEW e \in Endpoints, NEW h \in Hashes
                   PROVE  RegistryInv(UpsertPeer(r, q, e, h))
  <2> USE <1>UpsertKeepsInv
  <2>1. r.peers = pe
    BY SMT, RecFields
  <2> DEFINE known == Refreshed(pe[q], e, h, NeedsSync(r, q, h))
             new == [endpoint |-> e, hash |-> h, topics |-> {}, synced |-> FALSE, silent |-> FALSE]
             info == IF q \in DOMAIN pe THEN known ELSE new
  <2>2. UpsertPeer(r, q, e, h) = PutPeers(r, With(pe, q, info))
    BY <2>1 DEF UpsertPeer, PutPeers
  <2>3. new \in PeerInfo
    BY DEF PeerInfo
  <2>4. ASSUME q \in DOMAIN pe PROVE known \in PeerInfo
    <3> DEFINE needs == NeedsSync(r, q, h)
    <3>1. pe[q] \in PeerInfo
      BY <2>4 DEF PeerInv
    <3> HIDE DEF needs
    <3>2. Refreshed(pe[q], e, h, needs) \in PeerInfo
      BY <3>1 DEF PeerInfo, Refreshed
    <3> QED BY <3>2 DEF needs
  <2> HIDE DEF known, new
  <2>5. info \in PeerInfo
    BY <2>3, <2>4
  <2> HIDE DEF info
  <2>6. PeerInv(With(pe, q, info))
    BY <2>5, <1>WithPeerInv
  <2>7. RegistryInv(PutPeers(r, With(pe, q, info)))
    BY <2>6, <1>PutPeersInv
  <2> QED BY <2>2, <2>7
\* updatePeerState().
<1>StateKeepsInv. ASSUME NEW l, NEW p, NEW i, NEW d \in BOOLEAN, NEW pe, NEW ro,
                         SubscriptionInv(l, p, i), PeerInv(pe), NEW r, r = Rec(l, p, i, d, pe, ro),
                         NEW q \in Peers, NEW ts \in SUBSET Topics, NEW h \in Hashes
                  PROVE  RegistryInv(UpdatePeerState(r, q, ts, h))
  <2> USE <1>StateKeepsInv
  <2>1. r.peers = pe
    BY SMT, RecFields
  <2>2. RegistryInv(r)
    BY RecInv
  <2>3. CASE q \notin DOMAIN pe
    <3>1. UpdatePeerState(r, q, ts, h) = r
      BY <2>1, <2>3 DEF UpdatePeerState
    <3> QED BY <2>2, <3>1
  <2>4. CASE q \in DOMAIN pe
    <3> DEFINE info == [pe[q] EXCEPT !.topics = ts, !.hash = h, !.synced = TRUE]
    <3>1. UpdatePeerState(r, q, ts, h) = PutPeers(r, With(pe, q, info))
      BY <2>1, <2>4 DEF UpdatePeerState, PutPeers
    <3>2. pe[q] \in PeerInfo
      BY <2>4 DEF PeerInv
    <3>3. info \in PeerInfo
      BY <3>2 DEF PeerInfo
    <3> HIDE DEF info
    <3>4. PeerInv(With(pe, q, info))
      BY <3>3, <1>WithPeerInv
    <3>5. RegistryInv(PutPeers(r, With(pe, q, info)))
      BY <3>4, <1>PutPeersInv
    <3> QED BY <3>1, <3>5
  <2> QED BY <2>3, <2>4
\* A peer that stays silent.
<1>SilenceKeepsInv. ASSUME NEW l, NEW p, NEW i, NEW d \in BOOLEAN, NEW pe, NEW ro,
                           SubscriptionInv(l, p, i), PeerInv(pe), NEW r, r = Rec(l, p, i, d, pe, ro),
                           NEW q \in DOMAIN pe
                    PROVE  RegistryInv([r EXCEPT !.peers = With(@, q, [@[q] EXCEPT !.silent = TRUE])])
  <2> USE <1>SilenceKeepsInv
  <2>1. r.peers = pe
    BY SMT, RecFields
  <2> DEFINE info == [pe[q] EXCEPT !.silent = TRUE]
  <2>2. [r EXCEPT !.peers = With(@, q, [@[q] EXCEPT !.silent = TRUE])] = PutPeers(r, With(pe, q, info))
    BY <2>1 DEF PutPeers
  <2>3. pe[q] \in PeerInfo /\ q \in Peers
    BY DEF PeerInv
  <2>4. info \in PeerInfo
    BY <2>3 DEF PeerInfo
  <2> HIDE DEF info
  <2>5. PeerInv(With(pe, q, info))
    BY <2>3, <2>4, <1>WithPeerInv
  <2>6. RegistryInv(PutPeers(r, With(pe, q, info)))
    BY <2>5, <1>PutPeersInv
  <2> QED BY <2>2, <2>6
\* removePeer() and reapDeadPeers(), which erase some peers.
<1>EraseKeepsInv. ASSUME NEW l, NEW p, NEW i, NEW d \in BOOLEAN, NEW pe, NEW ro,
                         SubscriptionInv(l, p, i), PeerInv(pe), NEW r, r = Rec(l, p, i, d, pe, ro), NEW qs
                  PROVE  RegistryInv([r EXCEPT !.peers = Without(@, qs)])
  <2> USE <1>EraseKeepsInv
  <2>1. r.peers = pe
    BY SMT, RecFields
  <2>2. [r EXCEPT !.peers = Without(@, qs)] = PutPeers(r, Without(pe, qs))
    BY <2>1 DEF PutPeers
  <2>3. PeerInv(Without(pe, qs))
    BY <1>WithoutPeersInv
  <2>4. RegistryInv(PutPeers(r, Without(pe, qs)))
    BY <2>3, <1>PutPeersInv
  <2> QED BY <2>2, <2>4
\* rebuildRoutingTable().
<1>RebuildKeepsInv. ASSUME NEW l, NEW p, NEW i, NEW d \in BOOLEAN, NEW pe, NEW ro,
                           SubscriptionInv(l, p, i), PeerInv(pe), NEW r, r = Rec(l, p, i, d, pe, ro)
                    PROVE  RegistryInv(Rebuilt(r))
  <2> USE <1>RebuildKeepsInv
  <2> DEFINE table == RoutesFrom(r)
  <2>1. Rebuilt(r) = PutRoutes(r, table)
    BY DEF Rebuilt, PutRoutes
  <2> HIDE DEF table
  <2>2. PutRoutes(Rec(l, p, i, d, pe, ro), table) = Rec(l, p, i, d, pe, table)
    BY SMT, PutFields
  <2>3. RegistryInv(Rec(l, p, i, d, pe, table))
    BY RecInv
  <2> QED BY <2>1, <2>2, <2>3
\* getLocalTopicHash() clearing hashDirty_.
<1>ClearDirtyKeepsInv. ASSUME NEW l, NEW p, NEW i, NEW d \in BOOLEAN, NEW pe, NEW ro,
                              SubscriptionInv(l, p, i), PeerInv(pe), NEW r, r = Rec(l, p, i, d, pe, ro)
                       PROVE  RegistryInv([r EXCEPT !.dirty = FALSE])
  <2> USE <1>ClearDirtyKeepsInv
  <2> DEFINE no == FALSE
  <2>1. [r EXCEPT !.dirty = FALSE] = PutDirty(r, no)
    BY DEF PutDirty
  <2>2. no \in BOOLEAN
    OBVIOUS
  <2> HIDE DEF no
  <2>3. PutDirty(Rec(l, p, i, d, pe, ro), no) = Rec(l, p, i, no, pe, ro)
    BY SMT, PutFields
  <2>4. RegistryInv(Rec(l, p, i, no, pe, ro))
    BY <2>2, RecInv
  <2> QED BY <2>1, <2>3, <2>4
<1> SUFFICES ASSUME RegistryInv(registry), [RegistryNext]_registry PROVE RegistryInv(registry')
  BY DEF Inv
<1> DEFINE l == registry.local
           p == registry.paused
           i == registry.index
           d == registry.dirty
           pe == registry.peers
           ro == registry.routes
<1>1. /\ registry = Rec(l, p, i, d, pe, ro) /\ d \in BOOLEAN
      /\ SubscriptionInv(l, p, i) /\ PeerInv(pe)
  BY DEF RegistryInv, Shape
<1>2. l = registry.local /\ p = registry.paused /\ pe = registry.peers
  OBVIOUS
<1> HIDE DEF l, p, i, d, pe, ro
<1>3. CASE SubscriptionStep
  <2>1. ASSUME NEW s \in Subs, NEW ts \in SUBSET Topics, s \notin DOMAIN registry.paused,
               registry' = AddLocalSubscription(registry, s, ts)
        PROVE  RegistryInv(registry')
    <3>1. RegistryInv(AddLocalSubscription(registry, s, ts))
      BY <1>1, <1>2, <2>1, <1>AddKeepsInv
    <3> QED BY <2>1, <3>1
  <2>2. ASSUME NEW s \in Subs, NEW pause \in BOOLEAN,
               registry' = RemoveLocalSubscription(registry, s, pause)
        PROVE  RegistryInv(registry')
    <3>1. RegistryInv(RemoveLocalSubscription(registry, s, pause))
      BY <1>1, <1>RemoveKeepsInv
    <3> QED BY <2>2, <3>1
  <2>3. ASSUME NEW s \in Subs, registry' = ResumeSubscription(registry, s)
        PROVE  RegistryInv(registry')
    <3>1. RegistryInv(ResumeSubscription(registry, s))
      BY <1>1, <1>ResumeKeepsInv
    <3> QED BY <2>3, <3>1
  <2>4. ASSUME registry' = ClearExpiredPausedSubscriptions(registry)
        PROVE  RegistryInv(registry')
    <3>1. RegistryInv(ClearExpiredPausedSubscriptions(registry))
      BY <1>1, <1>ClearExpiredKeepsInv
    <3> QED BY <2>4, <3>1
  <2>5. ASSUME NEW s \in Subs, NEW seq \in Sequences,
               registry' = UpdateSubscriptionSequence(registry, s, seq)
        PROVE  RegistryInv(registry')
    <3>1. RegistryInv(UpdateSubscriptionSequence(registry, s, seq))
      BY <1>1, <1>SequenceKeepsInv
    <3> QED BY <2>5, <3>1
  <2> QED BY <1>3, <2>1, <2>2, <2>3, <2>4, <2>5 DEF SubscriptionStep
<1>4. CASE PeerStep
  <2>1. ASSUME NEW q \in Peers, NEW e \in Endpoints, NEW h \in Hashes,
               registry' = UpsertPeer(registry, q, e, h)
        PROVE  RegistryInv(registry')
    <3>1. RegistryInv(UpsertPeer(registry, q, e, h))
      BY <1>1, <1>UpsertKeepsInv
    <3> QED BY <2>1, <3>1
  <2>2. ASSUME NEW q \in Peers, registry' = RemovePeer(registry, q)
        PROVE  RegistryInv(registry')
    BY <1>1, <2>2, <1>EraseKeepsInv DEF RemovePeer
  <2>3. ASSUME NEW q \in Peers, NEW ts \in SUBSET Topics, NEW h \in Hashes,
               registry' = UpdatePeerState(registry, q, ts, h)
        PROVE  RegistryInv(registry')
    <3>1. RegistryInv(UpdatePeerState(registry, q, ts, h))
      BY <1>1, <1>StateKeepsInv
    <3> QED BY <2>3, <3>1
  <2>4. ASSUME registry' = ReapDeadPeers(registry)
        PROVE  RegistryInv(registry')
    BY <1>1, <2>4, <1>EraseKeepsInv DEF ReapDeadPeers
  <2>5. ASSUME registry' = Rebuilt(registry)
        PROVE  RegistryInv(registry')
    <3>1. RegistryInv(Rebuilt(registry))
      BY <1>1, <1>RebuildKeepsInv
    <3> QED BY <2>5, <3>1
  <2> QED BY <1>4, <2>1, <2>2, <2>3, <2>4, <2>5 DEF PeerStep
<1>5. CASE ClearDirty
  BY <1>1, <1>5, <1>ClearDirtyKeepsInv DEF ClearDirty
<1>6. CASE TimeStep
  <2>1. ASSUME NEW s \in DOMAIN registry.paused,
               registry' = [registry EXCEPT !.paused = With(@, s, [@[s] EXCEPT !.expired = TRUE])]
        PROVE  RegistryInv(registry')
    <3>1. s \in DOMAIN p
      BY <1>2
    <3>2. RegistryInv([registry EXCEPT !.paused = With(@, s, [@[s] EXCEPT !.expired = TRUE])])
      BY <1>1, <3>1, <1>ExpiryKeepsInv
    <3> QED BY <2>1, <3>2
  <2>2. ASSUME NEW q \in DOMAIN registry.peers,
               registry' = [registry EXCEPT !.peers = With(@, q, [@[q] EXCEPT !.silent = TRUE])]
        PROVE  RegistryInv(registry')
    <3>1. q \in DOMAIN pe
      BY <1>2
    <3>2. RegistryInv([registry EXCEPT !.peers = With(@, q, [@[q] EXCEPT !.silent = TRUE])])
      BY <1>1, <3>1, <1>SilenceKeepsInv
    <3> QED BY <2>2, <3>2
  <2> QED BY <1>6, <2>1, <2>2 DEF TimeStep
<1>7. CASE UNCHANGED registry
  BY <1>7
<1> QED BY <1>3, <1>4, <1>5, <1>6, <1>7 DEF RegistryNext

\* The invariant holds of every reachable registry.
LEMMA RegistryAlwaysInv == RegistrySpec => []Inv
BY InitInv, NextInv, PTL DEF RegistrySpec

(* topicToSubscriptions_ is the inverse of localSubscriptions_ whatever    *)
(* methods are called, for any number of subscriptions and topics.         *)
THEOREM IndexAlwaysExact == RegistrySpec => []IndexExact
<1>1. Inv => IndexExact
  BY DEF Inv, RegistryInv, SubscriptionInv, Inverts, IndexExact
<1> QED BY <1>1, RegistryAlwaysInv, PTL

(* No subscription is active and paused at once, for any number of them,   *)
(* provided addLocalSubscription() is never given an id that is paused.    *)
THEOREM NeverActiveAndPaused == RegistrySpec => []ActiveXorPaused
<1>1. Inv => ActiveXorPaused
  BY DEF Inv, RegistryInv, SubscriptionInv, ActiveXorPaused
<1> QED BY <1>1, RegistryAlwaysInv, PTL

\* The members of the registry keep their types.
THEOREM RegistryAlwaysTyped == RegistrySpec => []RegistryTypeOK
<1>1. Inv => RegistryTypeOK
  BY DEF Inv, RegistryInv, SubscriptionInv, PeerInv, RegistryTypeOK
<1> QED BY <1>1, RegistryAlwaysInv, PTL

-----------------------------------------------------------------------------
(* What the methods of the registry do to its keys *)

\* The members of r stay, the keys of the two maps are these.
Keys(r, locals, pauses) == Shape(r) /\ DOMAIN r.local = locals /\ DOMAIN r.paused = pauses

\* The keys of the maps of a registry given by its members.
LEMMA RecKeys ==
  ASSUME NEW l, NEW p, NEW i, NEW d, NEW pe, NEW ro
  PROVE  Keys(Rec(l, p, i, d, pe, ro), DOMAIN l, DOMAIN p)
<1> DEFINE r == Rec(l, p, i, d, pe, ro)
<1>1. /\ r.local = l /\ r.paused = p /\ r.index = i
      /\ r.dirty = d /\ r.peers = pe /\ r.routes = ro
  BY SMT, RecFields
<1>2. r = Rec(l, p, i, d, pe, ro)
  OBVIOUS
<1> HIDE DEF r
<1>3. Keys(r, DOMAIN l, DOMAIN p)
  BY <1>1, <1>2 DEF Shape, Keys
<1> QED BY <1>3 DEF r

\* addLocalSubscription()
LEMMA AddKeys ==
  ASSUME NEW r, Shape(r), NEW s, NEW ts
  PROVE  Keys(AddLocalSubscription(r, s, ts), DOMAIN r.local \cup {s}, DOMAIN r.paused)
<1>1. CASE s \in DOMAIN r.local
  <2>1. AddLocalSubscription(r, s, ts) = r /\ DOMAIN r.local \cup {s} = DOMAIN r.local
    BY <1>1 DEF AddLocalSubscription
  <2> QED BY <2>1 DEF Keys
<1>2. CASE s \notin DOMAIN r.local
  <2> DEFINE sub == [topics |-> ts, last |-> 0]
             subs == With(r.local, s, sub)
             ix == Indexed(r.index, s, ts)
             old == Rec(r.local, r.paused, r.index, r.dirty, r.peers, r.routes)
  <2>1. AddLocalSubscription(r, s, ts) = Mark(PutIndex(PutLocal(r, subs), ix))
    BY <1>2 DEF AddLocalSubscription, Mark, PutDirty, PutIndex, PutLocal
  <2>2. DOMAIN subs = DOMAIN r.local \cup {s}
    BY DEF With
  <2> HIDE DEF subs, ix, sub
  <2>3. Mark(PutIndex(PutLocal(old, subs), ix)) = Marked(subs, r.paused, ix, r.peers, r.routes)
    BY SMT, AddAssigns
  <2>4. r = old
    BY DEF Shape
  <2> HIDE DEF old
  <2>5. AddLocalSubscription(r, s, ts) = Marked(subs, r.paused, ix, r.peers, r.routes)
    BY <2>1, <2>3, <2>4
  <2>6. Keys(Marked(subs, r.paused, ix, r.peers, r.routes), DOMAIN subs, DOMAIN r.paused)
    BY RecKeys DEF Marked
  <2> QED BY <2>2, <2>5, <2>6
<1> QED BY <1>1, <1>2

\* removeLocalSubscription()
LEMMA RemoveKeys ==
  ASSUME NEW r, Shape(r), NEW s, NEW pause
  PROVE  \E ps : /\ Keys(RemoveLocalSubscription(r, s, pause), DOMAIN r.local \ {s}, ps)
                 /\ ps \subseteq DOMAIN r.paused \cup {s}
<1>1. CASE s \notin DOMAIN r.local
  <2>1. RemoveLocalSubscription(r, s, pause) = r /\ DOMAIN r.local \ {s} = DOMAIN r.local
    BY <1>1 DEF RemoveLocalSubscription
  <2> QED BY <2>1 DEF Keys
<1>2. CASE s \in DOMAIN r.local
  <2> DEFINE saved == Pausing(r.local[s])
             pauses == IF pause THEN With(r.paused, s, saved) ELSE r.paused
             subs == Without(r.local, {s})
             ix == Unindexed(r.index, s, r.local[s].topics)
             old == Rec(r.local, r.paused, r.index, r.dirty, r.peers, r.routes)
  <2>1. RemoveLocalSubscription(r, s, pause)
          = Mark(PutLocal(PutIndex(PutPaused(r, pauses), ix), subs))
    BY <1>2 DEF RemoveLocalSubscription, Mark, PutDirty, PutIndex, PutLocal, PutPaused
  <2>2. DOMAIN subs = DOMAIN r.local \ {s} /\ DOMAIN pauses \subseteq DOMAIN r.paused \cup {s}
    BY DEF With, Without
  <2> HIDE DEF subs, ix, pauses, saved
  <2>3. Mark(PutLocal(PutIndex(PutPaused(old, pauses), ix), subs))
          = Marked(subs, pauses, ix, r.peers, r.routes)
    BY SMT, RemoveAssigns
  <2>4. r = old
    BY DEF Shape
  <2> HIDE DEF old
  <2>5. RemoveLocalSubscription(r, s, pause) = Marked(subs, pauses, ix, r.peers, r.routes)
    BY <2>1, <2>3, <2>4
  <2>6. Keys(Marked(subs, pauses, ix, r.peers, r.routes), DOMAIN subs, DOMAIN pauses)
    BY RecKeys DEF Marked
  <2> QED BY <2>2, <2>5, <2>6
<1> QED BY <1>1, <1>2

\* An assignment to pausedSubscriptions_ only.
LEMMA PutPausedKeys ==
  ASSUME NEW r, Shape(r), NEW v
  PROVE  Keys(PutPaused(r, v), DOMAIN r.local, DOMAIN v)
<1> DEFINE old == Rec(r.local, r.paused, r.index, r.dirty, r.peers, r.routes)
<1>1. PutPaused(old, v) = Rec(r.local, v, r.index, r.dirty, r.peers, r.routes)
  BY SMT, PutFields
<1>2. r = old
  BY DEF Shape
<1>3. Keys(Rec(r.local, v, r.index, r.dirty, r.peers, r.routes), DOMAIN r.local, DOMAIN v)
  BY RecKeys
<1> HIDE DEF old
<1> QED BY <1>1, <1>2, <1>3

\* resumeSubscription()
LEMMA ResumeKeys ==
  ASSUME NEW r, Shape(r), NEW s
  PROVE  Keys(ResumeSubscription(r, s),
              IF Resumable(r, s) THEN DOMAIN r.local \cup {s} ELSE DOMAIN r.local,
              DOMAIN r.paused \ {s})
<1> DEFINE pauses == Without(r.paused, {s})
<1>1. DOMAIN pauses = DOMAIN r.paused \ {s}
  BY DEF Without
<1>2. CASE ~Resumable(r, s)
  <2>1. ResumeSubscription(r, s) = PutPaused(r, pauses)
    BY <1>2 DEF ResumeSubscription, PutPaused
  <2> HIDE DEF pauses
  <2>2. Keys(PutPaused(r, pauses), DOMAIN r.local, DOMAIN pauses)
    BY PutPausedKeys
  <2> QED BY <1>1, <1>2, <2>1, <2>2
<1>3. CASE Resumable(r, s)
  <2> DEFINE sub == [topics |-> r.paused[s].topics, last |-> r.paused[s].last]
             subs == With(r.local, s, sub)
             ix == Indexed(r.index, s, r.paused[s].topics)
             old == Rec(r.local, r.paused, r.index, r.dirty, r.peers, r.routes)
  <2>1. ResumeSubscription(r, s) = Mark(PutPaused(PutIndex(PutLocal(r, subs), ix), pauses))
    BY <1>3 DEF ResumeSubscription, Mark, PutDirty, PutIndex, PutLocal, PutPaused
  <2>2. DOMAIN subs = DOMAIN r.local \cup {s}
    BY DEF With
  <2> HIDE DEF subs, ix, sub, pauses
  <2>3. Mark(PutPaused(PutIndex(PutLocal(old, subs), ix), pauses))
          = Marked(subs, pauses, ix, r.peers, r.routes)
    BY SMT, ResumeAssigns
  <2>4. r = old
    BY DEF Shape
  <2> HIDE DEF old
  <2>5. ResumeSubscription(r, s) = Marked(subs, pauses, ix, r.peers, r.routes)
    BY <2>1, <2>3, <2>4
  <2>6. Keys(Marked(subs, pauses, ix, r.peers, r.routes), DOMAIN subs, DOMAIN pauses)
    BY RecKeys DEF Marked
  <2> QED BY <1>1, <1>3, <2>2, <2>5, <2>6
<1> QED BY <1>2, <1>3

\* updateSubscriptionSequence()
LEMMA SequenceKeys ==
  ASSUME NEW r, Shape(r), NEW s, NEW seq
  PROVE  Keys(UpdateSubscriptionSequence(r, s, seq), DOMAIN r.local, DOMAIN r.paused)
<1>1. CASE s \notin DOMAIN r.local
  BY <1>1 DEF UpdateSubscriptionSequence, Keys
<1>2. CASE s \in DOMAIN r.local
  <2> DEFINE subs == With(r.local, s, [r.local[s] EXCEPT !.last = seq])
             old == Rec(r.local, r.paused, r.index, r.dirty, r.peers, r.routes)
  <2>1. UpdateSubscriptionSequence(r, s, seq) = PutLocal(r, subs)
    BY <1>2 DEF UpdateSubscriptionSequence, PutLocal
  <2>2. DOMAIN subs = DOMAIN r.local
    BY <1>2 DEF With
  <2> HIDE DEF subs
  <2>3. PutLocal(old, subs) = Rec(subs, r.paused, r.index, r.dirty, r.peers, r.routes)
    BY SMT, PutFields
  <2>4. r = old
    BY DEF Shape
  <2>5. Keys(Rec(subs, r.paused, r.index, r.dirty, r.peers, r.routes), DOMAIN subs, DOMAIN r.paused)
    BY RecKeys
  <2> HIDE DEF old
  <2> QED BY <2>1, <2>2, <2>3, <2>4, <2>5
<1> QED BY <1>1, <1>2

\* The end of a pause.
LEMMA ExpiryKeys ==
  ASSUME NEW r, Shape(r), NEW s \in DOMAIN r.paused
  PROVE  Keys([r EXCEPT !.paused = With(@, s, [@[s] EXCEPT !.expired = TRUE])],
              DOMAIN r.local, DOMAIN r.paused)
<1> DEFINE pauses == With(r.paused, s, [r.paused[s] EXCEPT !.expired = TRUE])
<1>1. [r EXCEPT !.paused = With(@, s, [@[s] EXCEPT !.expired = TRUE])] = PutPaused(r, pauses)
  BY DEF PutPaused
<1>2. DOMAIN pauses = DOMAIN r.paused
  BY DEF With
<1> HIDE DEF pauses
<1>3. Keys(PutPaused(r, pauses), DOMAIN r.local, DOMAIN pauses)
  BY PutPausedKeys
<1> QED BY <1>1, <1>2, <1>3

\* The registry starts with no keys.
LEMMA NewKeys == Keys(NewRegistry, {}, {})
<1>1. NewRegistry = Rec(Empty, Empty, Empty, TRUE, Empty, Empty)
  BY DEF NewRegistry, Rec
<1>2. DOMAIN Empty = {}
  BY DEF Empty
<1>3. Keys(Rec(Empty, Empty, Empty, TRUE, Empty, Empty), DOMAIN Empty, DOMAIN Empty)
  BY RecKeys
<1> QED BY <1>1, <1>2, <1>3

-----------------------------------------------------------------------------
(* Retained messages *)

\* The queue of a first subscription is all it has to write.
QueueFits(st) == st.kind = "subscribe" => st.replay = <<>> /\ IsSeq(st.queue)

QueuesOK ==
  /\ DOMAIN received = Subs
  /\ \A i \in DOMAIN streams : QueueFits(streams[i])

\* A publisher at k that will still enqueue its message on stream i, or hangs.
DueAt(k, i, t, id) ==
  /\ k.at # "idle" /\ k.id = id
  /\ \/ k.at \in {"buffer", "choose"} /\ k.topic = t
     \/ k.at \in {"deliver", "sequence"} /\ i \in k.todo
     \/ k.at = "hung"

\* Stream i is one the retained messages of topic t are for.
Sees(i, t) ==
  /\ streams[i].kind = "subscribe" /\ streams[i].open /\ streams[i].active
  /\ t \in streams[i].topics /\ streams[i].sub \notin overlapped

Served(i, t, id) ==
  Holds(i, id) \/ Got(streams[i].sub, id) \/ \E p \in Publishers : DueAt(publisher[p], i, t, id)

RetainedOK ==
  /\ DOMAIN retained \subseteq Topics
  /\ \A i \in DOMAIN streams, t \in DOMAIN retained : Sees(i, t) => Served(i, t, retained[t].id)

DeliveryInv == QueuesOK /\ RetainedOK

\* Steps of neither publishers nor deliveries.
LEMMA RetainedFrame ==
  ASSUME RetainedOK, UNCHANGED <<retained, received, publisher>>,
         \A i \in DOMAIN streams', t \in DOMAIN retained :
           Sees(i, t)' => /\ i \in DOMAIN streams /\ Sees(i, t)
                          /\ streams'[i].queue = streams[i].queue /\ streams'[i].sub = streams[i].sub
  PROVE  RetainedOK'
<1> SUFFICES ASSUME NEW i \in DOMAIN streams', NEW t \in DOMAIN retained', Sees(i, t)'
             PROVE  Served(i, t, retained[t].id)'
  BY DEF RetainedOK
<1>1. /\ i \in DOMAIN streams /\ Sees(i, t) /\ streams'[i].queue = streams[i].queue
      /\ streams'[i].sub = streams[i].sub
  OBVIOUS
<1>2. Served(i, t, retained[t].id)
  BY <1>1 DEF RetainedOK
<1> QED BY <1>1, <1>2 DEF Served, Holds, Got

\* What is fixed of a stream, and what is undone only once.
LEMMA SeesBefore ==
  ASSUME StreamsOK, NEW j, NEW fs, Updated(j, fs), "sub" \notin fs, "kind" \notin fs, "topics" \notin fs,
         streams'[j].active => streams[j].active,
         streams'[j].kind = "subscribe" /\ streams'[j].open => streams[j].open,
         overlapped \subseteq overlapped',
         NEW i \in DOMAIN streams', NEW t, Sees(i, t)'
  PROVE  i \in DOMAIN streams /\ Sees(i, t) /\ streams'[i].sub = streams[i].sub
<1>1. CASE i = j
  <2>1. {"sub", "kind", "topics"} \subseteq DOMAIN streams[j] \ fs
    BY DEF Updated, StreamsOK, Fields
  <2>2. /\ streams'[j].sub = streams[j].sub /\ streams'[j].kind = streams[j].kind
        /\ streams'[j].topics = streams[j].topics
    BY <2>1 DEF Updated
  <2> QED BY <1>1, <2>2 DEF Sees, Updated
<1>2. CASE i # j
  <2>1. i \in DOMAIN streams /\ streams'[i] = streams[i]
    BY <1>2 DEF Updated
  <2> QED BY <2>1 DEF Sees
<1> QED BY <1>1, <1>2

\* A member that is not assigned stays.
LEMMA FieldKept ==
  ASSUME NEW j, NEW fs, Updated(j, fs), NEW i \in DOMAIN streams, NEW g \in DOMAIN streams[i], g \notin fs
  PROVE  streams'[i][g] = streams[i][g]
BY DEF Updated

\* A stream changes in no queue.
LEMMA DeliveryKept ==
  ASSUME StreamsOK, DeliveryInv, UNCHANGED <<retained, received, publisher>>,
         NEW j, NEW fs, Updated(j, fs), {"sub", "kind", "topics", "queue"} \cap fs = {},
         streams'[j].active => streams[j].active,
         streams'[j].kind = "subscribe" /\ streams'[j].open => streams[j].open,
         "replay" \in fs => streams[j].kind # "subscribe",
         overlapped \subseteq overlapped'
  PROVE  DeliveryInv'
<1>1. \A i \in DOMAIN streams : {"sub", "kind", "topics", "queue", "replay"} \subseteq DOMAIN streams[i]
  BY DEF StreamsOK, Fields
<1>2. \A i \in DOMAIN streams : /\ streams'[i].queue = streams[i].queue
                                 /\ streams'[i].kind = streams[i].kind
  BY SMT, <1>1, FieldKept
<1>3. \A i \in DOMAIN streams : streams[i].kind = "subscribe" => streams'[i].replay = streams[i].replay
  <2> SUFFICES ASSUME NEW i \in DOMAIN streams, streams[i].kind = "subscribe"
               PROVE  streams'[i].replay = streams[i].replay
    OBVIOUS
  <2>1. CASE i = j
    BY SMT, <1>1, <2>1, FieldKept
  <2>2. CASE i # j
    BY <2>2 DEF Updated
  <2> QED BY <2>1, <2>2
<1>4. DOMAIN streams' = DOMAIN streams
  BY DEF Updated
<1>5. QueuesOK'
  BY <1>2, <1>3, <1>4 DEF DeliveryInv, QueuesOK, QueueFits
<1>6. \A i \in DOMAIN streams', t \in DOMAIN retained :
        Sees(i, t)' => /\ i \in DOMAIN streams /\ Sees(i, t)
                       /\ streams'[i].queue = streams[i].queue /\ streams'[i].sub = streams[i].sub
  BY <1>2, SeesBefore
<1>7. RetainedOK'
  BY <1>6, RetainedFrame DEF DeliveryInv
<1> QED BY <1>5, <1>7 DEF DeliveryInv

\* A step that changes no stream.
LEMMA DeliveryQuiet ==
  ASSUME DeliveryInv, UNCHANGED <<retained, received, publisher, streams>>, overlapped \subseteq overlapped'
  PROVE  DeliveryInv'
<1>1. QueuesOK'
  BY DEF DeliveryInv, QueuesOK, QueueFits
<1>2. \A i \in DOMAIN streams', t \in DOMAIN retained :
        Sees(i, t)' => /\ i \in DOMAIN streams /\ Sees(i, t)
                       /\ streams'[i].queue = streams[i].queue /\ streams'[i].sub = streams[i].sub
  BY DEF Sees
<1>3. RetainedOK'
  BY <1>2, RetainedFrame DEF DeliveryInv
<1> QED BY <1>1, <1>3 DEF DeliveryInv

\* A stream changes in what it has to write, and nothing due to a stream is lost.
LEMMA WritingDelivery ==
  ASSUME StreamsOK, DeliveryInv, UNCHANGED <<retained, overlapped>>, DOMAIN received' = Subs,
         NEW j, NEW f \in {"queue", "replay"}, Updated(j, {f}), QueueFits(streams'[j]),
         \A i \in DOMAIN streams, t \in DOMAIN retained : \A id :
           Sees(i, t) /\ Served(i, t, id) => Served(i, t, id)'
  PROVE  DeliveryInv'
<1>1. DOMAIN streams' = DOMAIN streams /\ j \in DOMAIN streams
  BY DEF Updated
<1>2. QueuesOK'
  <2>1. ASSUME NEW i \in DOMAIN streams PROVE QueueFits(streams'[i])
    <3>1. i # j => streams'[i] = streams[i]
      BY DEF Updated
    <3> QED BY <3>1 DEF DeliveryInv, QueuesOK
  <2> QED BY <1>1, <2>1 DEF QueuesOK, QueueFits
<1>3. {"active", "open"} \subseteq DOMAIN streams[j] /\ "active" \notin {f} /\ "open" \notin {f}
  BY <1>1 DEF StreamsOK, Fields
<1>4. streams'[j].active = streams[j].active /\ streams'[j].open = streams[j].open
  BY <1>1, <1>3, FieldKept
<1>5. "sub" \notin {f} /\ "kind" \notin {f} /\ "topics" \notin {f} /\ overlapped \subseteq overlapped'
  OBVIOUS
<1>6. RetainedOK'
  <2> SUFFICES ASSUME NEW i \in DOMAIN streams', NEW t \in DOMAIN retained', Sees(i, t)'
               PROVE  Served(i, t, retained[t].id)'
    BY DEF RetainedOK, DeliveryInv
  <2>1. i \in DOMAIN streams /\ Sees(i, t)
    BY <1>4, <1>5, SeesBefore
  <2>2. PICK id : id = retained[t].id /\ id = retained'[t].id
    OBVIOUS
  <2>3. Served(i, t, id)
    BY <2>1, <2>2 DEF DeliveryInv, RetainedOK
  <2>4. Served(i, t, id)'
    BY <2>1, <2>3
  <2> QED BY <2>2, <2>4 DEF Served, Holds, Got, DueAt
<1> QED BY <1>2, <1>6 DEF DeliveryInv

\* Delivery skips no stream that a retained message is for.
LEMMA PublisherStepDelivery ==
  \A p \in Publishers : BaseInv /\ PublishersOK /\ DeliveryInv /\ PublisherStep(p) => DeliveryInv'
\* Steps of publishers that touch no stream.
<1>RetainedTurn. ASSUME RetainedOK, UNCHANGED <<retained, received, streams, overlapped>>,
                        NEW p \in Publishers, NEW k, Turns(p, k),
                        \A i \in DOMAIN streams, t \in DOMAIN retained : \A id :
                          Sees(i, t) /\ DueAt(publisher[p], i, t, id) => DueAt(k, i, t, id)
                 PROVE  RetainedOK'
  <2> USE <1>RetainedTurn
  <2> SUFFICES ASSUME NEW i \in DOMAIN streams, NEW t \in DOMAIN retained, Sees(i, t)
               PROVE  Served(i, t, retained[t].id)'
    BY DEF RetainedOK, Sees
  <2>0. PICK id : id = retained[t].id /\ id = retained'[t].id
    OBVIOUS
  <2>1. Served(i, t, id)
    BY <2>0 DEF RetainedOK
  <2> SUFFICES Served(i, t, id)'
    BY <2>0 DEF Served, Holds, Got, DueAt
  <2>2. CASE Holds(i, id) \/ Got(streams[i].sub, id)
    BY <2>2 DEF Served, Holds, Got
  <2>3. ASSUME NEW q \in Publishers, DueAt(publisher[q], i, t, id)
        PROVE  DueAt(publisher'[q], i, t, id)
    BY <2>3 DEF Turns
  <2> QED BY <2>1, <2>2, <2>3 DEF Served
\* A stream of the loop that was not met yet is still to be met.
<1>DeliveringDue. ASSUME NEW op, NEW todo, NEW i \in todo, NEW t
                  PROVE  DueAt(Delivering(op, todo), i, t, op.id)
  <2> USE <1>DeliveringDue
  <2>1. Delivering(op, todo) =
          [at |-> "deliver", topic |-> op.topic, id |-> op.id, seq |-> op.seq, todo |-> todo]
    BY DEF Delivering
  <2> QED BY SMT, <2>1 DEF DueAt
\* A publisher moves on and forgets no stream that the message is for.
<1>TurnDelivery. ASSUME PublishersOK, DeliveryInv, UNCHANGED <<retained, received, streams, overlapped>>,
                        NEW p \in Publishers, NEW k, publisher' = [publisher EXCEPT ![p] = k],
                        \A i \in DOMAIN streams, t \in DOMAIN retained : \A id :
                          Sees(i, t) /\ DueAt(publisher[p], i, t, id) => DueAt(k, i, t, id)
                 PROVE  DeliveryInv'
  <2> USE <1>TurnDelivery
  <2>1. Turns(p, k)
    BY AssignTurns
  <2>2. RetainedOK'
    BY <2>1, <1>RetainedTurn DEF DeliveryInv
  <2>3. QueuesOK'
    BY DEF DeliveryInv, QueuesOK, QueueFits
  <2> QED BY <2>2, <2>3 DEF DeliveryInv
\* PublishReactor stores a retained message: it is due to every stream.
<1>PublishDelivery. ASSUME PublishersOK, DeliveryInv, NEW p \in Publishers, Publish(p)
                    PROVE  DeliveryInv'
  <2> USE <1>PublishDelivery
  <2>1. UNCHANGED <<received, streams, overlapped>>
    BY DEF Publish, historyVars, clientVars
  <2>2. PICK topic \in Topics :
          /\ publisher' = [publisher EXCEPT ![p] = [at |-> "buffer", topic |-> topic, id |-> Published + 1]]
          /\ retained' = IF topic \in Retaining
                         THEN With(retained, topic, [id |-> Published + 1, seq |-> 0]) ELSE retained
    BY DEF Publish
  <2>3. PICK new : new = Published + 1
    OBVIOUS
  <2> DEFINE k == [at |-> "buffer", topic |-> topic, id |-> new]
  <2>4. Turns(p, k)
    BY <2>2, <2>3, AssignTurns
  <2>5. k.at = "buffer" /\ k.topic = topic /\ k.id = new
    OBVIOUS
  <2> HIDE DEF k
  <2>6. publisher[p].at = "idle"
    <3>1. publisher[p] = Idle
      BY DEF Publish
    <3> QED BY SMT, <3>1 DEF Idle
  <2>7. /\ DOMAIN retained' \subseteq DOMAIN retained \cup {topic}
        /\ \A t \in DOMAIN retained' : \/ t = topic /\ retained'[t].id = new
                                       \/ t \in DOMAIN retained /\ retained'[t] = retained[t]
    <3>1. CASE topic \in Retaining
      <4>1. retained' = With(retained, topic, [id |-> new, seq |-> 0])
        BY <2>2, <2>3, <3>1
      <4> QED BY <4>1 DEF With
    <3>2. CASE topic \notin Retaining
      <4>1. retained' = retained
        BY <2>2, <3>2
      <4> QED BY <4>1
    <3> QED BY <3>1, <3>2
  <2>8. DOMAIN retained' \subseteq Topics
    BY <2>7 DEF DeliveryInv, RetainedOK
  <2>9. RetainedOK'
    <3> SUFFICES ASSUME NEW i \in DOMAIN streams, NEW t \in DOMAIN retained', Sees(i, t)
                 PROVE  Served(i, t, retained[t].id)'
      BY <2>1, <2>8 DEF RetainedOK, Sees
    <3>1. PICK id : id = retained'[t].id
      OBVIOUS
    <3> SUFFICES Served(i, t, id)'
      BY <3>1 DEF Served, Holds, Got, DueAt
    <3>2. CASE t = topic /\ id = new
      <4>1. DueAt(publisher'[p], i, t, id)
        BY <2>4, <2>5, <3>2 DEF Turns, DueAt
      <4> QED BY <4>1 DEF Served
    <3>3. CASE t \in DOMAIN retained /\ retained'[t] = retained[t]
      <4>1. Served(i, t, id)
        BY <3>1, <3>3 DEF DeliveryInv, RetainedOK
      <4>2. CASE Holds(i, id) \/ Got(streams[i].sub, id)
        BY <2>1, <4>2 DEF Served, Holds, Got
      <4>3. ASSUME NEW q \in Publishers, DueAt(publisher[q], i, t, id)
            PROVE  DueAt(publisher'[q], i, t, id)
        <5>1. q # p
          BY <2>6, <4>3 DEF DueAt
        <5> QED BY <2>4, <4>3, <5>1 DEF Turns
      <4> QED BY <4>1, <4>2, <4>3 DEF Served
    <3> QED BY <2>7, <3>1, <3>2, <3>3
  <2>10. QueuesOK'
    BY <2>1 DEF DeliveryInv, QueuesOK, QueueFits
  <2> QED BY <2>9, <2>10 DEF DeliveryInv
\* enqueueMessage(): what was due to the stream is in its queue.
<1>EnqueueDelivery. ASSUME BaseInv, PublishersOK, DeliveryInv, NEW p \in Publishers, EnqueueOnStream(p)
                    PROVE  DeliveryInv'
  <2> USE <1>EnqueueDelivery
  <2> DEFINE op == publisher[p]
  <2>1. UNCHANGED <<retained, received, overlapped>>
    BY DEF EnqueueOnStream, clientVars
  <2>2. PICK j \in op.todo :
          /\ streams[j].kind = "subscribe"
          /\ streams' = [streams EXCEPT ![j].queue = Append(@, [id |-> op.id, seq |-> op.seq])]
          /\ publisher' = [publisher EXCEPT ![p] =
               [at |-> "sequence", topic |-> op.topic, id |-> op.id, seq |-> op.seq,
                todo |-> op.todo \ {j}, sub |-> streams[j].sub]]
    BY DEF EnqueueOnStream
  <2> DEFINE k == [at |-> "sequence", topic |-> op.topic, id |-> op.id, seq |-> op.seq,
                   todo |-> op.todo \ {j}, sub |-> streams[j].sub]
             e == [id |-> op.id, seq |-> op.seq]
             v == Append(streams[j].queue, e)
  <2>3. op.at = "deliver" /\ j \in DOMAIN streams
    BY <2>2 DEF EnqueueOnStream, PublishersOK, PublisherFits
  <2>4. Turns(p, k)
    BY <2>2, AssignTurns
  <2>5. k.at = "sequence" /\ k.id = op.id /\ k.todo = op.todo \ {j} /\ e.id = op.id
    OBVIOUS
  <2>6. streams' = [streams EXCEPT ![j].queue = v]
    BY <2>2
  <2> HIDE DEF k, v, e
  <2>7. Updated(j, {"queue"}) /\ streams'[j].queue = v
    BY <2>3, <2>6, QueueUpdate DEF BaseInv
  <2>8. IsSeq(streams[j].queue) /\ streams[j].replay = <<>>
    BY <2>2, <2>3 DEF DeliveryInv, QueuesOK, QueueFits
  <2>9. /\ IsSeq(v) /\ DOMAIN v = DOMAIN streams[j].queue \cup {Len(streams[j].queue) + 1}
        /\ \A m \in DOMAIN streams[j].queue : v[m] = streams[j].queue[m]
        /\ v[Len(streams[j].queue) + 1] = e
    BY <2>8, AppendSeq DEF v
  <2>10. "replay" \in DOMAIN streams[j] /\ "sub" \in DOMAIN streams[j]
    BY <2>3 DEF BaseInv, StreamsOK, Fields
  <2>11. streams'[j].replay = streams[j].replay /\ \A i \in DOMAIN streams : streams'[i].sub = streams[i].sub
    BY <2>3, <2>7, <2>10, FieldKept DEF Updated
  <2>12. QueueFits(streams'[j])
    BY <2>7, <2>8, <2>9, <2>11 DEF QueueFits
  <2>13. \A id : Holds(j, id) => Holds(j, id)'
    BY <2>7, <2>9 DEF Holds
  <2>14. ASSUME NEW i \in DOMAIN streams, NEW t \in DOMAIN retained, NEW id, Served(i, t, id)
         PROVE  Served(i, t, id)'
    <3>1. CASE Holds(i, id)
      <4>1. i # j => streams'[i] = streams[i]
        BY <2>7 DEF Updated
      <4>2. Holds(i, id)'
        BY <2>13, <3>1, <4>1 DEF Holds
      <4> QED BY <4>2 DEF Served
    <3>2. CASE Got(streams[i].sub, id)
      <4>1. id \in received'[streams'[i].sub]
        BY <2>1, <2>11, <3>2 DEF Got
      <4> QED BY <4>1 DEF Served, Got
    <3>3. ASSUME NEW q \in Publishers, DueAt(publisher[q], i, t, id)
          PROVE  Served(i, t, id)'
      <4>1. CASE q # p
        <5>1. DueAt(publisher'[q], i, t, id)
          BY <2>4, <3>3, <4>1 DEF Turns
        <5> QED BY <5>1 DEF Served
      <4>2. CASE q = p
        <5>1. id = op.id /\ i \in op.todo
          BY <2>3, <3>3, <4>2 DEF DueAt
        <5>2. CASE i = j
          <6>1. \E m \in DOMAIN streams'[i].queue : streams'[i].queue[m].id = id
            BY <2>5, <2>7, <2>9, <5>1, <5>2
          <6> QED BY <6>1 DEF Served, Holds
        <5>3. CASE i # j
          <6>1. DueAt(publisher'[p], i, t, id)
            BY <2>4, <2>5, <5>1, <5>3 DEF Turns, DueAt
          <6> QED BY <6>1 DEF Served
        <5> QED BY <5>2, <5>3
      <4> QED BY <4>1, <4>2
    <3> QED BY <2>14, <3>1, <3>2, <3>3 DEF Served
  <2>15. DOMAIN received' = Subs
    BY <2>1 DEF DeliveryInv, QueuesOK
  <2>16. StreamsOK /\ UNCHANGED <<retained, overlapped>>
    BY <2>1 DEF BaseInv
  <2> QED BY <2>7, <2>12, <2>14, <2>15, <2>16, WritingDelivery
<1> SUFFICES ASSUME NEW p \in Publishers, BaseInv, PublishersOK, DeliveryInv, PublisherStep(p)
             PROVE  DeliveryInv'
  OBVIOUS
<1> DEFINE op == publisher[p]
<1>0. PublisherFits(op, DOMAIN streams) /\ DOMAIN publisher = Publishers
  BY DEF PublishersOK
<1>1. CASE Publish(p)
  BY <1>1, <1>PublishDelivery
<1>2. CASE BufferMessage(p)
  <2>1. UNCHANGED <<retained, received, streams, overlapped>>
    BY <1>2 DEF BufferMessage, historyVars, sessionVars, clientVars
  <2>2. PICK n : publisher' = [publisher EXCEPT ![p] = [at |-> "choose", topic |-> op.topic, id |-> op.id, seq |-> n]]
    BY <1>0, <1>2 DEF BufferMessage
  <2> DEFINE k == [at |-> "choose", topic |-> op.topic, id |-> op.id, seq |-> n]
  <2>3. op.at = "buffer"
    BY <1>2 DEF BufferMessage
  <2>4. \A i, t, id : DueAt(op, i, t, id) => DueAt(k, i, t, id)
    BY <2>3 DEF DueAt
  <2> QED BY <2>1, <2>2, <2>4, <1>TurnDelivery
<1>3. CASE ChooseStreams(p)
  <2>1. UNCHANGED <<retained, received, streams, overlapped>>
    BY <1>3 DEF ChooseStreams, historyVars, sessionVars, clientVars
  <2> DEFINE k == Delivering(op, Matching(op.topic))
  <2>2. publisher' = [publisher EXCEPT ![p] = k] /\ op.at = "choose"
    BY <1>0, <1>3 DEF ChooseStreams
  <2>3. ASSUME NEW i \in DOMAIN streams, NEW t \in DOMAIN retained, NEW id, Sees(i, t), DueAt(op, i, t, id)
        PROVE  DueAt(k, i, t, id)
    <3>1. op.topic = t /\ op.id = id
      BY <2>2, <2>3 DEF DueAt
    <3>2. streams[i].sub \in DOMAIN listed /\ listed[streams[i].sub] = i
      BY <2>3 DEF BaseInv, SessionInv, ListedOK, Sees
    <3>3. i \in Matching(t)
      BY <2>3, <3>2 DEF Matching, Sees
    <3> HIDE DEF k
    <3> QED BY <3>1, <3>3, <1>DeliveringDue DEF k
  <2> HIDE DEF k
  <2> QED BY <2>1, <2>2, <2>3, <1>TurnDelivery
<1>4. CASE SkipStream(p)
  <2>1. UNCHANGED <<retained, received, streams, overlapped>>
    BY <1>4 DEF SkipStream, historyVars, sessionVars, clientVars
  <2>2. PICK j \in op.todo :
          /\ ~streams[j].reactor \/ (streams[j].kind = "subscribe" /\ ~streams[j].active)
          /\ publisher' = [publisher EXCEPT ![p] = Delivering(op, op.todo \ {j})]
    BY <1>0, <1>4 DEF SkipStream
  <2>3. op.at = "deliver"
    BY <1>4 DEF SkipStream
  <2> DEFINE k == Delivering(op, op.todo \ {j})
  <2>4. ASSUME NEW i \in DOMAIN streams, NEW t \in DOMAIN retained, NEW id, Sees(i, t), DueAt(op, i, t, id)
        PROVE  DueAt(k, i, t, id)
    <3>1. i \in op.todo /\ op.id = id
      BY <2>3, <2>4 DEF DueAt
    <3>2. streams[i].reactor /\ streams[i].active
      BY <2>4 DEF BaseInv, StreamsOK, Sees
    <3>3. i \in op.todo \ {j}
      BY <2>2, <3>1, <3>2
    <3> HIDE DEF k
    <3> QED BY <3>1, <3>3, <1>DeliveringDue DEF k
  <2> HIDE DEF k
  <2> QED BY <2>1, <2>2, <2>4, <1>TurnDelivery DEF k
<1>5. CASE EnqueueOnStream(p)
  BY <1>5, <1>EnqueueDelivery
<1>6. CASE EnqueueMiscast(p)
  <2>1. UNCHANGED <<retained, received, streams, overlapped>>
    BY <1>6 DEF EnqueueMiscast, historyVars, sessionVars, clientVars
  <2>2. PICK j \in op.todo :
          /\ streams[j].kind = "resume"
          /\ \/ publisher' = [publisher EXCEPT ![p] = [at |-> "hung", id |-> op.id]]
             \/ publisher' = [publisher EXCEPT ![p] = Delivering(op, op.todo \ {j})]
    BY <1>0, <1>6 DEF EnqueueMiscast
  <2>3. op.at = "deliver"
    BY <1>6 DEF EnqueueMiscast
  <2> DEFINE k == Delivering(op, op.todo \ {j})
             h == [at |-> "hung", id |-> op.id]
  <2>4. ASSUME NEW i \in DOMAIN streams, NEW t \in DOMAIN retained, NEW id, Sees(i, t), DueAt(op, i, t, id)
        PROVE  DueAt(k, i, t, id) /\ DueAt(h, i, t, id)
    <3>1. i \in op.todo /\ op.id = id
      BY <2>3, <2>4 DEF DueAt
    <3>2. streams[i].kind = "subscribe"
      BY <2>4 DEF Sees
    <3>3. i \in op.todo \ {j}
      BY <2>2, <3>1, <3>2
    <3>4. DueAt(h, i, t, id)
      BY <3>1 DEF DueAt
    <3> HIDE DEF k, h
    <3> QED BY <3>1, <3>3, <3>4, <1>DeliveringDue DEF k
  <2> HIDE DEF k, h
  <2> QED BY <2>1, <2>2, <2>4, <1>TurnDelivery DEF k, h
<1>7. CASE RecordSequence(p)
  <2>1. UNCHANGED <<retained, received, streams, overlapped>>
    BY <1>7 DEF RecordSequence, historyVars, clientVars
  <2> DEFINE k == Delivering(op, op.todo)
  <2>2. publisher' = [publisher EXCEPT ![p] = k] /\ op.at = "sequence"
    BY <1>0, <1>7 DEF RecordSequence
  <2>3. ASSUME NEW i, NEW t, NEW id, DueAt(op, i, t, id)
        PROVE  DueAt(k, i, t, id)
    <3>1. i \in op.todo /\ op.id = id
      BY <2>2, <2>3 DEF DueAt
    <3> HIDE DEF k
    <3> QED BY <3>1, <1>DeliveringDue DEF k
  <2> HIDE DEF k
  <2> QED BY <2>1, <2>2, <2>3, <1>TurnDelivery
<1> QED BY <1>1, <1>2, <1>3, <1>4, <1>5, <1>6, <1>7 DEF PublisherStep

\* OnWriteDone(): what leaves the queue has been sent.
LEMMA WriteDelivery ==
  ASSUME BaseInv, DeliveryInv, Write
  PROVE  DeliveryInv'
<1>0. IsSeq(streams) /\ StreamsOK
  BY DEF BaseInv
<1>1. UNCHANGED <<retained, overlapped, publisher>>
  BY DEF Write
<1>2. PICK j \in DOMAIN streams :
        /\ streams[j].replay \o streams[j].queue # <<>>
        /\ received' = [received EXCEPT ![streams[j].sub] = @ \cup {Head(streams[j].replay \o streams[j].queue).id}]
        /\ streams' = IF streams[j].replay # <<>>
                      THEN [streams EXCEPT ![j].replay = Tail(@)]
                      ELSE [streams EXCEPT ![j].queue = Tail(@)]
  BY DEF Write
<1> DEFINE q == streams[j].queue
           r == streams[j].replay
           head == Head(r \o q)
           s == streams[j].sub
<1>3. s \in Subs /\ DOMAIN received = Subs /\ QueueFits(streams[j])
  BY <1>0 DEF StreamsOK, DeliveryInv, QueuesOK
<1>4. received' = [received EXCEPT ![s] = received[s] \cup {head.id}]
  BY <1>2
<1> HIDE DEF s, head
<1>5. DOMAIN received' = Subs /\ head.id \in received'[s] /\ \A u \in Subs : received[u] \subseteq received'[u]
  BY <1>3, <1>4
<1>6. ASSUME NEW i \in DOMAIN streams, NEW id, Got(streams[i].sub, id), streams'[i].sub = streams[i].sub
      PROVE  Got(streams[i].sub, id)'
  <2>1. streams[i].sub \in Subs
    BY <1>0 DEF StreamsOK
  <2>2. id \in received'[streams'[i].sub]
    BY <1>5, <1>6, <2>1 DEF Got
  <2> QED BY <2>2 DEF Got
<1>7. CASE r # <<>>
  <2> DEFINE u == Tail(r)
  <2>1. streams' = [streams EXCEPT ![j].replay = u]
    BY <1>2, <1>7
  <2> HIDE DEF u
  <2>2. Updated(j, {"replay"})
    BY <1>0, <2>1, ReplayUpdate
  <2>3. streams[j].kind # "subscribe" /\ \A i \in DOMAIN streams : {"kind", "sub", "queue"} \subseteq DOMAIN streams[i]
    BY <1>0, <1>3, <1>7 DEF QueueFits, StreamsOK, Fields
  <2>4. \A i \in DOMAIN streams : /\ streams'[i].kind = streams[i].kind /\ streams'[i].sub = streams[i].sub
                                  /\ streams'[i].queue = streams[i].queue
    BY SMT, <2>2, <2>3, FieldKept
  <2>5. QueueFits(streams'[j])
    BY <2>3, <2>4 DEF QueueFits
  <2>6. ASSUME NEW i \in DOMAIN streams, NEW t \in DOMAIN retained, NEW id, Served(i, t, id)
        PROVE  Served(i, t, id)'
    <3>1. streams'[i].sub = streams[i].sub /\ streams'[i].queue = streams[i].queue
      BY <2>4
    <3>2. CASE Got(streams[i].sub, id)
      BY <1>6, <3>1, <3>2 DEF Served
    <3>3. CASE Holds(i, id) \/ \E p \in Publishers : DueAt(publisher[p], i, t, id)
      BY <1>1, <3>1, <3>3 DEF Served, Holds
    <3> QED BY <2>6, <3>2, <3>3 DEF Served
  <2> QED BY <1>0, <1>1, <1>5, <2>2, <2>5, <2>6, WritingDelivery
<1>8. CASE r = <<>>
  <2> DEFINE v == Tail(q)
  <2>1. streams' = [streams EXCEPT ![j].queue = v]
    BY <1>2, <1>8
  <2>2. CASE streams[j].kind = "subscribe"
    <3>1. IsSeq(q)
      BY <1>3, <2>2 DEF QueueFits
    <3>2. r \o q = q
      BY <1>8, <3>1, EmptyConcat
    <3>3. q # <<>> /\ head = Head(q)
      BY <1>2, <3>2 DEF head
    <3>4. IsSeq(v) /\ head = q[1] /\ \A m \in DOMAIN q : m = 1 \/ (m - 1 \in DOMAIN v /\ v[m - 1] = q[m])
      BY <3>1, <3>3, TailSeq
    <3> HIDE DEF v
    <3>5. Updated(j, {"queue"}) /\ streams'[j].queue = v
      BY <1>0, <2>1, QueueUpdate
    <3>6. \A i \in DOMAIN streams : {"replay", "sub"} \subseteq DOMAIN streams[i]
      BY <1>0 DEF StreamsOK, Fields
    <3>7. \A i \in DOMAIN streams : streams'[i].replay = streams[i].replay /\ streams'[i].sub = streams[i].sub
      BY SMT, <3>5, <3>6, FieldKept
    <3>8. QueueFits(streams'[j])
      BY <1>8, <3>4, <3>5, <3>7 DEF QueueFits
    <3>9. ASSUME NEW i \in DOMAIN streams, NEW t \in DOMAIN retained, NEW id, Served(i, t, id)
          PROVE  Served(i, t, id)'
      <4>0. streams'[i].sub = streams[i].sub
        BY <3>7
      <4>1. CASE Got(streams[i].sub, id)
        BY <1>6, <4>0, <4>1 DEF Served
      <4>2. CASE \E p \in Publishers : DueAt(publisher[p], i, t, id)
        BY <1>1, <4>2 DEF Served
      <4>3. CASE Holds(i, id)
        <5>1. PICK m \in DOMAIN streams[i].queue : streams[i].queue[m].id = id
          BY <4>3 DEF Holds
        <5>2. CASE i # j
          <6>1. streams'[i] = streams[i]
            BY <3>5, <5>2 DEF Updated
          <6> QED BY <4>3, <6>1 DEF Served, Holds
        <5>3. CASE i = j /\ m = 1
          <6>1. head.id = id
            BY <3>4, <5>1, <5>3
          <6>2. id \in received'[streams'[i].sub]
            BY <1>5, <4>0, <5>3, <6>1 DEF s
          <6> QED BY <6>2 DEF Served, Got
        <5>4. CASE i = j /\ m # 1
          <6>1. m - 1 \in DOMAIN streams'[i].queue /\ streams'[i].queue[m - 1].id = id
            BY <3>4, <3>5, <5>1, <5>4
          <6> QED BY <6>1 DEF Served, Holds
        <5> QED BY <5>2, <5>3, <5>4
      <4> QED BY <3>9, <4>1, <4>2, <4>3 DEF Served
    <3> QED BY <1>0, <1>1, <1>5, <3>5, <3>8, <3>9, WritingDelivery
  <2>3. CASE streams[j].kind # "subscribe"
    <3> HIDE DEF v
    <3>1. Updated(j, {"queue"})
      BY <1>0, <2>1, QueueUpdate
    <3>2. \A i \in DOMAIN streams : {"kind", "sub"} \subseteq DOMAIN streams[i]
      BY <1>0 DEF StreamsOK, Fields
    <3>3. \A i \in DOMAIN streams : streams'[i].kind = streams[i].kind /\ streams'[i].sub = streams[i].sub
      BY SMT, <3>1, <3>2, FieldKept
    <3>4. QueueFits(streams'[j])
      BY <2>3, <3>3 DEF QueueFits
    <3>5. ASSUME NEW i \in DOMAIN streams, NEW t \in DOMAIN retained, NEW id, Sees(i, t), Served(i, t, id)
          PROVE  Served(i, t, id)'
      <4>1. i # j
        BY <2>3, <3>5 DEF Sees
      <4>2. streams'[i] = streams[i]
        BY <3>1, <4>1 DEF Updated
      <4>3. CASE Got(streams[i].sub, id)
        BY <1>6, <4>2, <4>3 DEF Served
      <4>4. CASE Holds(i, id) \/ \E p \in Publishers : DueAt(publisher[p], i, t, id)
        BY <1>1, <4>2, <4>4 DEF Served, Holds
      <4> QED BY <3>5, <4>3, <4>4 DEF Served
    <3> QED BY <1>0, <1>1, <1>5, <3>1, <3>4, <3>5, WritingDelivery
  <2> QED BY <2>2, <2>3
<1> QED BY <1>7, <1>8

\* The other RPC steps enqueue nothing and open no first subscription.
LEMMA CallerStepDelivery ==
  \A c \in Callers : BaseInv /\ DeliveryInv /\ CallerStep(c) /\ ~SubscribeOpens(c) => DeliveryInv'
\* A new stream has nothing to write and is not open.
<1>ListDelivery. ASSUME BaseInv, DeliveryInv, NEW c \in Callers, ListStream(c)
                 PROVE  DeliveryInv'
  <2> USE <1>ListDelivery
  <2> DEFINE op == caller[c]
             n == Len(streams) + 1
             new == NewStream(op)
  <2>1. streams' = Append(streams, new)
    BY DEF ListStream
  <2>2. UNCHANGED <<retained, received, publisher, overlapped>>
    BY DEF ListStream, historyVars, clientVars
  <2>3. new.open = FALSE /\ new.queue = <<>> /\ new.replay = <<>>
    BY DEF NewStream
  <2> HIDE DEF new
  <2>4. /\ DOMAIN Append(streams, new) = DOMAIN streams \cup {n}
        /\ \A i \in DOMAIN streams : Append(streams, new)[i] = streams[i]
        /\ Append(streams, new)[n] = new
    BY AppendSeq DEF BaseInv
  <2> HIDE DEF n
  <2>5. DOMAIN streams' = DOMAIN streams \cup {n} /\ streams'[n] = new
          /\ \A i \in DOMAIN streams : streams'[i] = streams[i]
    BY <2>1, <2>4
  <2>6. QueuesOK'
    <3>1. QueueFits(new)
      BY <2>3, EmptyIsSeq DEF QueueFits
    <3>2. \A i \in DOMAIN streams' : QueueFits(streams'[i])
      BY <2>5, <3>1 DEF DeliveryInv, QueuesOK
    <3> QED BY <2>2, <3>2 DEF DeliveryInv, QueuesOK, QueueFits
  <2>7. \A i \in DOMAIN streams', t \in DOMAIN retained :
          Sees(i, t)' => /\ i \in DOMAIN streams /\ Sees(i, t)
                         /\ streams'[i].queue = streams[i].queue /\ streams'[i].sub = streams[i].sub
    <3> SUFFICES ASSUME NEW i \in DOMAIN streams', NEW t \in DOMAIN retained, Sees(i, t)'
                 PROVE  /\ i \in DOMAIN streams /\ Sees(i, t)
                        /\ streams'[i].queue = streams[i].queue /\ streams'[i].sub = streams[i].sub
      OBVIOUS
    <3>1. i # n
      BY <2>3, <2>5 DEF Sees
    <3>2. i \in DOMAIN streams /\ streams'[i] = streams[i]
      BY <2>5, <3>1
    <3> QED BY <2>2, <3>2 DEF Sees
  <2>8. RetainedOK'
    BY <2>2, <2>7, RetainedFrame DEF DeliveryInv
  <2> QED BY <2>6, <2>8 DEF DeliveryInv
<1> SUFFICES ASSUME NEW c \in Callers, BaseInv, DeliveryInv, CallerStep(c), ~SubscribeOpens(c)
             PROVE  DeliveryInv'
  OBVIOUS
<1>0. IsSeq(streams) /\ StreamsOK /\ CallerStreams /\ IdsOK
  BY DEF BaseInv, SessionInv
<1>1. CASE Subscribe(c) \/ Unsubscribe(c) \/ Resume(c) \/ ResumeInRegistry(c)
  <2>1. UNCHANGED <<retained, received, publisher, streams>>
    BY <1>1 DEF Subscribe, Unsubscribe, Resume, ResumeInRegistry, sessionVars, historyVars, clientVars
  <2>2. overlapped \subseteq overlapped'
    BY <1>1 DEF Subscribe, Unsubscribe, Resume, ResumeInRegistry, NoteOverlap, historyVars
  <2> QED BY <2>1, <2>2, DeliveryQuiet
<1>2. CASE ListStream(c)
  BY <1>2, <1>ListDelivery
<1>3. CASE SetReactor(c)
  <2> DEFINE i == caller[c].stream
  <2>1. UNCHANGED <<retained, received, publisher, overlapped>>
    BY <1>3 DEF SetReactor, historyVars, clientVars
  <2>2. Updated(i, {"reactor", "from"})
    BY <1>0, <1>3, ReactorUpdate
  <2> HIDE DEF i
  <2>3. i \in DOMAIN streams /\ {"active", "open"} \subseteq DOMAIN streams[i]
    BY <1>0, <2>2 DEF Updated, StreamsOK, Fields
  <2>4. streams'[i].active = streams[i].active /\ streams'[i].open = streams[i].open
    BY SMT, <2>2, <2>3, FieldKept
  <2> QED BY <1>0, <2>1, <2>2, <2>4, DeliveryKept
<1>4. CASE CancelStream(c)
  <2> DEFINE s == caller[c].sub
             i == listed[s]
  <2>1. UNCHANGED <<retained, received, publisher, overlapped>>
    BY <1>4 DEF CancelStream, historyVars, clientVars
  <2>2. /\ s \in DOMAIN listed => streams' = [streams EXCEPT ![i].active = FALSE] /\ i \in DOMAIN streams
        /\ s \notin DOMAIN listed => streams' = streams
    BY <1>0, <1>4 DEF CancelStream, IdsOK
  <2> HIDE DEF s, i
  <2>3. CASE s \in DOMAIN listed
    <3>1. streams' = [streams EXCEPT ![i].active = FALSE] /\ i \in DOMAIN streams
      BY <2>2, <2>3
    <3>2. Updated(i, {"active"}) /\ ~streams'[i].active
      BY <1>0, <3>1, DeactivateUpdate
    <3>3. "open" \in DOMAIN streams[i]
      BY <1>0, <3>1 DEF StreamsOK, Fields
    <3>4. streams'[i].open = streams[i].open
      BY <3>1, <3>2, <3>3, FieldKept
    <3> QED BY <1>0, <2>1, <3>2, <3>4, DeliveryKept
  <2>4. CASE s \notin DOMAIN listed
    BY <2>1, <2>2, <2>4, DeliveryQuiet
  <2> QED BY <2>3, <2>4
<1>5. CASE RecoverTopic(c)
  <2> DEFINE i == caller[c].stream
             fs == {"replay", "after", "missed", "upto", "saved"}
  <2>1. UNCHANGED <<retained, received, publisher, overlapped>>
    BY <1>5 DEF RecoverTopic, historyVars, clientVars
  <2>2. Updated(i, fs)
    BY <1>0, <1>5, RecoverUpdate
  <2>3. streams[i].kind = "resume"
    BY <1>0, <1>5 DEF RecoverTopic, CallerStreams, Streaming, Resuming
  <2> HIDE DEF i
  <2>4. i \in DOMAIN streams /\ {"active", "open"} \subseteq DOMAIN streams[i]
    BY <1>0, <2>2 DEF Updated, StreamsOK, Fields
  <2>5. streams'[i].active = streams[i].active /\ streams'[i].open = streams[i].open
    BY SMT, <2>2, <2>4, FieldKept
  <2> QED BY <1>0, <2>1, <2>2, <2>3, <2>5, DeliveryKept
<1>6. CASE ResumeOpens(c)
  <2> DEFINE i == caller[c].stream
  <2>1. UNCHANGED <<retained, received, publisher, overlapped>>
    BY <1>6 DEF ResumeOpens, historyVars, clientVars
  <2>2. Updated(i, {"open"})
    BY <1>0, <1>6, ResumeOpensUpdate
  <2>3. streams[i].kind = "resume"
    BY <1>0, <1>6 DEF ResumeOpens, CallerStreams, Streaming, Resuming
  <2> HIDE DEF i
  <2>4. i \in DOMAIN streams /\ {"active", "kind"} \subseteq DOMAIN streams[i]
    BY <1>0, <2>2 DEF Updated, StreamsOK, Fields
  <2>5. streams'[i].active = streams[i].active /\ streams'[i].kind = streams[i].kind
    BY SMT, <2>2, <2>4, FieldKept
  <2> QED BY <1>0, <2>1, <2>2, <2>3, <2>5, DeliveryKept
<1> QED BY <1>1, <1>2, <1>3, <1>4, <1>5, <1>6 DEF CallerStep

\* Nothing is retained at first.
LEMMA InitDelivery == Init => DeliveryInv
<1> SUFFICES ASSUME Init PROVE DeliveryInv
  OBVIOUS
<1>1. streams = <<>> /\ retained = Empty /\ received = [s \in Subs |-> {}]
  BY DEF Init
<1>2. DOMAIN streams = {} /\ DOMAIN retained = {} /\ DOMAIN received = Subs
  BY SMT, <1>1 DEF Empty
<1> QED BY <1>2 DEF DeliveryInv, QueuesOK, RetainedOK

\* Once the publisher is done, what was due has been enqueued.
LEMMA DeliveryReaches == PublishersOK /\ DeliveryInv => RetainedReachesSubscriber
<1> SUFFICES ASSUME PublishersOK, DeliveryInv, NEW i \in DOMAIN streams, NEW t \in DOMAIN retained, Sees(i, t),
                    \A p \in Publishers : publisher[p] # Idle => publisher[p].id # retained[t].id
             PROVE  Holds(i, retained[t].id) \/ Got(streams[i].sub, retained[t].id)
  BY DEF RetainedReachesSubscriber, Sees
<1>1. Served(i, t, retained[t].id)
  BY DEF DeliveryInv, RetainedOK
<1>2. ASSUME NEW p \in Publishers, DueAt(publisher[p], i, t, retained[t].id) PROVE FALSE
  <2>1. publisher[p].at # "idle" /\ publisher[p].id = retained[t].id
    BY <1>2 DEF DueAt
  <2>2. publisher[p] # Idle
    BY SMT, <2>1 DEF Idle
  <2> QED BY <2>1, <2>2
<1> QED BY <1>1, <1>2 DEF Served

-----------------------------------------------------------------------------
(* The registry under the RPCs *)

\* A registry with its members is one whose methods are known.
LEMMA ShapeKeys == ASSUME Shape(registry) PROVE RegistryKeys
<1>1. AddKeysOK
  BY SMT, AddKeys DEF Keys, AddKeysOK
<1>2. RemoveKeysOK
  <2> SUFFICES ASSUME NEW s, NEW pause
               PROVE  LET r == RemoveLocalSubscription(registry, s, pause) IN
                      /\ DOMAIN r.local = DOMAIN registry.local \ {s}
                      /\ DOMAIN r.paused \subseteq DOMAIN registry.paused \cup {s}
    BY DEF RemoveKeysOK
  <2> DEFINE r == RemoveLocalSubscription(registry, s, pause)
  <2>1. PICK ps : /\ DOMAIN r.local = DOMAIN registry.local \ {s}
                  /\ DOMAIN r.paused = ps
                  /\ ps \subseteq DOMAIN registry.paused \cup {s}
    BY RemoveKeys DEF Keys
  <2> QED BY <2>1
<1>3. ResumeKeysOK
  BY ResumeKeys DEF Keys, ResumeKeysOK
<1>4. SequenceKeysOK
  BY SMT, SequenceKeys DEF Keys, SequenceKeysOK
<1>5. ExpiryKeysOK
  BY ExpiryKeys DEF Keys, ExpiryKeysOK
<1> QED BY <1>1, <1>2, <1>3, <1>4, <1>5 DEF RegistryKeys

\* No step of the sessions takes a member of the registry away.
LEMMA NextShape == ASSUME Shape(registry), [Next]_vars PROVE Shape(registry')
<1>1. CASE UNCHANGED registry
  BY <1>1
<1>2. ASSUME NEW c \in Callers, CallerStep(c) PROVE Shape(registry')
  <2>1. CASE Subscribe(c)
    <3>1. PICK s, ts : registry' = AddLocalSubscription(registry, s, ts)
      BY <2>1 DEF Subscribe
    <3> QED BY <3>1, AddKeys DEF Keys
  <2>2. CASE Unsubscribe(c)
    <3>1. PICK s, pause : registry' = RemoveLocalSubscription(registry, s, pause)
      BY <2>2 DEF Unsubscribe
    <3> QED BY <3>1, RemoveKeys DEF Keys
  <2>3. CASE ResumeInRegistry(c)
    <3>1. PICK s : registry' = ResumeSubscription(registry, s)
      BY <2>3 DEF ResumeInRegistry
    <3> QED BY <3>1, ResumeKeys DEF Keys
  <2>4. CASE \/ ListStream(c) \/ SetReactor(c) \/ SubscribeOpens(c) \/ CancelStream(c)
             \/ Resume(c) \/ RecoverTopic(c) \/ ResumeOpens(c)
    <3>1. registry' = registry
      BY <2>4 DEF ListStream, SetReactor, SubscribeOpens, CancelStream, Resume, RecoverTopic,
                         ResumeOpens, sessionVars
    <3> QED BY <1>1, <3>1
  <2> QED BY <1>2, <2>1, <2>2, <2>3, <2>4 DEF CallerStep
<1>3. ASSUME NEW p \in Publishers, PublisherStep(p) PROVE Shape(registry')
  <2>1. CASE RecordSequence(p)
    <3>1. PICK s, seq : registry' = UpdateSubscriptionSequence(registry, s, seq)
      BY <2>1 DEF RecordSequence
    <3> QED BY <3>1, SequenceKeys DEF Keys
  <2>2. CASE ~RecordSequence(p)
    <3>1. registry' = registry
      BY <1>3, <2>2 DEF PublisherStep, Publish, BufferMessage, ChooseStreams, SkipStream,
                               EnqueueOnStream, EnqueueMiscast, sessionVars
    <3> QED BY <1>1, <3>1
  <2> QED BY <2>1, <2>2
<1>4. CASE Write \/ Disconnect \/ UNCHANGED vars
  <2>1. registry' = registry
    BY <1>4 DEF Write, Disconnect, vars, sessionVars
  <2> QED BY <1>1, <2>1
<1>5. CASE PauseExpires
  <2>1. PICK s \in DOMAIN registry.paused :
          registry' = [registry EXCEPT !.paused = With(@, s, [@[s] EXCEPT !.expired = TRUE])]
    BY <1>5 DEF PauseExpires
  <2> QED BY <2>1, ExpiryKeys DEF Keys
<1> QED BY <1>2, <1>3, <1>4, <1>5 DEF Next

-----------------------------------------------------------------------------
(* The registry under these RPCs is a registry *)

\* Every step is a step of the registry or leaves it alone.
LEMMA RegistryImplemented ==
  ASSUME Sequences = Nat, BaseInv, PublishersOK, [Next]_vars
  PROVE  [RegistryNext]_registry
<1> USE DEF BaseInv, SessionInv
<1>1. CASE UNCHANGED vars
  BY <1>1 DEF vars, sessionVars
<1>2. ASSUME NEW c \in Callers, CallerStep(c) PROVE [RegistryNext]_registry
  <2>1. CASE Subscribe(c)
    <3>1. PICK s \in Subs \ Used, ts \in Interests : registry' = AddLocalSubscription(registry, s, ts)
      BY <2>1 DEF Subscribe
    <3>2. s \notin DOMAIN registry.paused
      BY DEF IdsOK, Used, StreamSubs
    <3>3. ts \in SUBSET Topics
      BY SessionsAssumption
    <3> QED BY <3>1, <3>2, <3>3 DEF RegistryNext, SubscriptionStep
  <2>2. CASE Unsubscribe(c)
    <3>1. PICK s \in Known, pause \in BOOLEAN : registry' = RemoveLocalSubscription(registry, s, pause)
      BY <2>2 DEF Unsubscribe
    <3>2. s \in Subs
      BY DEF Known, StreamsOK
    <3> QED BY <3>1, <3>2 DEF RegistryNext, SubscriptionStep
  <2>3. CASE ResumeInRegistry(c)
    <3>1. registry' = ResumeSubscription(registry, caller[c].sub)
      BY <2>3 DEF ResumeInRegistry
    <3>2. caller[c].sub \in Subs
      BY <2>3 DEF ResumeInRegistry, CallersOK
    <3> QED BY <3>1, <3>2 DEF RegistryNext, SubscriptionStep
  <2>4. CASE \/ ListStream(c) \/ SetReactor(c) \/ SubscribeOpens(c) \/ CancelStream(c)
             \/ Resume(c) \/ RecoverTopic(c) \/ ResumeOpens(c)
    <3>1. registry' = registry
      BY <2>4 DEF ListStream, SetReactor, SubscribeOpens, CancelStream, Resume, RecoverTopic,
                         ResumeOpens, sessionVars
    <3> QED BY <3>1
  <2> QED BY <1>2, <2>1, <2>2, <2>3, <2>4 DEF CallerStep
<1>3. ASSUME NEW p \in Publishers, PublisherStep(p) PROVE [RegistryNext]_registry
  <2>1. CASE RecordSequence(p)
    <3>1. registry' = UpdateSubscriptionSequence(registry, publisher[p].sub, publisher[p].seq)
      BY <2>1 DEF RecordSequence
    <3>2. publisher[p].sub \in Subs /\ publisher[p].seq \in Sequences
      BY <2>1 DEF RecordSequence, PublishersOK, PublisherFits
    <3> QED BY <3>1, <3>2 DEF RegistryNext, SubscriptionStep
  <2>2. CASE ~RecordSequence(p)
    <3>1. registry' = registry
      BY <1>3, <2>2 DEF PublisherStep, Publish, BufferMessage, ChooseStreams, SkipStream,
                               EnqueueOnStream, EnqueueMiscast, sessionVars
    <3> QED BY <3>1
  <2> QED BY <2>1, <2>2
<1>4. CASE Write \/ Disconnect
  <2>1. registry' = registry
    BY <1>4 DEF Write, Disconnect
  <2> QED BY <2>1
<1>5. CASE PauseExpires
  <2>1. PICK s \in DOMAIN registry.paused :
          registry' = [registry EXCEPT !.paused = With(@, s, [@[s] EXCEPT !.expired = TRUE])]
    BY <1>5 DEF PauseExpires
  <2> QED BY <2>1 DEF RegistryNext, TimeStep
<1> QED BY <1>1, <1>2, <1>3, <1>4, <1>5 DEF Next

\* A stream whose client is gone is owed nothing.
LEMMA DisconnectDelivery ==
  ASSUME BaseInv, DeliveryInv, Disconnect
  PROVE  DeliveryInv'
<1>0. IsSeq(streams) /\ StreamsOK
  BY DEF BaseInv
<1>1. UNCHANGED <<retained, received, publisher, overlapped>>
  BY DEF Disconnect, historyVars, clientVars
<1>2. PICK i \in DOMAIN streams : streams' = [streams EXCEPT ![i].active = FALSE]
  BY DEF Disconnect
<1>3. Updated(i, {"active"}) /\ ~streams'[i].active
  BY <1>0, <1>2, DeactivateUpdate
<1>4. "open" \in DOMAIN streams[i]
  BY <1>0 DEF StreamsOK, Fields
<1>5. streams'[i].open = streams[i].open
  BY SMT, <1>3, <1>4, FieldKept
<1> QED BY <1>0, <1>1, <1>3, <1>5, DeliveryKept

\* The retained messages of the topics of c's stream.
KeptFor(c) == {retained[t] : t \in streams[caller[c].stream].topics \cap DOMAIN retained}

\* A sequence of all of S.
Lists(q, S) == IsSeq(q) /\ \A x \in S : \E k \in DOMAIN q : q[k] = x

\* The constructor of SubscribeReactor enqueues what is retained of its topics.
LEMMA OpensDelivery ==
  ASSUME BaseInv, DeliveryInv, NEW c \in Callers, SubscribeOpens(c),
         Lists(InSomeOrder(KeptFor(c)), KeptFor(c))
  PROVE  DeliveryInv'
<1> DEFINE j == caller[c].stream
           kept == {retained[t] : t \in streams[j].topics \cap DOMAIN retained}
           old == InSomeOrder(kept)
<1>0. IsSeq(streams) /\ StreamsOK /\ CallerStreams
  BY DEF BaseInv, SessionInv
<1>1. Updated(j, {"open", "queue"}) /\ streams'[j].queue = streams[j].queue \o old
  BY <1>0, OpensUpdate
<1>2. UNCHANGED <<retained, received, publisher, overlapped>>
  BY DEF SubscribeOpens, historyVars, clientVars
<1>3. j \in DOMAIN streams /\ streams[j].kind = "subscribe"
  BY <1>0 DEF SubscribeOpens, CallerStreams, Streaming, Resuming
<1>5. IsSeq(old) /\ \A x \in kept : \E k \in DOMAIN old : old[k] = x
  BY DEF Lists, KeptFor
<1>6. \A t \in streams[j].topics \cap DOMAIN retained : retained[t] \in kept
  OBVIOUS
<1> HIDE DEF j, kept, old
<1>7. IsSeq(streams[j].queue)
  BY <1>3 DEF DeliveryInv, QueuesOK, QueueFits
<1>8. /\ IsSeq(streams'[j].queue)
      /\ \A k \in DOMAIN old : /\ Len(streams[j].queue) + k \in DOMAIN streams'[j].queue
                               /\ streams'[j].queue[Len(streams[j].queue) + k] = old[k]
  <2> DEFINE q == streams[j].queue
             v == q \o old
  <2>1. IsSeq(v) /\ \A k \in DOMAIN old : Len(q) + k \in DOMAIN v /\ v[Len(q) + k] = old[k]
    BY SMT, <1>5, <1>7, ConcatSeq
  <2>2. streams'[j].queue = v
    BY <1>1
  <2> HIDE DEF v
  <2> QED BY <2>1, <2>2
<1>9. \A i \in DOMAIN streams : {"sub", "kind", "topics", "replay"} \subseteq DOMAIN streams[i]
  BY <1>0 DEF StreamsOK, Fields
<1>10. \A i \in DOMAIN streams :
         /\ streams'[i].kind = streams[i].kind /\ streams'[i].replay = streams[i].replay
         /\ streams'[i].topics = streams[i].topics /\ streams'[i].sub = streams[i].sub
         /\ i # j => streams'[i] = streams[i]
  <2> SUFFICES ASSUME NEW i \in DOMAIN streams
               PROVE  /\ streams'[i].kind = streams[i].kind /\ streams'[i].replay = streams[i].replay
                      /\ streams'[i].topics = streams[i].topics /\ streams'[i].sub = streams[i].sub
                      /\ i # j => streams'[i] = streams[i]
    OBVIOUS
  <2>1. i # j => streams'[i] = streams[i]
    BY SMT, <1>1 DEF Updated
  <2> QED BY SMT, <1>1, <1>9, <2>1, FieldKept
<1>11. DOMAIN streams' = DOMAIN streams
  BY <1>1 DEF Updated
<1>12. QueuesOK'
  <2>1. ASSUME NEW i \in DOMAIN streams PROVE QueueFits(streams'[i])
    <3>1. QueueFits(streams[i])
      BY DEF DeliveryInv, QueuesOK
    <3>2. streams'[i].kind = streams[i].kind /\ streams'[i].replay = streams[i].replay
            /\ (i # j => streams'[i] = streams[i])
      BY <1>10
    <3> QED BY SMT, <1>8, <3>1, <3>2 DEF QueueFits
  <2> QED BY <1>2, <1>11, <2>1 DEF DeliveryInv, QueuesOK
<1>13. RetainedOK'
  <2> SUFFICES ASSUME NEW i \in DOMAIN streams', NEW t \in DOMAIN retained', Sees(i, t)'
               PROVE  Served(i, t, retained[t].id)'
    BY <1>2 DEF RetainedOK, DeliveryInv
  <2>1. CASE i = j
    <3>1. t \in streams[j].topics \cap DOMAIN retained
      <4>1. t \in streams'[i].topics /\ streams'[j].topics = streams[j].topics
        BY <1>3, <1>10 DEF Sees
      <4> QED BY <1>2, <2>1, <4>1
    <3>2. PICK k \in DOMAIN old : old[k] = retained[t]
      BY <1>5, <1>6, <3>1
    <3>3. \E m \in DOMAIN streams'[i].queue : streams'[i].queue[m].id = retained'[t].id
      BY <1>2, <1>8, <2>1, <3>2
    <3> QED BY <3>3 DEF Served, Holds
  <2>2. CASE i # j
    <3>1. i \in DOMAIN streams
      BY <1>11
    <3>a. streams'[i] = streams[i]
      BY <1>10, <2>2, <3>1
    <3>2. Sees(i, t)
      BY <1>2, <3>1, <3>a DEF Sees
    <3>3. Served(i, t, retained[t].id)
      BY <1>2, <3>1, <3>2 DEF DeliveryInv, RetainedOK
    <3> QED BY <1>2, <3>1, <3>a, <3>3 DEF Served, Holds, Got
  <2> QED BY <2>1, <2>2
<1> QED BY <1>12, <1>13 DEF DeliveryInv

INSTANCE FiniteSetTheorems

\* Every step keeps the invariant of the retained messages.
LEMMA NextDelivery ==
  BaseInv /\ PublishersOK /\ DeliveryInv /\ [Next]_vars => DeliveryInv'
\* Every element of a finite set is in the sequence made of it.
<1>InSomeOrderHas. ASSUME NEW S, IsFiniteSet(S)
                   PROVE  /\ IsSeq(InSomeOrder(S))
                          /\ \A x \in S : \E k \in DOMAIN InSomeOrder(S) : InSomeOrder(S)[k] = x
  <2> USE <1>InSomeOrderHas
  <2> DEFINE n == Cardinality(S)
             f == InSomeOrder(S)
  <2>1. n \in Nat
    BY FS_CardinalityType
  <2>2. \E g : g \in Bijection(1..n, S)
    BY FS_CardinalityType DEF ExistsBijection
  <2>3. f \in Bijection(1..n, S)
    BY <2>2 DEF InSomeOrder
  <2> HIDE DEF n, f
  <2>4. f \in [1..n -> S] /\ \A x \in S : \E k \in 1..n : f[k] = x
    BY <2>3 DEF Bijection, Surjection
  <2>5. f \in Seq(S) /\ DOMAIN f = 1..n
    BY SMT, <2>1, <2>4
  <2>6. IsSeq(f)
    BY <2>5 DEF IsSeq
  <2> QED BY <2>4, <2>5, <2>6 DEF f
\* The values of a function on a finite set are finitely many.
<1>FiniteImage. ASSUME NEW f, NEW S, IsFiniteSet(S)
                PROVE  IsFiniteSet({f[x] : x \in S})
  <2> USE <1>FiniteImage
  <2> DEFINE T == {f[x] : x \in S}
             g == [x \in S |-> f[x]]
  <2>1. g \in [S -> T] /\ \A y \in T : \E x \in S : g[x] = y
    OBVIOUS
  <2>2. g \in Surjection(S, T)
    BY <2>1 DEF Surjection
  <2> HIDE DEF g, T
  <2>3. IsFiniteSet(T)
    BY <2>2, FS_Surjection
  <2> QED BY <2>3 DEF T
\* What is retained is listed for the stream.
<1>KeptLists. ASSUME BaseInv, DeliveryInv, NEW c \in Callers, SubscribeOpens(c)
              PROVE  Lists(InSomeOrder(KeptFor(c)), KeptFor(c))
  <2> USE <1>KeptLists
  <2> DEFINE ts == streams[caller[c].stream].topics \cap DOMAIN retained
  <2>1. ts \subseteq Topics
    BY DEF DeliveryInv, RetainedOK
  <2>2. IsFiniteSet(ts)
    BY <2>1, SessionsAssumption, FS_Subset
  <2> HIDE DEF ts
  <2>3. IsFiniteSet({retained[t] : t \in ts})
    BY <2>2, <1>FiniteImage
  <2>4. KeptFor(c) = {retained[t] : t \in ts}
    BY DEF KeptFor, ts
  <2>5. IsFiniteSet(KeptFor(c))
    BY <2>3, <2>4
  <2> QED BY <2>5, <1>InSomeOrderHas DEF Lists
<1> SUFFICES ASSUME BaseInv, PublishersOK, DeliveryInv, [Next]_vars
             PROVE  DeliveryInv'
  OBVIOUS
<1>1. CASE UNCHANGED vars
  <2>1. UNCHANGED <<retained, received, publisher, streams, overlapped>>
    BY <1>1 DEF vars, sessionVars, historyVars, clientVars
  <2> QED BY <2>1, DeliveryQuiet
<1>2. ASSUME NEW c \in Callers, CallerStep(c) PROVE DeliveryInv'
  BY <1>2, CallerStepDelivery, OpensDelivery, <1>KeptLists
<1>3. ASSUME NEW p \in Publishers, PublisherStep(p) PROVE DeliveryInv'
  BY <1>3, PublisherStepDelivery
<1>4. CASE Write
  BY <1>4, WriteDelivery
<1>5. CASE Disconnect
  BY <1>5, DisconnectDelivery
<1>6. CASE PauseExpires
  <2>1. UNCHANGED <<retained, received, publisher, streams, overlapped>>
    BY <1>6 DEF PauseExpires, historyVars, clientVars
  <2> QED BY <2>1, DeliveryQuiet
<1> QED BY <1>1, <1>2, <1>3, <1>4, <1>5, <1>6 DEF Next

-----------------------------------------------------------------------------
(* The theorems *)

\* The inductive invariant.
SessionsInv == BaseInv /\ PublishersOK /\ Shape(registry) /\ DeliveryInv

(* What the RPCs of one daemon keep true at every interleaving of their    *)
(* critical sections: where each RPC is, which stream it made, and what of *)
(* the registry and of activeStreams_ it has changed so far.               *)
THEOREM SessionsInvariant == Spec => []SessionsInv
<1>1. Init => SessionsInv
  <2>1. Init => Shape(registry)
    BY NewKeys DEF Init, RegistryInit, Keys
  <2> QED BY <2>1, InitBase, InitDelivery DEF SessionsInv
<1>2. SessionsInv /\ [Next]_vars => SessionsInv'
  <2> SUFFICES ASSUME SessionsInv, [Next]_vars PROVE SessionsInv'
    OBVIOUS
  <2>1. BaseInv /\ PublishersOK /\ Shape(registry) /\ DeliveryInv
    BY DEF SessionsInv
  <2>2. BaseInv' /\ PublishersOK'
    BY <2>1, ShapeKeys, NextBase
  <2>3. DeliveryInv'
    BY <2>1, NextDelivery
  <2>4. Shape(registry')
    BY <2>1, NextShape
  <2> QED BY <2>2, <2>3, <2>4 DEF SessionsInv, Shape
<1> QED BY <1>1, <1>2, PTL DEF Spec

(* The registry and activeStreams_, changed under different locks by       *)
(* Subscribe, Unsubscribe and ResumeSubscribe, agree on every subscription *)
(* no RPC works on, for any number of clients, streams and publishers.     *)
THEOREM RegistryAlwaysMatches == Spec => []RegistryMatchesStreams
<1>1. SessionsInv => RegistryMatchesStreams
  BY BusyIsWorking DEF SessionsInv, BaseInv, SessionInv, Matched, RegistryMatchesStreams
<1> QED BY <1>1, SessionsInvariant, PTL

(* The registry under the RPCs of sidecar_service.cpp is a registry: the   *)
(* calls they make, with any sequence number, are calls PeerRegistry lets  *)
(* its users make, an id that is paused never being added among them.      *)
THEOREM SessionsImplementRegistry ==
  ASSUME Sequences = Nat
  PROVE  Spec => RegistrySpec
<1>1. Init => RegistryInit
  BY DEF Init
<1>2. SessionsInv /\ [Next]_vars => [RegistryNext]_registry
  BY RegistryImplemented DEF SessionsInv
<1> QED BY <1>1, <1>2, SessionsInvariant, PTL DEF Spec, RegistrySpec

(* So the topic index that routes messages is exact in a running daemon.   *)
THEOREM SessionsIndexExact ==
  ASSUME Sequences = Nat
  PROVE  Spec => []IndexExact
BY SessionsImplementRegistry, IndexAlwaysExact, PTL

(* So no subscription of a running daemon is both active and paused.       *)
THEOREM SessionsActiveXorPaused ==
  ASSUME Sequences = Nat
  PROVE  Spec => []ActiveXorPaused
BY SessionsImplementRegistry, NeverActiveAndPaused, PTL

(* Late joiners miss no retained message, whichever way the steps of       *)
(* PublishReactor and of Subscribe interleave, for any number of clients,  *)
(* publishers and topics.                                                  *)
THEOREM RetainedAlwaysReaches == Spec => []RetainedReachesSubscriber
<1>1. SessionsInv => RetainedReachesSubscriber
  BY DeliveryReaches DEF SessionsInv
<1> QED BY <1>1, SessionsInvariant, PTL
=============================================================================
