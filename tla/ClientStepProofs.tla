--------------------------- MODULE ClientStepProofs ---------------------------
(***************************************************************************)
(* Every step of Client keeps what the client and the daemon hold          *)
(* consistent, what close() leaves and what publish() counts.              *)
(***************************************************************************)
EXTENDS Client, TLAPS

\* Steps that need arithmetic cite SMT.
USE Zenon

\* A registry has six members.
Rec(l, p, i, d, pe, ro) ==
  [local |-> l, paused |-> p, index |-> i, dirty |-> d, peers |-> pe, routes |-> ro]

Shape(r) == r = Rec(r.local, r.paused, r.index, r.dirty, r.peers, r.routes)

\* What goes over a stream.
Messages == [type : {"message", "replay", "retained"}, topic : Topics, seq : Nat \ {0}]

StreamEvents == Messages \cup {Info}

\* The states of the two threads.
GenStates == {"idle", "request", "streaming", "yield", "backoff", "done", "raised", "failed", "abandoned"}

UserStates == {"idle", "publish", "answered", "hung", "unavailable", "backoff", "removed", "closing", "closed"}

Publishing == {"publish", "answered", "hung", "unavailable", "backoff"}

GenType == [pc : GenStates, sid : Subs \cup {None}, last : Nat, attempt : Nat]

UserType == [pc : UserStates, topic : Topics \cup {None}, attempt : Nat, copies : Nat, broken : Nat,
             outcome : {"none", "ok", "error"}, todo : SUBSET (Subs \cup {None}),
             unpaused : SUBSET (Subs \cup {None}), late : BOOLEAN]

StreamType ==
  [kind : {"none", "subscribe", "resume"}, sub : Subs \cup {None},
   status : {"open", "finished", "cancelled", "unavailable", "notfound"},
   active : BOOLEAN, own : BOOLEAN, queue : Seq(StreamEvents), wire : Seq(StreamEvents),
   upto : {Empty} \cup [Topics -> Nat], lapsed : BOOLEAN]

\* The types of what the client and the stream hold.
UserOK == user \in UserType /\ (user.pc \in Publishing => user.topic \in Topics)

Types == config \in Configs /\ gen \in GenType /\ stream \in StreamType /\ UserOK

\* The numbers of a ring are consecutive and end before next.
Ring(b) ==
  /\ b.next \in Nat /\ b.messages \in Seq([seq : Nat, size : Nat, payload : Nat])
  /\ Len(b.messages) \in 1..(b.next - 1)
  /\ \A i \in 1..Len(b.messages) : b.messages[i].seq = b.next - 1 - Len(b.messages) + i

Rings == DOMAIN buffers \subseteq Topics /\ \A t \in DOMAIN buffers : Ring(buffers[t])

\* The subscriptions the daemon knows, active and paused.
Known == DOMAIN registry.local \cup DOMAIN registry.paused

\* What the registry keeps of a subscription.
Active == [topics : {Topics}, last : Nat]
Paused == [topics : {Topics}, last : Nat, expired : BOOLEAN]

AllKept(r) ==
  /\ Shape(r)
  /\ \A s \in DOMAIN r.local : r.local[s] \in Active
  /\ \A s \in DOMAIN r.paused : r.paused[s] \in Paused

RegistryOK == AllKept(registry) /\ (~up => Known = {})

\* Which subscriptions there are.
Ids ==
  /\ issued \subseteq Subs /\ tracked \subseteq issued /\ told \subseteq issued /\ Known \subseteq issued
  /\ {gen.sid, stream.sub} \subseteq issued \cup {None}

\* What the state of the stream says about the subscription in the registry.
StreamOK ==
  /\ stream.kind = "none" => stream.sub = None /\ ~stream.active /\ stream.queue = <<>> /\ stream.wire = <<>>
  /\ stream.kind # "none" => stream.sub # None
  /\ stream.active => stream.status = "open"
  /\ stream.kind = "subscribe" /\ stream.active => stream.sub \in DOMAIN registry.local
  /\ stream.status \in {"open", "finished"} /\ ~stream.active => stream.sub \notin DOMAIN registry.local

\* The SubscriptionInfo comes before all else.
InfoFirst ==
  Generating /\ stream.kind # "none" /\ gen.sid # stream.sub =>
    /\ stream.wire # <<>> => Head(stream.wire) = Info
    /\ stream.wire = <<>> /\ stream.status = "open" => stream.queue # <<>> /\ Head(stream.queue) = Info
    /\ stream.wire = <<>> => stream.status # "finished"

\* Only a generator that reconnects asks a second time.
AskedOnce ==
  /\ gen.pc = "idle" => gen.sid = None
  /\ gen.pc = "backoff" => config.enabled
  /\ gen.pc = "request" /\ gen.sid # None => config.enabled
  /\ gen.last # 0 => gen.sid # None
  /\ Generating /\ stream.kind = "none" => stream.status \notin {"open", "finished"}

ControlInv == Types /\ RegistryOK /\ Ids /\ StreamOK /\ InfoFirst /\ AskedOnce

-----------------------------------------------------------------------------
(* close() and publish() *)

\* What close() has still to do, and what it cannot know of.
CloseKnows ==
  /\ user.pc # "closed" => \A s \in DOMAIN registry.local \cap told : s \in tracked
  /\ user.pc = "closing" => DOMAIN registry.local \subseteq user.todo \cup user.unpaused \cup (issued \ told)

\* Only close() cancels a call that is read.
CloseCancels == Generating /\ stream.status = "cancelled" => user.pc = "closed"

\* What close() leaves.
CloseLeaves ==
  user.pc = "closed" /\ ~user.late =>
    /\ ~channel /\ gen.pc # "backoff"
    /\ Generating => stream.status = "cancelled" \/ (stream.status = "unavailable" /\ ~config.enabled)
    /\ DOMAIN registry.local \subseteq user.unpaused

CloseInv == CloseKnows /\ CloseCancels /\ CloseLeaves

\* How many messages a call of publish() has stored.
CopiesOK ==
  /\ user.pc \in {"publish", "unavailable", "backoff"} => user.copies = user.broken
  /\ user.pc \in {"answered", "hung"} => user.copies = user.broken + 1

-----------------------------------------------------------------------------
(* The numbers, for one topic *)

TheTopic == CHOOSE t \in Topics : TRUE

OneTopic == Topics = {TheTopic}

Now == Reached(TheTopic)

\* The events that are on their way.
Pending == stream.wire \o stream.queue

Numbered(e) == e.type \in {"message", "replay"}

\* What was yielded is before what is on its way, which is before what is published next.
OrderInv ==
  /\ yielded \in Seq(Topics \X Nat)
  /\ \A i, j \in DOMAIN yielded : i < j => yielded[i][2] < yielded[j][2]
  /\ \A i \in DOMAIN yielded : yielded[i][2] <= gen.last
  /\ \A i, j \in 1..Len(Pending) :
       i < j /\ Numbered(Pending[i]) /\ Numbered(Pending[j]) => Pending[i].seq < Pending[j].seq
  /\ \A i \in 1..Len(Pending) : Numbered(Pending[i]) =>
       /\ gen.last < Pending[i].seq
       /\ stream.sub \in Known => Pending[i].seq <= Now
  /\ gen.sid \in Known \/ stream.sub \in Known => gen.last <= Now

\* The message n was yielded, or need not be.
Settled(n) == Yielded(TheTopic, n) \/ <<TheTopic, n>> \in excused

\* One of the first k events on their way has the number n.
OnItsWay(n, k) == \E j \in 1..k : Numbered(Pending[j]) /\ Pending[j].seq = n

\* Nothing is left out below what was yielded and below what is on its way.
LossInv ==
  /\ \A n \in 1..gen.last : Settled(n)
  /\ \A i \in 1..Len(Pending) : Numbered(Pending[i]) =>
       \A n \in 1..(Pending[i].seq - 1) : Settled(n) \/ OnItsWay(n, i - 1)
  /\ stream.kind = "subscribe" /\ stream.active =>
       \A n \in 1..Now : Settled(n) \/ OnItsWay(n, Len(Pending))

-----------------------------------------------------------------------------
(* Replay: the fold over the topics *)

\* A set of numbers has a least element.
HasLeast(T) == \E n \in T : \A m \in T : n <= m

\* A set of sets has a minimal element.
HasMinimal(F) == \E s \in F : \A u \in F : u \subseteq s => u = s

\* The least elements an induction on a finite set, or on the natural numbers,
\* needs: ClientProofs shows that there are.
LeastElements ==
  /\ \A T : T \subseteq Nat /\ T # {} => HasLeast(T)
  /\ \A D : IsFiniteSet(D) => \A F : F \subseteq SUBSET D /\ F # {} => HasMinimal(F)
  /\ \A D : IsFiniteSet(D) => \A U \in SUBSET D : IsFiniteSet(U)

\* The topic at which FoldSet takes a set apart.
Pick(s) == CHOOSE x \in s : TRUE

\* g joins the sequences h of the subsets of S.
IsJoin(h, S, g) ==
  g = [s \in SUBSET S |-> IF s = {} THEN <<>> ELSE g[s \ {Pick(s)}] \o h[Pick(s)]]

\* g and j agree on the subsets of U.
Agree(g, j, U) == \A s \in SUBSET U : g[s] = j[s]

\* The events of a set of topics are those of its topics; of one topic, its own.
LEMMA AllEventsJoin ==
  \A ts, after : 
    LeastElements /\ IsFiniteSet(ts) /\ (\A t \in ts : Events(t, after) \in Seq(Messages)) =>
    /\ AllEvents(ts, after) \in Seq(Messages)
    /\ \A t : ts = {t} => AllEvents(ts, after) = Events(t, after)
\* What FoldSet expands to, for the events of a set of topics.
<1>AllEventsDef. ASSUME NEW ts, NEW after
                 PROVE  AllEvents(ts, after) = (CHOOSE g : IsJoin([t \in ts |-> Events(t, after)], ts, g))[ts]
  <2> USE <1>AllEventsDef
  <2> DEFINE h == [t \in ts |-> Events(t, after)]
             g1(g) == g = [s \in SUBSET ts |-> IF s = {} THEN <<>>
                                               ELSE g[s \ {Pick(s)}] \o Events(Pick(s), after)]
  <2>1. AllEvents(ts, after) = (CHOOSE g : g1(g))[ts]
    BY DEF AllEvents, FoldSet, MapThenFoldSet, Pick
  <2>2. \A s \in SUBSET ts : s # {} => h[Pick(s)] = Events(Pick(s), after)
    <3> TAKE s \in SUBSET ts
    <3> HAVE s # {}
    <3>1. Pick(s) \in ts
      BY DEF Pick
    <3> QED BY <3>1
  <2> HIDE DEF h
  <2>3. ASSUME NEW g PROVE IsJoin(h, ts, g) <=> g1(g)
    <3>1. [s \in SUBSET ts |-> IF s = {} THEN <<>> ELSE g[s \ {Pick(s)}] \o Events(Pick(s), after)]
          = [s \in SUBSET ts |-> IF s = {} THEN <<>> ELSE g[s \ {Pick(s)}] \o h[Pick(s)]]
       BY <2>2
    <3> QED BY <3>1 DEF IsJoin
  <2> HIDE DEF g1
  <2>4. (CHOOSE g : g1(g)) = (CHOOSE g : IsJoin(h, ts, g))
    BY <2>3
  <2> QED BY <2>1, <2>4 DEF h
\* The joins over the subsets of a smaller set agree with those of a larger one.
<1>JoinSame. ASSUME LeastElements, NEW h, NEW S, IsFiniteSet(S), NEW U \in SUBSET S,
                    NEW g, IsJoin(h, S, g), NEW j, IsJoin(h, U, j)
             PROVE  Agree(g, j, U)
  <2> USE <1>JoinSame
  <2> DEFINE F == {s \in SUBSET U : g[s] # j[s]}
  <2> SUFFICES ASSUME F # {} PROVE FALSE
    BY DEF Agree
  <2>1. PICK s \in F : \A u \in F : u \subseteq s => u = s
    <3>1. IsFiniteSet(U)
      BY DEF LeastElements
    <3>2. F \subseteq SUBSET U
      OBVIOUS
    <3> HIDE DEF F
    <3>3. HasMinimal(F)
      BY <3>1, <3>2 DEF LeastElements
    <3> QED BY <3>3 DEF HasMinimal
  <2>2. s # {}
    BY <2>1 DEF IsJoin
  <2>3. Pick(s) \in s
    BY <2>2 DEF Pick
  <2> DEFINE u == s \ {Pick(s)}
  <2>4. g[s] = g[u] \o h[Pick(s)] /\ j[s] = j[u] \o h[Pick(s)]
    BY <2>1, <2>2 DEF IsJoin
  <2>5. u \in SUBSET U /\ u \subseteq s /\ u # s
    BY <2>1, <2>3
  <2>6. g[u] = j[u]
    BY <2>1, <2>5
  <2> QED BY <2>1, <2>4, <2>6
\* The recursion of FoldSet defines a function on a finite set.
<1>JoinExists. ASSUME LeastElements, NEW h, NEW D, IsFiniteSet(D)
               PROVE  \E g : IsJoin(h, D, g)
  <2> USE <1>JoinExists
  <2> DEFINE F == {S \in SUBSET D : ~\E g : IsJoin(h, S, g)}
  <2> SUFFICES ASSUME F # {} PROVE FALSE
    OBVIOUS
  <2>1. PICK S \in F : \A U \in F : U \subseteq S => U = S
    <3>1. F \subseteq SUBSET D
      OBVIOUS
    <3> HIDE DEF F
    <3>2. HasMinimal(F)
      BY <3>1 DEF LeastElements
    <3> QED BY <3>2 DEF HasMinimal
  <2> DEFINE G(U) == CHOOSE g : IsJoin(h, U, g)
             g == [s \in SUBSET S |-> IF s = {} THEN <<>>
                                      ELSE G(s \ {Pick(s)})[s \ {Pick(s)}] \o h[Pick(s)]]
  <2>2. \A U \in SUBSET S : U # S => IsJoin(h, U, G(U))
    BY <2>1
  <2> HIDE DEF G
  <2>3. \A s \in SUBSET S : s # {} => Pick(s) \in s
    BY DEF Pick
  <2>4. ASSUME NEW U \in SUBSET S, U # S
        PROVE  g[U] = G(U)[U]
    <3>1. IsJoin(h, U, G(U))
      BY <2>2, <2>4
    <3>2. CASE U = {}
      <4>1. G(U)[U] = <<>>
        BY <3>1, <3>2 DEF IsJoin
      <4> QED BY <4>1, <3>2
    <3>3. CASE U # {}
      <4> DEFINE V == U \ {Pick(U)}
      <4>1. V \in SUBSET U /\ V # S /\ V \in SUBSET S
        BY <2>3, <2>4, <3>3
      <4>2. G(U)[U] = G(U)[V] \o h[Pick(U)]
        BY <3>1, <3>3 DEF IsJoin
      <4>3. IsJoin(h, V, G(V))
        BY <4>1, <2>2
      <4>4. IsFiniteSet(U)
        BY DEF LeastElements
      <4>5. G(U)[V] = G(V)[V]
        <5>1. V \in SUBSET U
          BY <4>1
        <5> HIDE DEF V, g
        <5>2. Agree(G(U), G(V), V)
          BY <4>3, <4>4, <5>1, <3>1, <1>JoinSame
        <5> QED BY <5>2 DEF Agree
      <4>6. g[U] = G(V)[V] \o h[Pick(U)]
        BY <3>3
      <4> QED BY <4>2, <4>5, <4>6
    <3> QED BY <3>2, <3>3
  <2>5. IsJoin(h, S, g)
    <3>1. \A s \in SUBSET S : s # {} =>
              g[s \ {Pick(s)}] = G(s \ {Pick(s)})[s \ {Pick(s)}]
      <4>1. ASSUME NEW s \in SUBSET S, s # {}
            PROVE  g[s \ {Pick(s)}] = G(s \ {Pick(s)})[s \ {Pick(s)}]
        <5>1. s \ {Pick(s)} \in SUBSET S /\ s \ {Pick(s)} # S
          BY SMT, <2>3, <4>1
        <5> HIDE DEF g
        <5> QED BY SMT, <5>1, <2>4
      <4> QED BY <4>1
    <3>2. g = [s \in SUBSET S |-> IF s = {} THEN <<>>
                                      ELSE G(s \ {Pick(s)})[s \ {Pick(s)}] \o h[Pick(s)]]
      OBVIOUS
    <3> HIDE DEF g
    <3> QED BY <3>1, <3>2 DEF IsJoin
  <2> QED BY <2>1, <2>5
<1> SUFFICES ASSUME NEW ts, NEW after, LeastElements, IsFiniteSet(ts),
                    \A t \in ts : Events(t, after) \in Seq(Messages)
             PROVE  /\ AllEvents(ts, after) \in Seq(Messages)
                    /\ \A t : ts = {t} => AllEvents(ts, after) = Events(t, after)
  OBVIOUS
<1> DEFINE h == [t \in ts |-> Events(t, after)]
           g == CHOOSE g : IsJoin(h, ts, g)
<1>1. IsJoin(h, ts, g)
  <2> HIDE DEF h
  <2> QED BY <1>JoinExists
<1>2. AllEvents(ts, after) = g[ts]
  BY <1>AllEventsDef
<1>3. \A t \in ts : h[t] \in Seq(Messages) /\ h[t] = Events(t, after)
  OBVIOUS
<1> HIDE DEF g, h
<1>4. \A s \in SUBSET ts : g[s] = IF s = {} THEN <<>> ELSE g[s \ {Pick(s)}] \o h[Pick(s)]
  BY <1>1 DEF IsJoin
<1>5. \A s \in SUBSET ts : s # {} => Pick(s) \in s
  BY DEF Pick
<1> DEFINE F == {s \in SUBSET ts : g[s] \notin Seq(Messages)}
<1>6. F = {}
  <2> SUFFICES ASSUME F # {} PROVE FALSE
    OBVIOUS
  <2>1. PICK s \in F : \A u \in F : u \subseteq s => u = s
    <3>1. F \subseteq SUBSET ts
      OBVIOUS
    <3> HIDE DEF F
    <3>2. HasMinimal(F)
      BY <3>1 DEF LeastElements
    <3> QED BY <3>2 DEF HasMinimal
  <2>2. s \in SUBSET ts /\ g[s] \notin Seq(Messages)
    BY <2>1
  <2>3. CASE s = {}
    <3>1. g[s] = <<>>
      BY <1>4, <2>2, <2>3
    <3> QED BY SMT, <2>2, <3>1
  <2>4. CASE s # {}
    <3> DEFINE u == s \ {Pick(s)}
    <3>1. Pick(s) \in s /\ u \in SUBSET ts /\ u \subseteq s /\ u # s
      BY SMT, <1>5, <2>2, <2>4
    <3>2. g[u] \in Seq(Messages)
      BY SMT, <2>1, <3>1
    <3>3. g[s] = g[u] \o h[Pick(s)] /\ h[Pick(s)] \in Seq(Messages)
      BY <1>3, <1>4, <2>2, <2>4, <3>1
    <3> HIDE DEF u
    <3> QED BY SMT, <2>2, <3>2, <3>3
  <2> QED BY <2>3, <2>4
<1>7. g[ts] \in Seq(Messages)
  BY <1>6
<1>8. ASSUME NEW t, ts = {t} PROVE g[ts] = Events(t, after)
  <2>1. Pick(ts) = t /\ ts \ {t} = {} /\ ts # {} /\ {} \in SUBSET ts /\ ts \in SUBSET ts /\ t \in ts
    BY <1>5, <1>8
  <2>2. g[ts] = g[{}] \o h[t] /\ g[{}] = <<>>
    BY <1>4, <2>1
  <2>3. h[t] \in Seq(Messages) /\ h[t] = Events(t, after)
    BY <1>3, <2>1
  <2>4. <<>> \o h[t] = h[t]
    BY SMT, <2>3
  <2> QED BY <2>2, <2>3, <2>4
<1> QED BY <1>2, <1>7, <1>8

-----------------------------------------------------------------------------
(* Replay: what the gap recovery finds *)

\* Messages with the numbers after base, one after the other.
Run(ms, base) ==
  /\ Len(ms) \in Nat /\ DOMAIN ms = 1..Len(ms)
  /\ \A k \in 1..Len(ms) : ms[k].seq = base + k

\* How many messages of a run that follows base are not after the number after.
Skips(k, after, base) == (after > base => k = after - base) /\ (after <= base => k = 0)

\* No messages are a run.
LEMMA NoRun == Run(<<>>, 0) /\ Len(<<>>) = 0 /\ \A n \in Nat : Run(<<>>, n)
BY SMT DEF Run

\* What a topic's recovery sends, in every mode.
LEMMA RecoveryRun ==
  \A t \in Topics, after \in Nat : 
    LeastElements /\ ControlInv /\ Rings =>
    LET r == Recovery(t, after) IN
    /\ \E base \in Nat : Run(r.messages, base) /\ base + Len(r.messages) <= Reached(t)
    /\ config.mode = "REPLAY_BUFFER" /\ after \in 1..Reached(t) =>
         /\ r.missed \in Nat /\ Run(r.messages, after + r.missed)
         /\ after + r.missed + Len(r.messages) = Reached(t)
\* Append is concatenation.
<1>AppendJoins. ASSUME NEW M, NEW q \in Seq(M), NEW e
                PROVE  Append(q, e) = q \o <<e>>
  BY <1>AppendJoins, SMT
\* One pass of getMessagesAfter() over consecutive numbers keeps a suffix.
<1>MessagesAfterSuffix. ASSUME LeastElements, NEW b, b.messages \in Seq(Buffer!BufferedMessage),
                               NEW base \in Nat, NEW after \in Nat, NEW k \in Nat,
                               \A i \in 1..Len(b.messages) : b.messages[i].seq = base + i,
                               after > base => k = after - base, after <= base => k = 0
                        PROVE  Buffer!MessagesAfter(b, after) = SubSeq(b.messages, k + 1, Len(b.messages))
  <2> USE <1>MessagesAfterSuffix
  <2> DEFINE ms == b.messages
             n == Len(ms)
             Body(g) == [i \in 0..n |-> IF i = 0 THEN <<>>
                                        ELSE IF ms[i].seq > after
                                             THEN Append(g[i - 1], ms[i])
                                             ELSE g[i - 1]]
             kept == CHOOSE g : g = Body(g)
             sub == [i \in 0..n |-> SubSeq(ms, k + 1, i)]
  <2>1. Buffer!MessagesAfter(b, after) = kept[n]
    BY DEF Buffer!MessagesAfter
  <2>2. n \in Nat /\ \A i \in 1..n : ms[i] \in Buffer!BufferedMessage
    BY SMT
  <2>3. ASSUME NEW i \in 0..n, NEW x, i # 0 => x = SubSeq(ms, k + 1, i - 1)
        PROVE  SubSeq(ms, k + 1, i)
                 = IF i = 0 THEN <<>> ELSE IF ms[i].seq > after THEN Append(x, ms[i]) ELSE x
    <3>1. CASE i = 0
      <4>1. SubSeq(ms, k + 1, i) = <<>>
        BY SMT, <3>1
      <4> QED BY <3>1, <4>1
    <3>2. CASE i # 0 /\ i <= k
      <4>1. ~(ms[i].seq > after)
        BY SMT, <2>2, <3>2
      <4>2. SubSeq(ms, k + 1, i) = <<>> /\ SubSeq(ms, k + 1, i - 1) = <<>>
        BY SMT, <3>2
      <4> QED BY <2>3, <3>2, <4>1, <4>2
    <3>3. CASE i # 0 /\ i > k
      <4>1. ms[i].seq > after
        BY SMT, <2>2, <3>3
      <4>2. k + 1 \in 1..n /\ i \in (k + 1)..n
        BY SMT, <2>2, <3>3
      <4>3. SubSeq(ms, k + 1, i) = SubSeq(ms, k + 1, i - 1) \o <<ms[i]>>
        BY SMTT(20), <4>2
      <4>4. SubSeq(ms, k + 1, i - 1) \in Seq(Buffer!BufferedMessage)
        <5>1. \A j \in (k + 1)..(i - 1) : ms[j] \in Buffer!BufferedMessage
          BY SMT, <2>2, <4>2
        <5> QED BY SMT, <4>2, <5>1
      <4>5. Append(x, ms[i]) = SubSeq(ms, k + 1, i - 1) \o <<ms[i]>>
        <5>1. x = SubSeq(ms, k + 1, i - 1)
          BY <2>3, <3>3
        <5> QED BY <4>4, <5>1, <1>AppendJoins
      <4> QED BY <3>3, <4>1, <4>3, <4>5
    <3>4. i = 0 \/ (i # 0 /\ i <= k) \/ (i # 0 /\ i > k)
      BY SMT, <2>2
    <3> QED BY <3>1, <3>2, <3>3, <3>4
  <2> HIDE DEF ms, n
  <2>4. sub = Body(sub)
    <3>1. ASSUME NEW i \in 0..n
          PROVE  sub[i] = Body(sub)[i]
      <4>1. i # 0 => sub[i - 1] = SubSeq(ms, k + 1, i - 1)
        <5>1. i # 0 => i - 1 \in 0..n
          BY SMT, <2>2
        <5> QED BY <5>1
      <4>2. SubSeq(ms, k + 1, i)
              = IF i = 0 THEN <<>>
                ELSE IF ms[i].seq > after THEN Append(sub[i - 1], ms[i]) ELSE sub[i - 1]
        <5> HIDE DEF sub
        <5> QED BY <2>3, <4>1
      <4> QED BY <4>2
    <3> QED BY <3>1
  <2>5. kept = Body(kept)
    <3> HIDE DEF Body, sub
    <3> QED BY <2>4
  <2> DEFINE T == {i \in 0..n : kept[i] # SubSeq(ms, k + 1, i)}
  <2>6. T = {}
    <3> SUFFICES ASSUME T # {} PROVE FALSE
      OBVIOUS
    <3>1. PICK i \in T : \A j \in T : i <= j
      <4>1. T \subseteq Nat
        <5> HIDE DEF kept, n, ms
        <5> QED BY SMT, <2>2
      <4> HIDE DEF T
      <4>2. HasLeast(T)
        BY <4>1 DEF LeastElements
      <4> QED BY <4>2 DEF HasLeast
    <3>2. i \in 0..n /\ kept[i] # SubSeq(ms, k + 1, i)
      BY <3>1
    <3>3. i # 0 => kept[i - 1] = SubSeq(ms, k + 1, i - 1)
      <4>1. i - 1 \in T => i <= i - 1
        BY <3>1
      <4>2. i # 0 => i - 1 \in 0..n /\ ~(i <= i - 1)
        <5>1. i \in 0..n
          BY <3>2
        <5> HIDE DEF T, kept
        <5> QED BY SMT, <2>2, <5>1
      <4>3. i # 0 => i - 1 \in 0..n /\ i - 1 \notin T
        BY <4>1, <4>2
      <4> HIDE DEF kept
      <4> QED BY <4>3
    <3>4. kept[i] = IF i = 0 THEN <<>>
                    ELSE IF ms[i].seq > after THEN Append(kept[i - 1], ms[i]) ELSE kept[i - 1]
      <4> HIDE DEF kept, T
      <4>1. kept[i] = Body(kept)[i]
        <5> HIDE DEF Body
        <5> QED BY <2>5
      <4> QED BY <3>2, <4>1
    <3> HIDE DEF kept, T
    <3>5. SubSeq(ms, k + 1, i)
            = IF i = 0 THEN <<>>
              ELSE IF ms[i].seq > after THEN Append(kept[i - 1], ms[i]) ELSE kept[i - 1]
      BY <2>3, <3>2, <3>3
    <3> QED BY <3>2, <3>4, <3>5
  <2>7. kept[n] = SubSeq(ms, k + 1, n)
    <3> HIDE DEF kept
    <3> QED BY SMT, <2>2, <2>6
  <2> QED BY <2>1, <2>7 DEF ms, n
\* messagesAfter() of a run.
<1>RunAfter. ASSUME LeastElements, NEW b, b.messages \in Seq(Buffer!BufferedMessage),
                    NEW base \in Nat, NEW after \in Nat, NEW k \in Nat,
                    Run(b.messages, base), Skips(k, after, base)
             PROVE  Buffer!MessagesAfter(b, after) = SubSeq(b.messages, k + 1, Len(b.messages))
  <2> USE <1>RunAfter
  <2>1. \A i \in 1..Len(b.messages) : b.messages[i].seq = base + i
    BY DEF Run
  <2>2. after > base => k = after - base
    BY DEF Skips
  <2>3. after <= base => k = 0
    BY DEF Skips
  <2> QED BY <2>1, <2>2, <2>3, <1>MessagesAfterSuffix
\* The end of a run is a run.
<1>RunSuffix. ASSUME NEW ms \in Seq(Buffer!BufferedMessage), NEW base \in Nat, NEW k \in 0..Len(ms),
                     Run(ms, base)
              PROVE  /\ Run(SubSeq(ms, k + 1, Len(ms)), base + k)
                     /\ Len(SubSeq(ms, k + 1, Len(ms))) = Len(ms) - k
  <2> USE <1>RunSuffix
  <2> DEFINE n == Len(ms)
             u == SubSeq(ms, k + 1, n)
  <2>1. n \in Nat /\ \A i \in 1..n : ms[i].seq = base + i
    BY DEF Run
  <2>2. /\ Len(u) = n - k /\ DOMAIN u = 1..Len(u)
        /\ \A i \in 1..(n - k) : u[i] = ms[k + i]
    <3>1. CASE k = n
      <4>1. u = <<>>
        BY SMT, <2>1, <3>1
      <4> HIDE DEF u
      <4> QED BY SMT, <2>1, <3>1, <4>1
    <3>2. CASE k # n
      <4>1. k + 1 \in 1..n /\ n \in (k + 1)..n
        BY SMT, <2>1, <3>2
      <4>2. /\ Len(u) = n - (k + 1) + 1 /\ u \in Seq(Buffer!BufferedMessage)
            /\ \A i \in 1..(n - (k + 1) + 1) : u[i] = ms[(k + 1) + i - 1]
        <5>1. \A i \in (k + 1)..n : ms[i] \in Buffer!BufferedMessage
          BY SMT, <2>1
        <5> QED BY SMT, <4>1, <5>1
      <4>3. DOMAIN u = 1..Len(u)
        <5> HIDE DEF u
        <5> QED BY SMT, <4>2
      <4> HIDE DEF u, n
      <4> QED BY SMT, <2>1, <4>2, <4>3
    <3> QED BY SMT, <3>1, <3>2
  <2> HIDE DEF u
  <2>3. ASSUME NEW i \in 1..Len(u) PROVE u[i].seq = (base + k) + i
    <3>1. i \in 1..(n - k) /\ k + i \in 1..n
      BY SMT, <2>1, <2>2
    <3>2. u[i].seq = base + (k + i)
      BY <2>1, <2>2, <3>1
    <3> QED BY SMT, <2>1, <3>2
  <2>4. Len(u) \in Nat
    BY SMT, <2>1, <2>2
  <2>5. Run(u, base + k)
    BY <2>2, <2>3, <2>4 DEF Run
  <2> QED BY <2>2, <2>5 DEF u
\* A ring is a run that ends with the last number of the topic.
<1>RingRun. ASSUME NEW b, Ring(b)
            PROVE  /\ b.messages \in Seq(Buffer!BufferedMessage) /\ b.messages # <<>>
                   /\ b.next - 1 - Len(b.messages) \in Nat /\ Len(b.messages) \in Nat \ {0}
                   /\ Run(b.messages, b.next - 1 - Len(b.messages))
                   /\ Buffer!CurrentSequence(b) = b.next - 1
                   /\ Buffer!OldestSequence(b) = b.next - 1 - Len(b.messages) + 1
  <2> USE <1>RingRun
  <2> DEFINE ms == b.messages
             n == Len(ms)
  <2>1. /\ b.next \in Nat /\ ms \in Seq(Buffer!BufferedMessage) /\ n \in 1..(b.next - 1)
        /\ \A i \in 1..n : ms[i].seq = b.next - 1 - n + i
    BY DEF Ring, Buffer!BufferedMessage
  <2>2. ms # <<>> /\ DOMAIN ms = 1..n /\ Head(ms) = ms[1] /\ n \in Nat
    BY SMT, <2>1
  <2>3. n \in Nat \ {0} /\ b.next - 1 - n \in Nat /\ 1 \in 1..n
    <3> HIDE DEF n
    <3> QED BY SMT, <2>1
  <2>4. Buffer!OldestSequence(b) = b.next - 1 - n + 1
    BY <2>1, <2>2, <2>3 DEF Buffer!OldestSequence
  <2>5. Buffer!CurrentSequence(b) = b.next - 1
    BY DEF Buffer!CurrentSequence
  <2> HIDE DEF n
  <2> QED BY <2>1, <2>2, <2>3, <2>4, <2>5 DEF Run, n
\* The newest message.
<1>LatestRun. ASSUME NEW b, Ring(b)
              PROVE  Run(Buffer!Latest(b), b.next - 2) /\ Len(Buffer!Latest(b)) = 1 /\ b.next - 2 \in Nat
  <2> USE <1>LatestRun
  <2> DEFINE n == Len(b.messages)
  <2>1. /\ b.messages \in Seq(Buffer!BufferedMessage) /\ b.next - 1 - n \in Nat /\ n \in Nat \ {0} /\ b.next \in Nat
        /\ Run(b.messages, b.next - 1 - n)
    BY <1>RingRun DEF Ring
  <2>2. n - 1 \in 0..n /\ (n - 1) + 1 = n /\ n - (n - 1) = 1 /\ b.next - 2 \in Nat
        /\ (b.next - 1 - n) + (n - 1) = b.next - 2
    <3> HIDE DEF n
    <3> QED BY SMT, <2>1
  <2>3. /\ Run(SubSeq(b.messages, (n - 1) + 1, n), (b.next - 1 - n) + (n - 1))
        /\ Len(SubSeq(b.messages, (n - 1) + 1, n)) = n - (n - 1)
    BY <2>1, <2>2, <1>RunSuffix
  <2>4. Buffer!Latest(b) = SubSeq(b.messages, n, n)
    BY DEF Buffer!Latest
  <2> HIDE DEF n
  <2> QED BY <2>2, <2>3, <2>4
\* getMessagesForReplay() of a ring: from after + missed to the last number.
<1>ReplayRun. ASSUME LeastElements, NEW b, Ring(b), NEW after \in Nat, after < b.next - 1
              PROVE  LET missed == IF after < b.next - Len(b.messages) THEN b.next - Len(b.messages) - after - 1 ELSE 0
                         ms == Buffer!MessagesAfter(b, after)
                     IN  missed \in Nat /\ Run(ms, after + missed) /\ after + missed + Len(ms) = b.next - 1
  <2> USE <1>ReplayRun
  <2> DEFINE n == Len(b.messages)
             base == b.next - 1 - n
             missed == IF after < b.next - n THEN b.next - n - after - 1 ELSE 0
             ms == Buffer!MessagesAfter(b, after)
             k == IF after > base THEN after - base ELSE 0
  <2>1. /\ b.messages \in Seq(Buffer!BufferedMessage) /\ base \in Nat /\ n \in Nat \ {0} /\ b.next \in Nat
        /\ Run(b.messages, base)
    BY <1>RingRun DEF Ring
  <2>2. k \in 0..n /\ k \in Nat /\ base + k = after + missed /\ missed \in Nat
        /\ (after + missed) + (n - k) = b.next - 1
    <3>0. n \in Nat \ {0} /\ b.next \in Nat /\ base \in Nat
      BY <2>1
    <3> HIDE DEF n
    <3> QED BY SMT, <3>0
  <2>3. Skips(k, after, base)
    <3>0. base \in Nat
      BY <2>1
    <3> HIDE DEF base
    <3> QED BY SMT, <3>0 DEF Skips
  <2> HIDE DEF base, k, missed
  <2>5. ms = SubSeq(b.messages, k + 1, n)
    BY SMT, <2>1, <2>2, <2>3, <1>RunAfter
  <2>6. /\ Run(SubSeq(b.messages, k + 1, n), base + k) /\ Len(SubSeq(b.messages, k + 1, n)) = n - k
    BY <2>1, <2>2, <1>RunSuffix
  <2> HIDE DEF ms, n
  <2>7. missed \in Nat /\ Run(ms, after + missed) /\ after + missed + Len(ms) = b.next - 1
    <3>1. Run(ms, after + missed) /\ Len(ms) = n - k
      BY <2>2, <2>5, <2>6
    <3> QED BY <2>2, <3>1
  <2> QED BY <2>7 DEF missed, ms, n
<1> SUFFICES ASSUME NEW t \in Topics, NEW after \in Nat, LeastElements, ControlInv, Rings
             PROVE  LET r == Recovery(t, after) IN
                    /\ \E base \in Nat : Run(r.messages, base) /\ base + Len(r.messages) <= Reached(t)
                    /\ config.mode = "REPLAY_BUFFER" /\ after \in 1..Reached(t) =>
                         /\ r.missed \in Nat /\ Run(r.messages, after + r.missed)
                         /\ after + r.missed + Len(r.messages) = Reached(t)
  OBVIOUS
<1> DEFINE r == Recovery(t, after)
           Goal == /\ \E base \in Nat : Run(r.messages, base) /\ base + Len(r.messages) <= Reached(t)
                   /\ config.mode = "REPLAY_BUFFER" /\ after \in 1..Reached(t) =>
                        /\ r.missed \in Nat /\ Run(r.messages, after + r.missed)
                        /\ after + r.missed + Len(r.messages) = Reached(t)
<1> SUFFICES Goal
  OBVIOUS
<1>1. config.mode \in {"NONE", "RETAINED_ONLY", "REPLAY_BUFFER"}
  <2>1. config \in Configs
    BY DEF ControlInv, Types
  <2> QED BY <2>1, ClientAssumption
<1>2. Reached(t) \in Nat /\ 0 + 0 <= Reached(t)
  <2>1. CASE t \in DOMAIN buffers
    <3>1. Ring(buffers[t]) /\ Reached(t) = buffers[t].next - 1
      BY <2>1 DEF Rings, Reached, Buffer!CurrentSequence
    <3>2. buffers[t].next - 2 \in Nat /\ buffers[t].next \in Nat
      BY <3>1, <1>LatestRun DEF Ring
    <3> QED BY SMT, <3>1, <3>2
  <2>2. CASE t \notin DOMAIN buffers
    BY SMT, <2>2 DEF Reached
  <2> QED BY <2>1, <2>2
<1>3. ASSUME r.messages = <<>>,
             config.mode = "REPLAY_BUFFER" => r.missed = 0 /\ ~(after \in 1..(Reached(t) - 1))
      PROVE  Goal
  <2>1. Run(r.messages, 0) /\ 0 + Len(r.messages) <= Reached(t)
    BY <1>2, <1>3, NoRun
  <2>2. ASSUME config.mode = "REPLAY_BUFFER", after \in 1..Reached(t)
        PROVE  after + r.missed \in Nat /\ after + r.missed + Len(r.messages) = Reached(t) /\ r.missed \in Nat
    <3>1. r.missed = 0 /\ Len(r.messages) = 0
      BY <1>3, <2>2, NoRun
    <3>2. after = Reached(t)
      BY SMT, <1>2, <1>3, <2>2
    <3> HIDE DEF r
    <3> QED BY SMT, <3>1, <3>2
  <2> HIDE DEF r
  <2>3. \A n \in Nat : Run(r.messages, n)
    BY SMT, <1>3, NoRun
  <2>4. 0 \in Nat
    OBVIOUS
  <2> QED BY <2>1, <2>2, <2>3, <2>4
<1>4. CASE config.mode = "NONE"
  <2>1. r = [messages |-> <<>>, missed |-> 0]
    BY <1>4 DEF Recovery
  <2>2. r.messages = <<>>
    BY SMT, <2>1
  <2>3. config.mode # "REPLAY_BUFFER"
    BY <1>4
  <2> HIDE DEF r
  <2> QED BY <1>3, <2>2, <2>3
<1>5. CASE t \notin DOMAIN buffers
  <2>1. Reached(t) = 0
    BY <1>5 DEF Reached
  <2>2. r.messages = <<>> /\ (config.mode = "REPLAY_BUFFER" => r.missed = 0)
    <3>1. CASE config.mode = "RETAINED_ONLY"
      <4>1. r = [messages |-> Buffer!RetainedMessage(t), missed |-> 0]
        BY <3>1 DEF Recovery
      <4>2. Buffer!RetainedMessage(t) = <<>>
        BY <1>5 DEF Buffer!RetainedMessage
      <4>3. config.mode # "REPLAY_BUFFER"
        BY <3>1
      <4> QED BY SMT, <4>1, <4>2, <4>3
    <3>2. CASE config.mode = "REPLAY_BUFFER"
      <4>1. r = Buffer!MessagesForReplay(t, after)
        BY <3>2 DEF Recovery
      <4>2. Buffer!MessagesForReplay(t, after) = Buffer!Answer(<<>>, FALSE, 0)
        BY <1>5 DEF Buffer!MessagesForReplay
      <4> QED BY SMT, <4>1, <4>2 DEF Buffer!Answer
    <3>3. CASE config.mode = "NONE"
      BY <3>3 DEF Recovery
    <3> QED BY <1>1, <3>1, <3>2, <3>3
  <2>3. ~(after \in 1..(Reached(t) - 1))
    BY SMT, <2>1
  <2> HIDE DEF r
  <2> QED BY <1>3, <2>2, <2>3
<1>6. CASE t \in DOMAIN buffers /\ config.mode # "NONE"
  <2> DEFINE b == buffers[t]
  <2>1. Ring(b) /\ Reached(t) = b.next - 1 /\ b.next \in Nat
    BY SMT, <1>6, <1>RingRun DEF Rings, Ring, Reached
  <2>2. Run(Buffer!Latest(b), b.next - 2) /\ Len(Buffer!Latest(b)) = 1 /\ b.next - 2 \in Nat
        /\ (b.next - 2) + 1 <= Reached(t)
    <3>1. Run(Buffer!Latest(b), b.next - 2) /\ Len(Buffer!Latest(b)) = 1 /\ b.next - 2 \in Nat
      BY SMT, <2>1, <1>LatestRun
    <3> HIDE DEF b
    <3> QED BY SMT, <2>1, <3>1
  <2> HIDE DEF b
  <2>3. CASE config.mode = "RETAINED_ONLY"
    <3>1. r = [messages |-> Buffer!RetainedMessage(t), missed |-> 0]
      BY <2>3 DEF Recovery
    <3>2. Buffer!RetainedMessage(t) = Buffer!Latest(b)
      BY <1>6 DEF Buffer!RetainedMessage, b
    <3>3. config.mode # "REPLAY_BUFFER" /\ r.messages = Buffer!Latest(b)
      BY SMT, <2>3, <3>1, <3>2
    <3> HIDE DEF r
    <3> QED BY <2>2, <3>3
  <2>4. CASE config.mode = "REPLAY_BUFFER"
    <3>1. r = Buffer!MessagesForReplay(t, after)
      BY <2>4 DEF Recovery
    <3>2. CASE after = 0
      <4>0. ~(after >= Buffer!CurrentSequence(b))
        BY SMT, <2>1, <2>2, <3>2 DEF Buffer!CurrentSequence
      <4>1. r = Buffer!Answer(Buffer!Latest(b), FALSE, 0)
        <5> HIDE DEF r
        <5> QED BY <1>6, <3>1, <3>2, <4>0 DEF Buffer!MessagesForReplay, b
      <4>2. r.messages = Buffer!Latest(b)
        BY SMT, <4>1 DEF Buffer!Answer
      <4>3. ~(after \in 1..Reached(t))
        BY SMT, <3>2
      <4> HIDE DEF r
      <4> QED BY <2>2, <4>2, <4>3
    <3>3. CASE after # 0 /\ after >= Buffer!CurrentSequence(b)
      <4>1. r = Buffer!Answer(<<>>, FALSE, 0)
        BY <1>6, <3>1, <3>3 DEF Buffer!MessagesForReplay, b
      <4>2. r.messages = <<>> /\ r.missed = 0
        BY SMT, <4>1 DEF Buffer!Answer
      <4>3. ~(after \in 1..(Reached(t) - 1))
        BY SMT, <2>1, <3>3 DEF Buffer!CurrentSequence
      <4> HIDE DEF r
      <4> QED BY <1>3, <4>2, <4>3
    <3>4. CASE after # 0 /\ ~(after >= Buffer!CurrentSequence(b))
      <4> DEFINE ms == Buffer!MessagesAfter(b, after)
                 old == b.next - Len(b.messages)
                 missed == IF after < old THEN old - after - 1 ELSE 0
      <4>1. Buffer!OldestSequence(b) = old /\ Buffer!CurrentSequence(b) = b.next - 1
        <5>1. Buffer!OldestSequence(b) = b.next - 1 - Len(b.messages) + 1 /\ Len(b.messages) \in Nat
          BY <2>1, <1>RingRun
        <5>2. Buffer!CurrentSequence(b) = b.next - 1
          BY DEF Buffer!CurrentSequence
        <5> QED BY SMT, <2>1, <5>1, <5>2
      <4>2. after < b.next - 1
        BY SMT, <2>1, <3>4, <4>1
      <4>3. missed \in Nat /\ Run(ms, after + missed) /\ after + missed + Len(ms) = b.next - 1
        BY <2>1, <4>2, <1>ReplayRun
      <4> HIDE DEF ms
      <4>4. r.messages = ms /\ r.missed = missed
        <5>1. r = IF after < Buffer!OldestSequence(b)
                  THEN Buffer!Answer(ms, TRUE, Buffer!OldestSequence(b) - after - 1)
                  ELSE Buffer!Answer(ms, FALSE, 0)
          BY <1>6, <3>1, <3>4 DEF Buffer!MessagesForReplay, b, ms
        <5> QED BY SMT, <4>1, <5>1 DEF Buffer!Answer
      <4> HIDE DEF missed, r
      <4>5. after + missed \in Nat /\ (after + missed) + Len(ms) <= Reached(t) /\ (after + missed) + Len(ms) = Reached(t)
        BY SMT, <2>1, <4>3
      <4> QED BY <4>3, <4>4, <4>5
    <3> QED BY <3>2, <3>3, <3>4
  <2> QED BY <1>1, <1>6, <2>3, <2>4
<1> QED BY <1>4, <1>5, <1>6

-----------------------------------------------------------------------------
(* Replay: what a resumption brings *)

EventType == IF config.mode = "RETAINED_ONLY" THEN "retained" ELSE "replay"

\* The events of a topic carry the numbers after base.
Carries(es, t, base) ==
  es \in Seq(Messages) /\ \A k \in 1..Len(es) : es[k] = Event(EventType, t, base + k)

\* The events that are made of a run.
LEMMA EventsOfRun ==
  ASSUME NEW t \in Topics, NEW after, NEW base \in Nat, Run(Recovery(t, after).messages, base)
  PROVE  /\ Carries(Events(t, after), t, base)
         /\ Len(Events(t, after)) = Len(Recovery(t, after).messages)
<1> DEFINE ms == Recovery(t, after).messages
           n == Len(ms)
           es == [k \in 1..n |-> Event(EventType, t, ms[k].seq)]
<1>1. n \in Nat /\ DOMAIN ms = 1..n /\ \A k \in 1..n : ms[k].seq = base + k
  BY DEF Run
<1>2. Events(t, after) = es
  BY <1>1 DEF Events, EventType
<1> HIDE DEF ms, n
<1>3. \A k \in 1..n : es[k] = Event(EventType, t, base + k)
  BY <1>1
<1>4. \A k \in 1..n : Event(EventType, t, base + k) \in Messages
  <2> SUFFICES ASSUME NEW k \in 1..n PROVE Event(EventType, t, base + k) \in Messages
    OBVIOUS
  <2>1. base + k \in Nat \ {0}
    BY SMT, <1>1
  <2>2. EventType \in {"message", "replay", "retained"}
    BY DEF EventType
  <2> HIDE DEF EventType
  <2> QED BY SMT, <2>1, <2>2 DEF Event, Messages
<1>5. es \in Seq(Messages) /\ Len(es) = n
  <2>1. es \in [1..n -> Messages]
    BY SMT, <1>3, <1>4
  <2>2. DOMAIN es = 1..n
    OBVIOUS
  <2> HIDE DEF es
  <2> QED BY SMT, <1>1, <2>1, <2>2
<1> HIDE DEF es
<1>6. Carries(es, t, base)
  <2>1. \A k \in 1..Len(es) : es[k] = Event(EventType, t, base + k)
    BY <1>3, <1>5
  <2> QED BY <1>5, <2>1 DEF Carries
<1> QED BY <1>2, <1>5, <1>6 DEF ms, n

\* What is resumed is a sequence of messages.
Replayable == \A n \in Nat : AllEvents(Topics, n) \in Seq(Messages)

\* Every mode sends messages.
LEMMA RingsReplay ==
  ASSUME LeastElements, ControlInv, Rings
  PROVE  Replayable
<1> SUFFICES ASSUME NEW after \in Nat PROVE AllEvents(Topics, after) \in Seq(Messages)
  BY DEF Replayable
<1>1. ASSUME NEW t \in Topics PROVE Events(t, after) \in Seq(Messages)
  <2>1. PICK base \in Nat : Run(Recovery(t, after).messages, base)
    BY RecoveryRun
  <2> QED BY SMT, <2>1, EventsOfRun DEF Carries
<1>2. IsFiniteSet(Topics)
  BY ClientAssumption
<1> QED BY SMT, <1>1, <1>2, AllEventsJoin

\* The events bring the client up to the last number, but for what is settled.
Catches(es, base) ==
  /\ es \in Seq(Messages) /\ \A k \in 1..Len(es) : es[k] = Event("replay", TheTopic, base + k)
  /\ gen.last <= base /\ base + Len(es) <= Now
  /\ \A n \in 1..Now : Settled(n)' \/ n \in (base + 1)..(base + Len(es))

\* The last number of the topic is a number.
LEMMA NowType ==
  ASSUME Rings
  PROVE  Now \in Nat
BY SMT DEF Now, Reached, Rings, Ring, Buffer!CurrentSequence

\* REPLAY_BUFFER, from the number of the client or, if it has none, from any.
LEMMA RecoveryCatches ==
  ASSUME LeastElements, ControlInv, Rings, OneTopic, LossInv, gen.last <= Now,
         config.mode = "REPLAY_BUFFER",
         excused' = excused \cup Excuses, yielded' = yielded,
         NEW after \in Nat, gen.last # 0 => after = gen.last
  PROVE  \E base \in Nat : Catches(Events(TheTopic, after), base)
<1> DEFINE r == Recovery(TheTopic, after)
           es == Events(TheTopic, after)
<1>1. TheTopic \in Topics /\ Now \in Nat /\ gen.last \in Nat /\ Reached(TheTopic) = Now
  <2>1. gen.last \in Nat
    BY SMT DEF ControlInv, Types, GenType
  <2> QED BY <2>1, NowType DEF OneTopic, Now
<1>2. EventType = "replay"
  BY DEF EventType
<1>3. ASSUME NEW n, Settled(n) PROVE Settled(n)'
  BY <1>3 DEF Settled, Yielded
<1>4. CASE gen.last = 0
  <2>1. PICK base \in Nat : Run(r.messages, base) /\ base + Len(r.messages) <= Now
    BY SMT, <1>1, RecoveryRun
  <2>2. Carries(es, TheTopic, base) /\ Len(es) = Len(r.messages)
    BY SMT, <1>1, <2>1, EventsOfRun
  <2>3. ASSUME NEW n \in 1..Now PROVE Settled(n)'
    <3>1. <<TheTopic, n>> \in Through(TheTopic, 1, Reached(TheTopic))
      BY <1>1 DEF Through
    <3>2. <<TheTopic, n>> \in Excuses
      BY SMT, <1>1, <1>4, <3>1 DEF Excuses
    <3> QED BY <3>2 DEF Settled
  <2> HIDE DEF es, r
  <2>4. gen.last <= base
    BY SMT, <1>4
  <2>5. Catches(es, base)
    BY <1>2, <2>1, <2>2, <2>3, <2>4 DEF Catches, Carries
  <2> QED BY <2>5 DEF es
<1>5. CASE gen.last # 0
  <2>1. after = gen.last /\ after \in 1..Now
    BY SMT, <1>1, <1>5
  <2>2. r.missed \in Nat /\ Run(r.messages, after + r.missed) /\ after + r.missed + Len(r.messages) = Now
    BY <1>1, <2>1, RecoveryRun
  <2> DEFINE base == after + r.missed
  <2>3. base \in Nat /\ gen.last <= base
    <3> HIDE DEF r
    <3> QED BY SMT, <1>1, <2>1, <2>2
  <2>4. Carries(es, TheTopic, base) /\ Len(es) = Len(r.messages)
    BY <1>1, <2>2, <2>3, EventsOfRun
  <2>5. Len(es) \in Nat /\ base + Len(es) = Now
    <3>1. Len(es) \in Nat
      <4>1. es \in Seq(Messages)
        BY <2>4 DEF Carries
      <4> HIDE DEF es
      <4> QED BY SMT, <4>1
    <3> QED BY SMT, <2>2, <2>4, <3>1
  <2>6. ASSUME NEW n \in 1..Now PROVE Settled(n)' \/ n \in (base + 1)..(base + Len(es))
    <3>1. CASE n <= gen.last
      <4>1. n \in 1..gen.last
        BY SMT, <1>1, <3>1
      <4> QED BY SMT, <1>3, <4>1 DEF LossInv
    <3>2. CASE n > gen.last /\ n <= base
      <4>1. n \in (gen.last + 1)..(gen.last + r.missed)
        <5> HIDE DEF r
        <5> QED BY SMT, <1>1, <2>1, <2>2, <3>2
      <4>2. <<TheTopic, n>> \in Through(TheTopic, gen.last + 1, gen.last + Recovery(TheTopic, gen.last).missed)
        BY <2>1, <4>1 DEF Through
      <4>3. <<TheTopic, n>> \in Excuses
        BY <1>1, <1>5, <4>2 DEF Excuses
      <4> QED BY <4>3 DEF Settled
    <3>3. CASE n > gen.last /\ ~(n <= base)
      <4>1. n \in (base + 1)..(base + Len(es))
        <5> HIDE DEF base, es
        <5> QED BY SMT, <1>1, <2>3, <2>5, <3>3
      <4> QED BY SMT, <4>1
    <3>4. n <= gen.last \/ n > gen.last
      BY SMT, <1>1
    <3> QED BY <3>1, <3>2, <3>3, <3>4
  <2> HIDE DEF es, r, base
  <2>7. base + Len(es) <= Now
    BY SMT, <1>1, <2>3, <2>5
  <2>8. Catches(es, base)
    BY <1>2, <2>3, <2>4, <2>6, <2>7 DEF Catches, Carries
  <2> QED BY <2>3, <2>8 DEF es
<1> QED BY <1>4, <1>5

\* Nothing, or retained messages: no numbers.
LEMMA RecoveryUnnumbered ==
  ASSUME LeastElements, ControlInv, Rings, OneTopic, config.mode # "REPLAY_BUFFER", NEW after \in Nat
  PROVE  /\ Events(TheTopic, after) \in Seq(Messages)
         /\ \A k \in 1..Len(Events(TheTopic, after)) : ~Numbered(Events(TheTopic, after)[k])
<1> DEFINE es == Events(TheTopic, after)
<1>1. TheTopic \in Topics
  BY DEF OneTopic
<1>2. PICK base \in Nat : Run(Recovery(TheTopic, after).messages, base)
  BY <1>1, RecoveryRun
<1>3. Carries(es, TheTopic, base) /\ Len(es) = Len(Recovery(TheTopic, after).messages)
  BY <1>1, <1>2, EventsOfRun
<1>4. config.mode \in {"NONE", "RETAINED_ONLY", "REPLAY_BUFFER"}
  <2>1. config \in Configs
    BY DEF ControlInv, Types
  <2> QED BY SMT, <2>1, ClientAssumption
<1>5. CASE config.mode = "NONE"
  <2>1. Recovery(TheTopic, after).messages = <<>>
    BY SMT, <1>5 DEF Recovery
  <2>2. Len(es) = 0
    BY SMT, <1>3, <2>1, NoRun
  <2>3. 1..0 = {}
    BY SMT
  <2> QED BY SMT, <1>3, <2>2, <2>3 DEF Carries
<1>6. CASE config.mode = "RETAINED_ONLY"
  <2>1. EventType = "retained"
    BY <1>6 DEF EventType
  <2>2. \A n : ~Numbered(Event("retained", TheTopic, n))
    BY SMT DEF Numbered, Event
  <2> QED BY SMT, <1>3, <2>1, <2>2 DEF Carries
<1> QED BY <1>4, <1>5, <1>6

-----------------------------------------------------------------------------
(* The registry and its members *)

PutLocal(r, v) == [r EXCEPT !.local = v]
PutPaused(r, v) == [r EXCEPT !.paused = v]
PutIndex(r, v) == [r EXCEPT !.index = v]
PutDirty(r, v) == [r EXCEPT !.dirty = v]
PutPeers(r, v) == [r EXCEPT !.peers = v]
PutRoutes(r, v) == [r EXCEPT !.routes = v]

\* hashDirty_ = true, and a registry where it is.
Mark(r) == PutDirty(r, TRUE)
Marked(l, p, i, pe, ro) == Rec(l, p, i, TRUE, pe, ro)

\* Assignments to the members of a registry.
LEMMA PutFields ==
  ASSUME NEW l, NEW p, NEW i, NEW d, NEW pe, NEW ro, NEW v
  PROVE  /\ PutLocal(Rec(l, p, i, d, pe, ro), v) = Rec(v, p, i, d, pe, ro)
         /\ PutPaused(Rec(l, p, i, d, pe, ro), v) = Rec(l, v, i, d, pe, ro)
         /\ PutIndex(Rec(l, p, i, d, pe, ro), v) = Rec(l, p, v, d, pe, ro)
         /\ PutDirty(Rec(l, p, i, d, pe, ro), v) = Rec(l, p, i, v, pe, ro)
         /\ PutPeers(Rec(l, p, i, d, pe, ro), v) = Rec(l, p, i, d, v, ro)
         /\ PutRoutes(Rec(l, p, i, d, pe, ro), v) = Rec(l, p, i, d, pe, v)
<1>1. PutLocal(Rec(l, p, i, d, pe, ro), v) = Rec(v, p, i, d, pe, ro)
  BY SMT DEF Rec, PutLocal
<1>2. PutPaused(Rec(l, p, i, d, pe, ro), v) = Rec(l, v, i, d, pe, ro)
  BY SMT DEF Rec, PutPaused
<1>3. PutIndex(Rec(l, p, i, d, pe, ro), v) = Rec(l, p, v, d, pe, ro)
  BY SMT DEF Rec, PutIndex
<1>4. PutDirty(Rec(l, p, i, d, pe, ro), v) = Rec(l, p, i, v, pe, ro)
  BY SMT DEF Rec, PutDirty
<1>5. PutPeers(Rec(l, p, i, d, pe, ro), v) = Rec(l, p, i, d, v, ro)
  BY SMT DEF Rec, PutPeers
<1>6. PutRoutes(Rec(l, p, i, d, pe, ro), v) = Rec(l, p, i, d, pe, v)
  BY SMT DEF Rec, PutRoutes
<1> QED BY <1>1, <1>2, <1>3, <1>4, <1>5, <1>6

\* The members of a registry.
LEMMA RecFields ==
  ASSUME NEW l, NEW p, NEW i, NEW d, NEW pe, NEW ro
  PROVE  /\ Rec(l, p, i, d, pe, ro).local = l /\ Rec(l, p, i, d, pe, ro).paused = p
         /\ Rec(l, p, i, d, pe, ro).index = i /\ Rec(l, p, i, d, pe, ro).dirty = d
         /\ Rec(l, p, i, d, pe, ro).peers = pe /\ Rec(l, p, i, d, pe, ro).routes = ro
BY DEF Rec

\* The invariant of a registry given by its members.
\* Setting it.
LEMMA MarkField ==
  ASSUME NEW l, NEW p, NEW i, NEW d, NEW pe, NEW ro
  PROVE  Mark(Rec(l, p, i, d, pe, ro)) = Marked(l, p, i, pe, ro)
<1> DEFINE yes == TRUE
<1> HIDE DEF yes
<1>1. PutDirty(Rec(l, p, i, d, pe, ro), yes) = Rec(l, p, i, yes, pe, ro)
  BY SMT, PutFields
<1> QED BY <1>1 DEF yes, Mark, Marked

-----------------------------------------------------------------------------
(* The registry of the daemon *)

\* The two maps of a registry of the expected shape.
Members(r, subs, pauses) == Shape(r) /\ r.local = subs /\ r.paused = pauses

\* The maps of a registry given by its members.
LEMMA RecMembers ==
  ASSUME NEW l, NEW p, NEW i, NEW d, NEW pe, NEW ro
  PROVE  Members(Rec(l, p, i, d, pe, ro), l, p)
<1> DEFINE r == Rec(l, p, i, d, pe, ro)
<1>1. /\ r.local = l /\ r.paused = p /\ r.index = i
      /\ r.dirty = d /\ r.peers = pe /\ r.routes = ro
  BY SMT, RecFields
<1>2. r = Rec(l, p, i, d, pe, ro)
  OBVIOUS
<1> HIDE DEF r
<1>3. Members(r, l, p)
  BY <1>1, <1>2 DEF Shape, Members
<1> QED BY <1>3 DEF r

\* An assignment to pausedSubscriptions_ only.
LEMMA PutPausedMembers ==
  ASSUME NEW r, Shape(r), NEW v
  PROVE  Members(PutPaused(r, v), r.local, v)
<1> DEFINE old == Rec(r.local, r.paused, r.index, r.dirty, r.peers, r.routes)
<1>1. PutPaused(old, v) = Rec(r.local, v, r.index, r.dirty, r.peers, r.routes)
  BY SMT, PutFields
<1>2. r = old
  BY DEF Shape
<1>3. Members(Rec(r.local, v, r.index, r.dirty, r.peers, r.routes), r.local, v)
  BY RecMembers
<1> HIDE DEF old
<1> QED BY <1>1, <1>2, <1>3

\* A registry that keeps what it should of these active and paused subscriptions.
Knows(r, locals, pauses) == AllKept(r) /\ DOMAIN r.local = locals /\ DOMAIN r.paused = pauses

\* It follows from the maps.
LEMMA MembersKnows ==
  ASSUME NEW r, NEW subs, NEW pauses, Members(r, subs, pauses),
         \A s \in DOMAIN subs : subs[s] \in Active,
         \A s \in DOMAIN pauses : pauses[s] \in Paused
  PROVE  Knows(r, DOMAIN subs, DOMAIN pauses)
BY DEF Members, Knows, AllKept

\* Insertion in a map.
LEMMA WithIn ==
  ASSUME NEW f, NEW S, \A x \in DOMAIN f : f[x] \in S, NEW k, NEW v \in S
  PROVE  /\ DOMAIN With(f, k, v) = DOMAIN f \cup {k}
         /\ \A x \in DOMAIN With(f, k, v) : With(f, k, v)[x] \in S
BY DEF With

\* Erasure from a map.
LEMMA WithoutIn ==
  ASSUME NEW f, NEW S, \A x \in DOMAIN f : f[x] \in S, NEW ks
  PROVE  /\ DOMAIN Without(f, ks) = DOMAIN f \ ks
         /\ \A x \in DOMAIN Without(f, ks) : Without(f, ks)[x] \in S
BY DEF Without

\* addLocalSubscription() of a new id.
LEMMA AddKnows ==
  \A r, s : 
    AllKept(r) /\ s \notin DOMAIN r.local =>
    Knows(AddLocalSubscription(r, s, Topics), DOMAIN r.local \cup {s}, DOMAIN r.paused)
\* The assignments of addLocalSubscription().
<1>AddAssigns. ASSUME NEW l, NEW p, NEW i, NEW d, NEW pe, NEW ro, NEW l2, NEW i2
               PROVE  Mark(PutIndex(PutLocal(Rec(l, p, i, d, pe, ro), l2), i2))
                        = Marked(l2, p, i2, pe, ro)
  <2> USE <1>AddAssigns
  <2>1. PutLocal(Rec(l, p, i, d, pe, ro), l2) = Rec(l2, p, i, d, pe, ro)
    BY SMT, PutFields
  <2>2. PutIndex(Rec(l2, p, i, d, pe, ro), i2) = Rec(l2, p, i2, d, pe, ro)
    BY SMT, PutFields
  <2>3. Mark(Rec(l2, p, i2, d, pe, ro)) = Marked(l2, p, i2, pe, ro)
    BY MarkField
  <2> QED BY <2>1, <2>2, <2>3
\* addLocalSubscription() of a new id.
<1>AddMembers. ASSUME NEW r, Shape(r), NEW s, s \notin DOMAIN r.local, NEW ts
               PROVE  Members(AddLocalSubscription(r, s, ts),
                              With(r.local, s, [topics |-> ts, last |-> 0]), r.paused)
  <2> USE <1>AddMembers
  <2> DEFINE subs == With(r.local, s, [topics |-> ts, last |-> 0])
             ix == Indexed(r.index, s, ts)
             old == Rec(r.local, r.paused, r.index, r.dirty, r.peers, r.routes)
  <2>1. AddLocalSubscription(r, s, ts) = Mark(PutIndex(PutLocal(r, subs), ix))
    BY DEF AddLocalSubscription, Mark, PutDirty, PutIndex, PutLocal
  <2> HIDE DEF subs, ix
  <2>2. Mark(PutIndex(PutLocal(old, subs), ix)) = Marked(subs, r.paused, ix, r.peers, r.routes)
    BY SMT, <1>AddAssigns
  <2>3. r = old
    BY DEF Shape
  <2> HIDE DEF old
  <2>4. Members(Marked(subs, r.paused, ix, r.peers, r.routes), subs, r.paused)
    BY RecMembers DEF Marked
  <2> QED BY <2>1, <2>2, <2>3, <2>4 DEF subs
<1> SUFFICES ASSUME NEW r, NEW s, AllKept(r), s \notin DOMAIN r.local
             PROVE  Knows(AddLocalSubscription(r, s, Topics), DOMAIN r.local \cup {s}, DOMAIN r.paused)
  OBVIOUS
<1> DEFINE sub == [topics |-> Topics, last |-> 0]
           new == AddLocalSubscription(r, s, Topics)
<1>1. Members(new, With(r.local, s, sub), r.paused)
  BY <1>AddMembers DEF AllKept
<1>2. sub \in Active
  BY DEF Active
<1> HIDE DEF sub, new
<1>3. /\ DOMAIN With(r.local, s, sub) = DOMAIN r.local \cup {s}
      /\ \A x \in DOMAIN With(r.local, s, sub) : With(r.local, s, sub)[x] \in Active
  BY <1>2, WithIn DEF AllKept
<1>4. Knows(new, DOMAIN With(r.local, s, sub), DOMAIN r.paused)
  BY <1>1, <1>3, MembersKnows DEF AllKept
<1> QED BY <1>3, <1>4 DEF new

\* removeLocalSubscription()
LEMMA RemoveKnows ==
  \A r, s, pause : 
    AllKept(r) =>
    Knows(RemoveLocalSubscription(r, s, pause), DOMAIN r.local \ {s},
          IF pause /\ s \in DOMAIN r.local THEN DOMAIN r.paused \cup {s} ELSE DOMAIN r.paused)
\* The assignments of removeLocalSubscription().
<1>RemoveAssigns. ASSUME NEW l, NEW p, NEW i, NEW d, NEW pe, NEW ro, NEW l2, NEW p2, NEW i2
                  PROVE  Mark(PutLocal(PutIndex(PutPaused(Rec(l, p, i, d, pe, ro), p2), i2), l2))
                           = Marked(l2, p2, i2, pe, ro)
  <2> USE <1>RemoveAssigns
  <2>1. PutPaused(Rec(l, p, i, d, pe, ro), p2) = Rec(l, p2, i, d, pe, ro)
    BY SMT, PutFields
  <2>2. PutIndex(Rec(l, p2, i, d, pe, ro), i2) = Rec(l, p2, i2, d, pe, ro)
    BY SMT, PutFields
  <2>3. PutLocal(Rec(l, p2, i2, d, pe, ro), l2) = Rec(l2, p2, i2, d, pe, ro)
    BY SMT, PutFields
  <2>4. Mark(Rec(l2, p2, i2, d, pe, ro)) = Marked(l2, p2, i2, pe, ro)
    BY MarkField
  <2> QED BY <2>1, <2>2, <2>3, <2>4
\* removeLocalSubscription() of an active one.
<1>RemoveMembers. ASSUME NEW r, Shape(r), NEW s, s \in DOMAIN r.local, NEW pause
                  PROVE  Members(RemoveLocalSubscription(r, s, pause), Without(r.local, {s}),
                                 IF pause THEN With(r.paused, s, Pausing(r.local[s])) ELSE r.paused)
  <2> USE <1>RemoveMembers
  <2> DEFINE pauses == IF pause THEN With(r.paused, s, Pausing(r.local[s])) ELSE r.paused
             subs == Without(r.local, {s})
             ix == Unindexed(r.index, s, r.local[s].topics)
             old == Rec(r.local, r.paused, r.index, r.dirty, r.peers, r.routes)
  <2>1. RemoveLocalSubscription(r, s, pause)
          = Mark(PutLocal(PutIndex(PutPaused(r, pauses), ix), subs))
    BY DEF RemoveLocalSubscription, Mark, PutDirty, PutIndex, PutLocal, PutPaused
  <2> HIDE DEF subs, ix, pauses
  <2>2. Mark(PutLocal(PutIndex(PutPaused(old, pauses), ix), subs))
          = Marked(subs, pauses, ix, r.peers, r.routes)
    BY SMT, <1>RemoveAssigns
  <2>3. r = old
    BY DEF Shape
  <2> HIDE DEF old
  <2>4. Members(Marked(subs, pauses, ix, r.peers, r.routes), subs, pauses)
    BY RecMembers DEF Marked
  <2> QED BY <2>1, <2>2, <2>3, <2>4 DEF subs, pauses
<1> SUFFICES ASSUME NEW r, NEW s, NEW pause, AllKept(r)
             PROVE  Knows(RemoveLocalSubscription(r, s, pause), DOMAIN r.local \ {s},
                          IF pause /\ s \in DOMAIN r.local THEN DOMAIN r.paused \cup {s} ELSE DOMAIN r.paused)
  OBVIOUS
<1> DEFINE new == RemoveLocalSubscription(r, s, pause)
           subs == Without(r.local, {s})
           saved == Pausing(r.local[s])
           pauses == IF pause THEN With(r.paused, s, saved) ELSE r.paused
<1>1. CASE s \notin DOMAIN r.local
  BY <1>1 DEF RemoveLocalSubscription, Knows
<1>2. CASE s \in DOMAIN r.local
  <2>1. Members(new, subs, pauses)
    BY <1>2, <1>RemoveMembers DEF AllKept
  <2>2. DOMAIN subs = DOMAIN r.local \ {s} /\ \A x \in DOMAIN subs : subs[x] \in Active
    BY WithoutIn DEF AllKept
  <2>3. r.local[s] \in Active
    BY <1>2 DEF AllKept
  <2>4. saved \in Paused
    BY <2>3 DEF Pausing, Active, Paused
  <2>5. CASE pause
    <3>1. pauses = With(r.paused, s, saved)
      BY <2>5
    <3> HIDE DEF pauses, saved
    <3>2. DOMAIN pauses = DOMAIN r.paused \cup {s} /\ \A x \in DOMAIN pauses : pauses[x] \in Paused
      <4>1. /\ DOMAIN With(r.paused, s, saved) = DOMAIN r.paused \cup {s}
            /\ \A x \in DOMAIN With(r.paused, s, saved) : With(r.paused, s, saved)[x] \in Paused
        BY <2>4, WithIn DEF AllKept
      <4> QED BY <3>1, <4>1
    <3> HIDE DEF new, subs
    <3>3. Knows(new, DOMAIN subs, DOMAIN pauses)
      BY <2>1, <2>2, <3>2, MembersKnows
    <3> QED BY <1>2, <2>2, <2>5, <3>2, <3>3 DEF new
  <2>6. CASE ~pause
    <3>1. pauses = r.paused
      BY <2>6
    <3> HIDE DEF new, subs, pauses
    <3>2. Knows(new, DOMAIN subs, DOMAIN r.paused)
      BY <2>1, <2>2, <3>1, MembersKnows DEF AllKept
    <3> QED BY <2>2, <2>6, <3>2 DEF new
  <2> QED BY <2>5, <2>6
<1> QED BY <1>1, <1>2

\* resumeSubscription() of a paused one.
LEMMA ResumeKnows ==
  \A r, s : 
    AllKept(r) /\ s \in DOMAIN r.paused =>
    Knows(ResumeSubscription(r, s),
          IF Resumable(r, s) THEN DOMAIN r.local \cup {s} ELSE DOMAIN r.local,
          DOMAIN r.paused \ {s})
\* The assignments of resumeSubscription().
<1>ResumeAssigns. ASSUME NEW l, NEW p, NEW i, NEW d, NEW pe, NEW ro, NEW l2, NEW p2, NEW i2
                  PROVE  Mark(PutPaused(PutIndex(PutLocal(Rec(l, p, i, d, pe, ro), l2), i2), p2))
                           = Marked(l2, p2, i2, pe, ro)
  <2> USE <1>ResumeAssigns
  <2>1. PutLocal(Rec(l, p, i, d, pe, ro), l2) = Rec(l2, p, i, d, pe, ro)
    BY SMT, PutFields
  <2>2. PutIndex(Rec(l2, p, i, d, pe, ro), i2) = Rec(l2, p, i2, d, pe, ro)
    BY SMT, PutFields
  <2>3. PutPaused(Rec(l2, p, i2, d, pe, ro), p2) = Rec(l2, p2, i2, d, pe, ro)
    BY SMT, PutFields
  <2>4. Mark(Rec(l2, p2, i2, d, pe, ro)) = Marked(l2, p2, i2, pe, ro)
    BY MarkField
  <2> QED BY <2>1, <2>2, <2>3, <2>4
\* resumeSubscription()
<1>ResumeMembers. ASSUME NEW r, Shape(r), NEW s
                  PROVE  Members(ResumeSubscription(r, s),
                                 IF Resumable(r, s)
                                 THEN With(r.local, s, [topics |-> r.paused[s].topics, last |-> r.paused[s].last])
                                 ELSE r.local,
                                 Without(r.paused, {s}))
  <2> USE <1>ResumeMembers
  <2> DEFINE pauses == Without(r.paused, {s})
             subs == With(r.local, s, [topics |-> r.paused[s].topics, last |-> r.paused[s].last])
             ix == Indexed(r.index, s, r.paused[s].topics)
             old == Rec(r.local, r.paused, r.index, r.dirty, r.peers, r.routes)
  <2>1. CASE ~Resumable(r, s)
    <3>1. ResumeSubscription(r, s) = PutPaused(r, pauses)
      BY <2>1 DEF ResumeSubscription, PutPaused
    <3> HIDE DEF pauses
    <3>2. Members(PutPaused(r, pauses), r.local, pauses)
      BY PutPausedMembers
    <3> QED BY <2>1, <3>1, <3>2 DEF pauses
  <2>2. CASE Resumable(r, s)
    <3>1. ResumeSubscription(r, s) = Mark(PutPaused(PutIndex(PutLocal(r, subs), ix), pauses))
      BY <2>2 DEF ResumeSubscription, Mark, PutDirty, PutIndex, PutLocal, PutPaused
    <3> HIDE DEF subs, ix, pauses
    <3>2. Mark(PutPaused(PutIndex(PutLocal(old, subs), ix), pauses))
            = Marked(subs, pauses, ix, r.peers, r.routes)
      BY SMT, <1>ResumeAssigns
    <3>3. r = old
      BY DEF Shape
    <3> HIDE DEF old
    <3>4. Members(Marked(subs, pauses, ix, r.peers, r.routes), subs, pauses)
      BY RecMembers DEF Marked
    <3> QED BY <2>2, <3>1, <3>2, <3>3, <3>4 DEF subs, pauses
  <2> QED BY <2>1, <2>2
<1> SUFFICES ASSUME NEW r, NEW s, AllKept(r), s \in DOMAIN r.paused
             PROVE  Knows(ResumeSubscription(r, s),
                          IF Resumable(r, s) THEN DOMAIN r.local \cup {s} ELSE DOMAIN r.local,
                          DOMAIN r.paused \ {s})
  OBVIOUS
<1> DEFINE new == ResumeSubscription(r, s)
           pauses == Without(r.paused, {s})
           sub == [topics |-> r.paused[s].topics, last |-> r.paused[s].last]
           subs == With(r.local, s, sub)
<1>1. Members(new, IF Resumable(r, s) THEN subs ELSE r.local, pauses)
  BY <1>ResumeMembers DEF AllKept
<1>2. DOMAIN pauses = DOMAIN r.paused \ {s} /\ \A x \in DOMAIN pauses : pauses[x] \in Paused
  BY WithoutIn DEF AllKept
<1>3. r.paused[s] \in Paused
  BY DEF AllKept
<1>4. sub \in Active
  BY <1>3 DEF Active, Paused
<1> HIDE DEF sub
<1>5. DOMAIN subs = DOMAIN r.local \cup {s} /\ \A x \in DOMAIN subs : subs[x] \in Active
  BY <1>4, WithIn DEF AllKept
<1> HIDE DEF new, subs, pauses
<1>6. CASE Resumable(r, s)
  <2>1. Knows(new, DOMAIN subs, DOMAIN pauses)
    BY <1>1, <1>2, <1>5, <1>6, MembersKnows
  <2> QED BY <1>2, <1>5, <1>6, <2>1 DEF new
<1>7. CASE ~Resumable(r, s)
  <2>1. Knows(new, DOMAIN r.local, DOMAIN pauses)
    BY <1>1, <1>2, <1>7, MembersKnows DEF AllKept
  <2> QED BY <1>2, <1>7, <2>1 DEF new
<1> QED BY <1>6, <1>7

\* The end of a pause.
LEMMA ExpiryKnows ==
  ASSUME NEW r, AllKept(r), NEW s \in DOMAIN r.paused
  PROVE  Knows([r EXCEPT !.paused = With(@, s, [@[s] EXCEPT !.expired = TRUE])],
               DOMAIN r.local, DOMAIN r.paused)
<1> DEFINE entry == [r.paused[s] EXCEPT !.expired = TRUE]
           pauses == With(r.paused, s, entry)
<1>1. [r EXCEPT !.paused = With(@, s, [@[s] EXCEPT !.expired = TRUE])] = PutPaused(r, pauses)
  BY DEF PutPaused
<1>2. r.paused[s] \in Paused
  BY DEF AllKept
<1>3. entry \in Paused
  BY <1>2 DEF Paused
<1> HIDE DEF entry
<1>4. DOMAIN pauses = DOMAIN r.paused \cup {s} /\ \A x \in DOMAIN pauses : pauses[x] \in Paused
  BY <1>3, WithIn DEF AllKept
<1>5. DOMAIN r.paused \cup {s} = DOMAIN r.paused
  OBVIOUS
<1> HIDE DEF pauses
<1>6. Members(PutPaused(r, pauses), r.local, pauses)
  BY PutPausedMembers DEF AllKept
<1>7. Knows(PutPaused(r, pauses), DOMAIN r.local, DOMAIN pauses)
  BY <1>4, <1>6, MembersKnows DEF AllKept
<1> QED BY <1>1, <1>4, <1>5, <1>7

\* The registry of a daemon that starts.
LEMMA NewKnows == Knows(NewRegistry, {}, {})
<1>1. NewRegistry = Rec(Empty, Empty, Empty, TRUE, Empty, Empty)
  BY DEF NewRegistry, Rec
<1>2. DOMAIN Empty = {}
  BY DEF Empty
<1>3. Members(Rec(Empty, Empty, Empty, TRUE, Empty, Empty), Empty, Empty)
  BY RecMembers
<1> QED BY <1>1, <1>2, <1>3, MembersKnows

-----------------------------------------------------------------------------
(* What the steps do to the generator and to its stream *)

\* The generator after a step.
GenTo(pc, sid, last) == gen' \in GenType /\ gen'.pc = pc /\ gen'.sid = sid /\ gen'.last = last

\* The stream after a step.
StreamTo(kind, sub, status, active, queue, wire) ==
  /\ stream' \in StreamType
  /\ stream'.kind = kind /\ stream'.sub = sub /\ stream'.status = status
  /\ stream'.active = active /\ stream'.queue = queue /\ stream'.wire = wire

\* The stream of the same call.
SameCall == stream'.upto = stream.upto /\ stream'.lapsed = stream.lapsed

StreamSame ==
  /\ StreamTo(stream.kind, stream.sub, stream.status, stream.active, stream.queue, stream.wire)
  /\ SameCall

\* The empty sequence and the SubscriptionInfo alone may be on a stream.
LEMMA ShortStreams == <<>> \in Seq(StreamEvents) /\ <<Info>> \in Seq(StreamEvents)
<1>1. Info \in StreamEvents
  BY DEF StreamEvents
<1> QED BY SMT, <1>1

\* No stream, with a status.
LEMMA NoStreamEffect ==
  ASSUME NEW st \in {"open", "finished", "cancelled", "unavailable", "notfound"},
         stream' = [NoStream EXCEPT !.status = st]
  PROVE  StreamTo("none", None, st, FALSE, <<>>, <<>>)
BY ShortStreams DEF NoStream, StreamTo, StreamType

\* Steps of the generator that leave its stream alone.
GenLocal == Start \/ RequestFails \/ Continue \/ StreamFails \/ GenFailsToConnect

\* They change the control of the generator only.
LEMMA GenLocalEffect ==
  ASSUME ControlInv, GenLocal
  PROVE  /\ GenTo(gen'.pc, gen.sid, gen.last)
         /\ UNCHANGED <<config, channel, tracked, user, stream, daemonVars, sent, told, yielded>>
         /\ \/ gen.pc = "idle" /\ gen'.pc = "request"
            \/ gen.pc = "request" /\ gen'.pc = "failed"
            \/ gen.pc = "yield" /\ gen'.pc = "streaming"
            \/ gen.pc = "streaming" /\ gen'.pc = "raised"
            \/ /\ gen.pc = "streaming" /\ gen'.pc = "backoff"
               /\ config.enabled /\ stream.status = "unavailable"
            \/ gen.pc = "backoff" /\ gen'.pc = "backoff"
<1>1. gen \in GenType
  BY DEF ControlInv, Types
<1>2. CASE Start
  BY <1>1, <1>2 DEF Start, OnlyGen, historyVars, GenType, GenStates, GenTo
<1>3. CASE RequestFails
  BY <1>1, <1>3 DEF RequestFails, OnlyGen, historyVars, GenType, GenStates, GenTo
<1>4. CASE Continue
  BY <1>1, <1>4 DEF Continue, OnlyGen, historyVars, GenType, GenStates, GenTo
<1>5. CASE StreamFails
  BY <1>1, <1>5 DEF StreamFails, Ends, AfterError, OnlyGen, historyVars, GenType, GenStates, GenTo
<1>6. CASE GenFailsToConnect
  BY SMT, <1>1, <1>6 DEF GenFailsToConnect, GenType, GenStates, GenTo
<1> QED BY <1>2, <1>3, <1>4, <1>5, <1>6 DEF GenLocal

\* Steps of the other thread that leave the rest alone.
UserLocal == Publish \/ PublishReturns \/ PublishRefused \/ PublishUnavailable \/ Close \/ UserFailsToConnect

\* They change that thread only.
LEMMA UserLocalEffect ==
  ASSUME ControlInv, UserLocal
  PROVE  /\ UserOK'
         /\ UNCHANGED <<config, channel, tracked, gen, stream, daemonVars, sent, told, yielded>>
<1>1. UserOK /\ tracked \subseteq Subs
  BY DEF ControlInv, Types, Ids
<1> USE DEF UserOK, UserType, UserStates, Publishing, OnlyUser, historyVars, Resting, Returns
<1>2. CASE Publish
  <2>1. PICK t \in Topics : user' = [Resting EXCEPT !.pc = "publish", !.topic = t]
    BY <1>2 DEF Publish
  <2>2. UNCHANGED <<config, channel, tracked, gen, stream, daemonVars, sent, told, yielded>>
    BY <1>2 DEF Publish
  <2> QED BY <2>1, <2>2
<1>3. CASE PublishReturns
  BY <1>1, <1>3 DEF PublishReturns
<1>4. CASE PublishRefused
  BY <1>1, <1>4 DEF PublishRefused
<1>5. CASE PublishUnavailable
  BY <1>1, <1>5 DEF PublishUnavailable
<1>6. CASE Close
  BY <1>1, <1>6 DEF Close
<1>7. CASE UserFailsToConnect
  BY SMT, <1>1, <1>7 DEF UserFailsToConnect
<1> QED BY <1>2, <1>3, <1>4, <1>5, <1>6, <1>7 DEF UserLocal

\* A request that finds no daemon.
LEMMA RequestRefusedEffect ==
  ASSUME ControlInv, RequestRefused
  PROVE  /\ GenTo("streaming", gen.sid, gen.last)
         /\ StreamTo("none", None, "unavailable", FALSE, <<>>, <<>>)
<1>1. gen \in GenType
  BY DEF ControlInv, Types
<1>2. GenTo("streaming", gen.sid, gen.last)
  BY <1>1 DEF RequestRefused, GenType, GenStates, GenTo
<1>3. stream' = [NoStream EXCEPT !.status = "unavailable"]
  BY DEF RequestRefused
<1>4. StreamTo("none", None, "unavailable", FALSE, <<>>, <<>>)
  BY <1>3, NoStreamEffect
<1> QED BY <1>2, <1>4

\* Subscribe()
LEMMA SubscribeCallEffect ==
  ASSUME ControlInv, SubscribeCall
  PROVE  /\ FreshId \in Subs \ issued
         /\ GenTo("streaming", gen.sid, gen.last)
         /\ StreamTo("subscribe", FreshId, "open", TRUE, <<Info>>, <<>>)
<1>1. gen \in GenType /\ issued \subseteq Subs
  BY DEF ControlInv, Types, Ids
<1>2. GenTo("streaming", gen.sid, gen.last)
  BY <1>1 DEF SubscribeCall, GenType, GenStates, GenTo
<1>3. \E s : s \in Subs \ issued
  BY <1>1 DEF SubscribeCall
<1>4. FreshId \in Subs \ issued
  BY <1>3 DEF FreshId
<1>5. stream' = [NoStream EXCEPT !.kind = "subscribe", !.sub = FreshId, !.active = TRUE,
                                 !.queue = <<Info>>]
  BY DEF SubscribeCall
<1>6. StreamTo("subscribe", FreshId, "open", TRUE, <<Info>>, <<>>)
  BY <1>4, <1>5, ShortStreams DEF NoStream, StreamTo, StreamType
<1> QED BY <1>2, <1>4, <1>6

\* ResumeSubscribe()
LEMMA ResumeCallEffect ==
  ASSUME ControlInv, Rings, Replayable, ResumeCall
  PROVE  /\ GenTo("streaming", gen.sid, gen.last)
         /\ gen.sid \in DOMAIN registry.paused =>
              /\ StreamTo("resume", gen.sid, "open", TRUE,
                          <<Info>> \o (IF Resumable(registry, gen.sid)
                                       THEN AllEvents(Topics, ResumesAfter(gen.sid)) ELSE <<>>),
                          <<>>)
              /\ stream'.upto = [t \in Topics |-> Reached(t)]
              /\ stream'.lapsed = ~Resumable(registry, gen.sid)
         /\ gen.sid \notin DOMAIN registry.paused =>
              StreamTo("none", None, "notfound", FALSE, <<>>, <<>>)
<1>1. gen \in GenType /\ AllKept(registry)
  BY DEF ControlInv, Types, RegistryOK
<1>2. GenTo("streaming", gen.sid, gen.last)
  BY <1>1 DEF ResumeCall, GenType, GenStates, GenTo
<1>3. CASE gen.sid \notin DOMAIN registry.paused
  <2>1. stream' = [NoStream EXCEPT !.status = "notfound"]
    BY <1>3 DEF ResumeCall
  <2>2. StreamTo("none", None, "notfound", FALSE, <<>>, <<>>)
    BY <2>1, NoStreamEffect
  <2> QED BY <1>2, <1>3, <2>2
<1>4. CASE gen.sid \in DOMAIN registry.paused
  <2> DEFINE ok == Resumable(registry, gen.sid)
             events == IF ok THEN AllEvents(Topics, ResumesAfter(gen.sid)) ELSE <<>>
             marks == [t \in Topics |-> Reached(t)]
  <2>1. registry.paused[gen.sid] \in Paused
    BY <1>1, <1>4 DEF AllKept
  <2>2. registry.paused[gen.sid].topics = Topics /\ ResumesAfter(gen.sid) \in Nat
    BY <1>1, <2>1 DEF Paused, GenType, ResumesAfter
  <2>3. events \in Seq(StreamEvents)
    <3>1. AllEvents(Topics, ResumesAfter(gen.sid)) \in Seq(Messages)
      BY <2>2 DEF Replayable
    <3>2. Messages \subseteq StreamEvents
      BY DEF StreamEvents
    <3> QED BY SMT, <3>1, <3>2
  <2>4. marks \in [Topics -> Nat]
    <3>1. ASSUME NEW t \in Topics PROVE Reached(t) \in Nat
      BY SMTT(20) DEF Reached, Rings, Ring, Buffer!CurrentSequence
    <3> QED BY <3>1
  <2>5. stream' = [NoStream EXCEPT !.kind = "resume", !.sub = gen.sid, !.active = TRUE,
                                   !.lapsed = ~ok, !.queue = <<Info>> \o events, !.upto = marks]
    BY <1>4, <2>2 DEF ResumeCall, Resumed
  <2>6. gen.sid \in Subs \cup {None}
    BY <1>1 DEF GenType
  <2> DEFINE lapse == ~ok
             queue == <<Info>> \o events
  <2>7. queue \in Seq(StreamEvents)
    <3> HIDE DEF events
    <3> QED BY SMT, <2>3, ShortStreams
  <2> HIDE DEF events, marks, queue, ok, lapse
  <2>8. stream' = [NoStream EXCEPT !.kind = "resume", !.sub = gen.sid, !.active = TRUE,
                                   !.lapsed = lapse, !.queue = queue, !.upto = marks]
    BY <2>5 DEF lapse, queue
  <2>9. /\ StreamTo("resume", gen.sid, "open", TRUE, queue, <<>>)
        /\ stream'.upto = marks /\ stream'.lapsed = lapse
    <3>1. lapse \in BOOLEAN
      BY DEF lapse
    <3> QED BY <2>4, <2>6, <2>7, <2>8, <3>1, ShortStreams DEF NoStream, StreamTo, StreamType
  <2> QED BY <1>2, <1>4, <2>9 DEF queue, events, lapse, ok, marks
<1> QED BY <1>3, <1>4

\* The parts of the type of the stream that its steps need.
LEMMA StreamParts ==
  ASSUME ControlInv
  PROVE  /\ stream \in StreamType /\ gen \in GenType /\ UserOK /\ config \in Configs
         /\ stream.wire \in Seq(StreamEvents) /\ stream.queue \in Seq(StreamEvents)
BY DEF ControlInv, Types, StreamType

\* The SubscriptionInfo is read.
LEMMA ReceiveInfoEffect ==
  ASSUME ControlInv, ReceiveInfo
  PROVE  /\ GenTo("streaming", stream.sub, gen.last)
         /\ stream.wire # <<>> /\ Head(stream.wire) = Info
         /\ StreamTo(stream.kind, stream.sub, stream.status, stream.active, stream.queue,
                     Tail(stream.wire))
         /\ SameCall
<1>1. /\ stream.wire # <<>> /\ Head(stream.wire) = Info
      /\ gen.pc = "streaming"
      /\ gen' = [gen EXCEPT !.sid = stream.sub]
      /\ stream' = [stream EXCEPT !.wire = Tail(stream.wire)]
  BY DEF ReceiveInfo, Reads
<1>2. Tail(stream.wire) \in Seq(StreamEvents)
  BY SMT, <1>1, StreamParts
<1>3. GenTo("streaming", stream.sub, gen.last)
  BY <1>1, StreamParts DEF GenTo, GenType, StreamType
<1>4. StreamTo(stream.kind, stream.sub, stream.status, stream.active, stream.queue,
               Tail(stream.wire)) /\ SameCall
  BY <1>1, <1>2, StreamParts DEF StreamTo, StreamType, SameCall
<1> QED BY <1>1, <1>3, <1>4

\* A message is read: last_sequence becomes its number, if it has one and that is larger.
LEMMA ReceiveMessageEffect ==
  ControlInv /\ ReceiveMessage =>
    /\ stream.wire # <<>> /\ Head(stream.wire) \in Messages
    /\ gen.pc = "streaming"
    /\ GenTo("yield", gen.sid, LastAfter(Head(stream.wire)))
    /\ Head(stream.wire).type = "retained" => LastAfter(Head(stream.wire)) = gen.last
    /\ Numbered(Head(stream.wire)) /\ gen.last < Head(stream.wire).seq =>
         LastAfter(Head(stream.wire)) = Head(stream.wire).seq
    /\ StreamTo(stream.kind, stream.sub, stream.status, stream.active, stream.queue,
                Tail(stream.wire))
    /\ SameCall
\* std::max of two numbers.
<1>MaxOfTwo. ASSUME NEW m \in Nat, NEW n \in Nat
             PROVE  Max({m, n}) = IF m <= n THEN n ELSE m
  <2> USE <1>MaxOfTwo
  <2> DEFINE x == IF m <= n THEN n ELSE m
  <2>1. x \in {m, n} /\ \A y \in {m, n} : x >= y
    BY SMT
  <2>2. \A z \in {m, n} : (\A y \in {m, n} : z >= y) => z = x
    BY SMT
  <2> HIDE DEF x
  <2>3. Max({m, n}) = x
    BY <2>1, <2>2 DEF Max
  <2> QED BY <2>3 DEF x
<1> SUFFICES ASSUME ControlInv, ReceiveMessage
             PROVE  /\ stream.wire # <<>> /\ Head(stream.wire) \in Messages
                    /\ gen.pc = "streaming"
                    /\ GenTo("yield", gen.sid, LastAfter(Head(stream.wire)))
                    /\ Head(stream.wire).type = "retained" => LastAfter(Head(stream.wire)) = gen.last
                    /\ Numbered(Head(stream.wire)) /\ gen.last < Head(stream.wire).seq =>
                         LastAfter(Head(stream.wire)) = Head(stream.wire).seq
                    /\ StreamTo(stream.kind, stream.sub, stream.status, stream.active, stream.queue,
                                Tail(stream.wire))
                    /\ SameCall
  OBVIOUS
<1> DEFINE e == Head(stream.wire)
<1>1. /\ stream.wire # <<>> /\ e # Info
      /\ gen.pc = "streaming"
      /\ gen' = [gen EXCEPT !.pc = "yield", !.last = LastAfter(e)]
      /\ stream' = [stream EXCEPT !.wire = Tail(stream.wire)]
  BY DEF ReceiveMessage, Reads
<1>2. Tail(stream.wire) \in Seq(StreamEvents) /\ e \in StreamEvents
  BY SMT, <1>1, StreamParts
<1> HIDE DEF e
<1>3. e \in Messages
  BY <1>1, <1>2 DEF StreamEvents
<1>4. e.seq \in Nat /\ e.seq # 0 /\ e.type \in {"message", "replay", "retained"} /\ gen.last \in Nat
  BY <1>3, StreamParts DEF Messages, GenType
<1>5. Max({gen.last, e.seq}) = IF gen.last <= e.seq THEN e.seq ELSE gen.last
  BY <1>4, <1>MaxOfTwo
<1>6. LastAfter(e) = IF e.type = "retained" THEN gen.last
                     ELSE IF e.type = "message" THEN e.seq ELSE Max({gen.last, e.seq})
  BY <1>4 DEF LastAfter
<1>7. /\ e.type = "retained" => LastAfter(e) = gen.last
      /\ Numbered(e) /\ gen.last < e.seq => LastAfter(e) = e.seq
      /\ LastAfter(e) \in Nat
  BY SMT, <1>4, <1>5, <1>6 DEF Numbered
<1>8. GenTo("yield", gen.sid, LastAfter(e))
  BY <1>1, <1>7, StreamParts DEF GenTo, GenType, GenStates
<1>9. StreamTo(stream.kind, stream.sub, stream.status, stream.active, stream.queue,
               Tail(stream.wire)) /\ SameCall
  BY <1>1, <1>2, StreamParts DEF StreamTo, StreamType, SameCall
<1> QED BY <1>1, <1>3, <1>7, <1>8, <1>9 DEF e

\* The consumer drops the generator.
LEMMA AbandonEffect ==
  ASSUME ControlInv, Abandon
  PROVE  /\ GenTo("abandoned", gen.sid, gen.last)
         /\ StreamTo(stream.kind, stream.sub, "cancelled", FALSE, <<>>, <<>>)
         /\ SameCall
<1>1. GenTo("abandoned", gen.sid, gen.last)
  BY StreamParts DEF Abandon, GenTo, GenType, GenStates
<1>2. StreamTo(stream.kind, stream.sub, "cancelled", FALSE, <<>>, <<>>) /\ SameCall
  BY StreamParts, ShortStreams DEF Abandon, StreamTo, StreamType, SameCall
<1> QED BY <1>1, <1>2

\* A stream that is not touched.
LEMMA SameStream ==
  ASSUME ControlInv, stream' = stream
  PROVE  StreamSame
BY StreamParts DEF StreamSame, StreamTo, SameCall

\* The cleanup of subscribe().
LEMMA StreamEndsEffect ==
  ASSUME ControlInv, StreamEnds
  PROVE  GenTo("done", gen.sid, gen.last) /\ StreamSame
<1>1. GenTo("done", gen.sid, gen.last)
  BY StreamParts DEF StreamEnds, GenTo, GenType, GenStates
<1>2. stream' = stream
  BY DEF StreamEnds
<1> QED BY <1>1, <1>2, SameStream

\* _connect()
LEMMA ConnectEffect ==
  ASSUME ControlInv, stream' = [stream EXCEPT !.own = FALSE]
  PROVE  StreamSame
BY StreamParts DEF StreamSame, StreamTo, StreamType, SameCall

\* _reconnect() of the generator.
LEMMA GenReconnectsEffect ==
  ASSUME ControlInv, GenReconnects
  PROVE  /\ gen.pc = "backoff"
         /\ GenTo("raised", gen.sid, gen.last) \/ GenTo("request", gen.sid, gen.last)
         /\ StreamSame
<1>1. /\ gen.pc = "backoff"
      /\ \/ gen' = [gen EXCEPT !.pc = "raised", !.attempt = 0] /\ stream' = stream
         \/ gen' = [gen EXCEPT !.pc = "request", !.attempt = 0]
            /\ stream' = [stream EXCEPT !.own = FALSE]
  BY DEF GenReconnects, Connect
<1>2. StreamSame
  BY <1>1, SameStream, ConnectEffect
<1>3. gen \in GenType
  BY StreamParts
<1>4. CASE gen' = [gen EXCEPT !.pc = "raised", !.attempt = 0]
  <2>1. GenTo("raised", gen.sid, gen.last)
    BY <1>3, <1>4 DEF GenTo, GenType, GenStates
  <2> QED BY <1>1, <1>2, <2>1
<1>5. CASE gen' = [gen EXCEPT !.pc = "request", !.attempt = 0]
  <2>1. GenTo("request", gen.sid, gen.last)
    BY <1>3, <1>5 DEF GenTo, GenType, GenStates
  <2> QED BY <1>1, <1>2, <2>1
<1> QED BY <1>1, <1>4, <1>5

\* _reconnect() of the other thread.
LEMMA UserReconnectsEffect ==
  ASSUME ControlInv, UserReconnects
  PROVE  UserOK' /\ StreamSame
<1>1. \/ user' = Returns("error") /\ stream' = stream
      \/ user' = [user EXCEPT !.pc = "publish", !.attempt = 0]
         /\ stream' = [stream EXCEPT !.own = FALSE]
  BY DEF UserReconnects, Connect
<1>2. StreamSame
  BY <1>1, SameStream, ConnectEffect
<1>3. user.pc = "backoff"
  BY DEF UserReconnects
<1>4. UserOK
  BY StreamParts
<1>5. CASE user' = Returns("error")
  <2>1. UserOK'
    BY <1>5 DEF UserOK, UserType, UserStates, Publishing, Resting, Returns
  <2> QED BY <1>2, <2>1
<1>6. CASE user' = [user EXCEPT !.pc = "publish", !.attempt = 0]
  <2>1. UserOK'
    BY <1>3, <1>4, <1>6 DEF UserOK, UserType, UserStates, Publishing
  <2> QED BY <1>2, <2>1
<1> QED BY <1>1, <1>5, <1>6

\* Unsubscribe() in the daemon.
LEMMA RemovedEffect ==
  ASSUME ControlInv, NEW s, NEW pause, Removed(s, pause)
  PROVE  /\ StreamTo(stream.kind, stream.sub, stream.status,
                     stream.active /\ stream.sub # s, stream.queue, stream.wire)
         /\ SameCall
<1>1. CASE stream.sub = s
  <2>1. stream' = [stream EXCEPT !.active = FALSE]
    BY <1>1 DEF Removed
  <2> QED BY <1>1, <2>1, StreamParts DEF StreamTo, StreamType, SameCall
<1>2. CASE stream.sub # s
  <2>1. stream' = stream
    BY <1>2 DEF Removed
  <2>2. (stream.active /\ stream.sub # s) = stream.active
    BY <1>2, StreamParts DEF StreamType
  <2> QED BY <2>1, <2>2, SameStream DEF StreamSame
<1> QED BY <1>1, <1>2

\* The channel is closed: a call on it is cancelled.
LEMMA CloseReturnsEffect ==
  ASSUME ControlInv, CloseReturns
  PROVE  /\ UserOK'
         /\ \/ StreamTo(stream.kind, stream.sub, "cancelled", FALSE, <<>>, <<>>) /\ SameCall
            \/ StreamSame /\ (~stream.own \/ stream.status = "unavailable")
<1>1. UserOK'
  <2>1. /\ user' = [user EXCEPT !.pc = "closed", !.late = OutOfReach,
                                !.unpaused = user.unpaused \cup Untold]
        /\ user.pc = "closing"
    BY DEF CloseReturns
  <2>2. OutOfReach \in BOOLEAN
    BY DEF OutOfReach
  <2>3. Untold \subseteq Subs
    BY DEF Untold, ControlInv, Ids
  <2> HIDE DEF OutOfReach, Untold
  <2> QED BY <2>1, <2>2, <2>3, StreamParts DEF UserOK, UserType, UserStates, Publishing
<1>2. CASE stream.own /\ stream.status # "unavailable"
  <2>1. stream' = [stream EXCEPT !.status = "cancelled", !.active = FALSE, !.queue = <<>>, !.wire = <<>>]
    BY <1>2 DEF CloseReturns, Cancelled
  <2>2. StreamTo(stream.kind, stream.sub, "cancelled", FALSE, <<>>, <<>>) /\ SameCall
    BY <2>1, StreamParts, ShortStreams DEF StreamTo, StreamType, SameCall
  <2> QED BY <1>1, <2>2
<1>3. CASE ~(stream.own /\ stream.status # "unavailable")
  <2>1. stream' = stream
    BY <1>3 DEF CloseReturns, Cancelled
  <2> QED BY <1>1, <1>3, <2>1, SameStream
<1> QED BY <1>2, <1>3

\* A write of the daemon.
LEMMA ServerWritesEffect ==
  ASSUME ControlInv, ServerWrites
  PROVE  /\ stream.queue # <<>> /\ stream.status = "open" /\ SameCall
         /\ stream.active =>
              StreamTo(stream.kind, stream.sub, "open", TRUE, Tail(stream.queue),
                       Append(stream.wire, Head(stream.queue)))
         /\ ~stream.active =>
              StreamTo(stream.kind, stream.sub, "finished", FALSE, <<>>,
                       Append(stream.wire, Head(stream.queue)))
<1>1. stream.queue # <<>> /\ stream.status = "open"
  BY DEF ServerWrites
<1>2. /\ Tail(stream.queue) \in Seq(StreamEvents)
      /\ Append(stream.wire, Head(stream.queue)) \in Seq(StreamEvents)
  <2>1. Head(stream.queue) \in StreamEvents /\ Tail(stream.queue) \in Seq(StreamEvents)
    BY SMT, <1>1, StreamParts
  <2> QED BY SMTT(20), <2>1, StreamParts
<1>3. CASE stream.active
  <2>1. stream' = [stream EXCEPT !.wire = Append(stream.wire, Head(stream.queue)), !.queue = Tail(stream.queue)]
    BY <1>3 DEF ServerWrites
  <2> QED BY <1>1, <1>2, <1>3, <2>1, StreamParts DEF StreamTo, StreamType, SameCall
<1>4. CASE ~stream.active
  <2>1. stream' = [stream EXCEPT !.wire = Append(stream.wire, Head(stream.queue)), !.queue = <<>>,
                                 !.status = "finished"]
    BY <1>4 DEF ServerWrites
  <2> QED BY <1>1, <1>2, <1>4, <2>1, StreamParts, ShortStreams DEF StreamTo, StreamType, SameCall
<1> QED BY <1>3, <1>4

\* A lost connection: what still arrives is a prefix of what was on the wire.
Broken ==
  /\ stream.kind # "none" /\ SameCall
  /\ \E k \in 0..Len(stream.wire) :
       StreamTo(stream.kind, stream.sub, "unavailable", FALSE, <<>>, SubSeq(stream.wire, 1, k))

\* What a lost connection does to the stream.
LEMMA StreamBreaksEffect ==
  ASSUME ControlInv, StreamBreaks
  PROVE  Broken \/ (StreamSame /\ ~(stream.kind # "none" /\ stream.status \in {"open", "finished"}))
<1>1. CASE stream.kind # "none" /\ stream.status \in {"open", "finished"}
  <2>1. PICK k \in 0..Len(stream.wire) :
          stream' = [stream EXCEPT !.status = "unavailable", !.active = FALSE, !.queue = <<>>,
                                   !.wire = SubSeq(stream.wire, 1, k)]
    BY <1>1 DEF StreamBreaks
  <2>2. SubSeq(stream.wire, 1, k) \in Seq(StreamEvents)
    BY SMT, StreamParts
  <2>3. /\ StreamTo(stream.kind, stream.sub, "unavailable", FALSE, <<>>, SubSeq(stream.wire, 1, k))
        /\ SameCall
    BY <2>1, <2>2, StreamParts, ShortStreams DEF StreamTo, StreamType, SameCall
  <2> QED BY <1>1, <2>3 DEF Broken
<1>2. CASE ~(stream.kind # "none" /\ stream.status \in {"open", "finished"})
  <2>1. stream' = stream
    BY <1>2 DEF StreamBreaks
  <2> QED BY <1>2, <2>1, SameStream
<1> QED BY <1>1, <1>2

-----------------------------------------------------------------------------
(* What is published *)

\* A ring, or one that was just made.
RingOrNew(b) == Ring(b) \/ b = Buffer!NewBuffer

\* The daemon takes a message: its number is the one after the last, and it goes to
\* a stream that subscribe() opened.
LEMMA StoreEffect ==
  \A t \in Topics : 
    ControlInv /\ Rings /\ Store(t) =>
    /\ Rings' /\ Reached(t) \in Nat /\ Reached(t)' = Reached(t) + 1
    /\ Knows(registry', DOMAIN registry.local, DOMAIN registry.paused)
    /\ SameCall
    /\ stream.kind = "subscribe" /\ stream.active =>
         StreamTo(stream.kind, stream.sub, stream.status, stream.active,
                  Append(stream.queue, Event("message", t, Reached(t) + 1)), stream.wire)
    /\ ~(stream.kind = "subscribe" /\ stream.active) => StreamSame
\* updateSubscriptionSequence() of an active one.
<1>SequenceMembers. ASSUME NEW r, Shape(r), NEW s, s \in DOMAIN r.local, NEW seq
                    PROVE  Members(UpdateSubscriptionSequence(r, s, seq),
                                   With(r.local, s, [r.local[s] EXCEPT !.last = seq]), r.paused)
  <2> USE <1>SequenceMembers
  <2> DEFINE subs == With(r.local, s, [r.local[s] EXCEPT !.last = seq])
             old == Rec(r.local, r.paused, r.index, r.dirty, r.peers, r.routes)
  <2>1. UpdateSubscriptionSequence(r, s, seq) = PutLocal(r, subs)
    BY DEF UpdateSubscriptionSequence, PutLocal
  <2> HIDE DEF subs
  <2>2. PutLocal(old, subs) = Rec(subs, r.paused, r.index, r.dirty, r.peers, r.routes)
    BY SMT, PutFields
  <2>3. r = old
    BY DEF Shape
  <2>4. Members(Rec(subs, r.paused, r.index, r.dirty, r.peers, r.routes), subs, r.paused)
    BY RecMembers
  <2> HIDE DEF old
  <2> QED BY <2>1, <2>2, <2>3, <2>4 DEF subs
\* updateSubscriptionSequence()
<1>SequenceKnows. ASSUME NEW r, AllKept(r), NEW s, NEW seq \in Nat
                  PROVE  Knows(UpdateSubscriptionSequence(r, s, seq), DOMAIN r.local, DOMAIN r.paused)
  <2> USE <1>SequenceKnows
  <2> DEFINE new == UpdateSubscriptionSequence(r, s, seq)
             sub == [r.local[s] EXCEPT !.last = seq]
             subs == With(r.local, s, sub)
  <2>1. CASE s \notin DOMAIN r.local
    BY <2>1 DEF UpdateSubscriptionSequence, Knows
  <2>2. CASE s \in DOMAIN r.local
    <3>1. Members(new, subs, r.paused)
      BY <2>2, <1>SequenceMembers DEF AllKept
    <3>2. r.local[s] \in Active
      BY <2>2 DEF AllKept
    <3>3. sub \in Active
      BY <3>2 DEF Active
    <3> HIDE DEF sub
    <3>4. DOMAIN subs = DOMAIN r.local \cup {s} /\ \A x \in DOMAIN subs : subs[x] \in Active
      BY <3>3, WithIn DEF AllKept
    <3>5. DOMAIN r.local \cup {s} = DOMAIN r.local
      BY <2>2
    <3> HIDE DEF new, subs
    <3>6. Knows(new, DOMAIN subs, DOMAIN r.paused)
      BY <3>1, <3>4, MembersKnows DEF AllKept
    <3> QED BY <3>4, <3>5, <3>6 DEF new
  <2> QED BY <2>1, <2>2
\* push() keeps the numbers of a ring consecutive.
<1>PushedRing. ASSUME NEW b, RingOrNew(b)
               PROVE  /\ b.next \in Nat \ {0}
                      /\ Buffer!Pushed(b, 0, 0).next = b.next + 1
                      /\ Ring(Buffer!Pushed(b, 0, 0))
  <2> USE <1>PushedRing
  <2> DEFINE M == [seq : Nat, size : Nat, payload : Nat]
             ms == b.messages
             n == Len(ms)
             k == IF n >= PerTopic THEN 1 ELSE 0
             kept == IF n >= PerTopic THEN Tail(ms) ELSE ms
             m == [seq |-> b.next, size |-> 0, payload |-> 0]
             new == Buffer!Pushed(b, 0, 0)
             ns == new.messages
  <2>1. /\ b.next \in Nat /\ ms \in Seq(M) /\ n \in Nat /\ n <= b.next - 1
        /\ \A i \in 1..n : ms[i].seq = b.next - 1 - n + i
    <3>1. CASE Ring(b)
      <4> HIDE DEF M
      <4>1. b.next \in Nat /\ ms \in Seq(M) /\ n \in 1..(b.next - 1)
            /\ \A i \in 1..n : ms[i].seq = b.next - 1 - n + i
        BY <3>1 DEF Ring, M
      <4> QED BY SMT, <4>1
    <3>2. CASE b = Buffer!NewBuffer
      <4>1. b.next = 1 /\ ms = <<>>
        BY <3>2 DEF Buffer!NewBuffer
      <4> QED BY SMT, <4>1
    <3> QED BY <3>1, <3>2 DEF RingOrNew
  <2>2. PerTopic \in Nat \ {0}
    BY ClientAssumption
  <2>3. new.next = b.next + 1 /\ ns = Append(kept, m)
    BY DEF Buffer!Pushed, Buffer!RingFull
  <2>4. m \in M /\ m.seq = b.next
    BY <2>1
  <2> HIDE DEF M, m, new
  <2>5. k \in 0..1 /\ kept \in Seq(M) /\ Len(kept) = n - k /\ \A i \in 1..(n - k) : kept[i] = ms[i + k]
    <3>1. CASE n >= PerTopic
      <4>1. k = 1 /\ kept = Tail(ms)
        BY <3>1
      <4> HIDE DEF kept, k
      <4>2. ms # <<>> /\ n >= 1
        BY SMTT(20), <2>1, <2>2, <3>1
      <4> HIDE DEF n
      <4>3. Tail(ms) \in Seq(M) /\ Len(Tail(ms)) = n - 1 /\ \A i \in 1..(n - 1) : Tail(ms)[i] = ms[i + 1]
        BY SMT, <2>1, <4>2 DEF n
      <4> QED BY SMT, <4>1, <4>3
    <3>2. CASE ~(n >= PerTopic)
      <4>1. k = 0 /\ kept = ms
        BY <3>2
      <4> HIDE DEF kept, k
      <4> QED BY SMT, <2>1, <4>1
    <3> QED BY <3>1, <3>2
  <2> HIDE DEF kept, ms, n, k, ns
  <2>6. /\ ns \in Seq(M) /\ Len(ns) = n - k + 1 /\ ns[n - k + 1] = m
        /\ \A i \in 1..(n - k) : ns[i] = ms[i + k]
    BY SMTT(20), <2>1, <2>3, <2>4, <2>5
  <2>7. n >= k
    BY SMT, <2>1, <2>2 DEF k
  <2>8. Len(ns) \in 1..(new.next - 1) /\ new.next \in Nat /\ b.next \in Nat \ {0}
    BY SMTT(20), <2>1, <2>3, <2>5, <2>6, <2>7
  <2>11. b.next \in Nat /\ n \in Nat /\ k \in 0..1 /\ Len(ns) = n - k + 1 /\ new.next = b.next + 1
    BY <2>1, <2>3, <2>5, <2>6
  <2>9. ASSUME NEW i \in 1..Len(ns) PROVE ns[i].seq = new.next - 1 - Len(ns) + i
    <3>1. CASE i = n - k + 1
      <4>1. ns[i].seq = b.next
        BY <2>4, <2>6, <3>1
      <4> QED BY SMT, <2>11, <3>1, <4>1
    <3>2. CASE i # n - k + 1
      <4>1. i \in 1..(n - k) /\ i + k \in 1..n
        BY SMT, <2>11, <3>2
      <4>2. ns[i].seq = ms[i + k].seq
        BY <2>6, <4>1
      <4>3. ms[i + k].seq = b.next - 1 - n + (i + k)
        BY <2>1, <4>1
      <4>4. b.next - 1 - n + (i + k) = new.next - 1 - Len(ns) + i
        BY SMT, <2>11
      <4> QED BY <4>2, <4>3, <4>4
    <3> QED BY <3>1, <3>2
  <2>10. Ring(new)
    BY <2>6, <2>8, <2>9 DEF Ring, M, ns
  <2> QED BY <2>3, <2>8, <2>10 DEF new
<1> SUFFICES ASSUME NEW t \in Topics, ControlInv, Rings, Store(t)
             PROVE  /\ Rings' /\ Reached(t) \in Nat /\ Reached(t)' = Reached(t) + 1
                    /\ Knows(registry', DOMAIN registry.local, DOMAIN registry.paused)
                    /\ SameCall
                    /\ stream.kind = "subscribe" /\ stream.active =>
                         StreamTo(stream.kind, stream.sub, stream.status, stream.active,
                                  Append(stream.queue, Event("message", t, Reached(t) + 1)), stream.wire)
                    /\ ~(stream.kind = "subscribe" /\ stream.active) => StreamSame
  OBVIOUS
<1> DEFINE b == IF t \in DOMAIN buffers THEN buffers[t] ELSE Buffer!NewBuffer
           live == stream.kind = "subscribe" /\ stream.active
           new == Buffer!Pushed(b, 0, 0)
<1>1. RingOrNew(b)
  BY DEF Rings, RingOrNew
<1>2. b.next = Reached(t) + 1 /\ Reached(t) \in Nat
  <2>1. CASE t \in DOMAIN buffers
    <3>1. Reached(t) = b.next - 1
      BY <2>1 DEF Reached, Buffer!CurrentSequence
    <3> HIDE DEF b
    <3> QED BY SMT, <1>1, <3>1, <1>PushedRing
  <2>2. CASE t \notin DOMAIN buffers
    BY SMT, <2>2 DEF Reached, Buffer!NewBuffer
  <2> QED BY <2>1, <2>2
<1>3. /\ buffers' = With(buffers, t, new)
      /\ live => stream' = [stream EXCEPT !.queue = Append(stream.queue, Event("message", t, b.next))]
      /\ ~live => stream' = stream
      /\ registry' = IF live THEN UpdateSubscriptionSequence(registry, stream.sub, b.next) ELSE registry
  BY DEF Store
<1> HIDE DEF b
<1>4. new.next = b.next + 1 /\ Ring(new)
  BY <1>1, <1>PushedRing
<1> HIDE DEF new
<1>5. /\ DOMAIN buffers' = DOMAIN buffers \cup {t} /\ buffers'[t] = new
      /\ \A u \in DOMAIN buffers : u # t => buffers'[u] = buffers[u]
  BY <1>3 DEF With
<1>6. Rings'
  <2>1. ASSUME NEW u \in DOMAIN buffers' PROVE Ring(buffers'[u])
    BY <1>4, <1>5, <2>1 DEF Rings
  <2>2. DOMAIN buffers' \subseteq Topics
    BY <1>5 DEF Rings
  <2> QED BY <2>1, <2>2 DEF Rings, Ring
<1>7. Reached(t)' = Reached(t) + 1
  <2>1. Reached(t)' = new.next - 1
    BY <1>5 DEF Reached, Buffer!CurrentSequence
  <2> QED BY SMT, <1>2, <1>4, <2>1
<1>8. AllKept(registry)
  BY DEF ControlInv, RegistryOK
<1>9. Knows(registry', DOMAIN registry.local, DOMAIN registry.paused)
  <2>1. Knows(UpdateSubscriptionSequence(registry, stream.sub, b.next),
              DOMAIN registry.local, DOMAIN registry.paused)
    BY SMT, <1>2, <1>8, <1>SequenceKnows
  <2>2. Knows(registry, DOMAIN registry.local, DOMAIN registry.paused)
    BY <1>8 DEF Knows
  <2> QED BY <1>3, <2>1, <2>2
<1>10. CASE live
  <2> DEFINE e == Event("message", t, b.next)
             queue == Append(stream.queue, e)
  <2>1. e \in Messages
    BY SMT, <1>2 DEF Event, Messages
  <2> HIDE DEF e
  <2>2. queue \in Seq(StreamEvents)
    <3>1. e \in StreamEvents
      BY <2>1 DEF StreamEvents
    <3> QED BY SMT, <3>1, StreamParts
  <2>3. stream' = [stream EXCEPT !.queue = queue]
    BY <1>3, <1>10 DEF e
  <2> HIDE DEF queue
  <2>4. StreamTo(stream.kind, stream.sub, stream.status, stream.active, queue, stream.wire) /\ SameCall
    BY <2>2, <2>3, StreamParts DEF StreamTo, StreamType, SameCall
  <2> QED BY <1>2, <1>6, <1>7, <1>9, <1>10, <2>4 DEF queue, e
<1>11. CASE ~live
  <2>1. StreamSame
    BY <1>3, <1>11, SameStream
  <2> QED BY <1>2, <1>6, <1>7, <1>9, <1>11, <2>1 DEF StreamSame
<1> QED BY <1>10, <1>11

-----------------------------------------------------------------------------
(* The control of the client and of the daemon *)

\* What a step leaves alone.
SameUser == user' = user /\ config' = config
SameIds == tracked' = tracked /\ told' = told /\ issued' = issued
SameDaemon == registry' = registry /\ up' = up

\* The rings of the buffer.
LEMMA RingsStep ==
  ASSUME ControlInv, Rings, [Next]_vars
  PROVE  Rings'
<1>1. CASE buffers' = buffers
  BY <1>1 DEF Rings, Ring
<1>2. CASE Crash
  <2>1. buffers' = Empty /\ DOMAIN Empty = {}
    BY <1>2 DEF Crash, Empty
  <2> QED BY <2>1 DEF Rings
<1>3. CASE PublishHandled
  <2>1. Store(user.topic) /\ user.pc = "publish" /\ up
    BY <1>3 DEF PublishHandled
  <2>2. user.topic \in Topics
    <3>1. UserOK
      BY StreamParts
    <3> QED BY <2>1, <3>1 DEF UserOK, Publishing
  <2> QED BY <2>1, <2>2, StoreEffect
<1>4. CASE Deliver
  <2>1. PICK t \in Topics : Store(t) /\ up
    BY <1>4 DEF Deliver
  <2> QED BY <2>1, StoreEffect
<1> QED BY <1>1, <1>2, <1>3, <1>4
        DEF Next, vars, GenStep, UserStep, clientVars, daemonVars, historyVars, OnlyGen, OnlyUser,
            Start, RequestFails, RequestRefused, SubscribeCall, ResumeCall, ReceiveInfo, ReceiveMessage,
            Continue, Abandon, StreamEnds, StreamFails, GenReconnects, GenFailsToConnect, UserReconnects,
            UserFailsToConnect, Publish, PublishReturns, PublishRefused, PublishUnavailable, Unsubscribe,
            UnsubscribeReturns, Close, ClosePauses, CloseReturns, ServerWrites, PauseExpires,
            ConnectionLost, Restart

\* Every step keeps the state of the client and the daemon consistent.
LEMMA NextControl ==
  ControlInv /\ Rings /\ Replayable /\ [Next]_vars => ControlInv'
\* What a lost connection makes of the other thread.
<1>CallBreaksEffect. ASSUME ControlInv, CallBreaks
                     PROVE  UserOK'
  <2> USE <1>CallBreaksEffect
  <2>0. UserOK
    BY StreamParts
  <2> USE DEF UserOK, UserType, UserStates, Publishing
  <2>1. CASE user.pc \in {"answered", "hung"} /\ user' = [user EXCEPT !.pc = "unavailable", !.broken = @ + 1]
    <3>1. user' = [user EXCEPT !.pc = "unavailable", !.broken = user.broken + 1] /\ user.broken + 1 \in Nat
      BY SMT, <2>0, <2>1
    <3> QED BY <2>0, <2>1, <3>1
  <2>2. CASE user.pc = "publish" /\ user' = [user EXCEPT !.pc = "unavailable"]
    BY <2>0, <2>2
  <2>3. CASE user' = Resting
    BY <2>3 DEF Resting
  <2>4. CASE user.pc = "closing" /\ \E s \in user.todo :
               user' = [user EXCEPT !.todo = @ \ {s}, !.unpaused = @ \cup {s}]
    <3>1. PICK s \in user.todo : user' = [user EXCEPT !.todo = @ \ {s}, !.unpaused = @ \cup {s}]
      BY <2>4
    <3> QED BY <2>4, <2>0, <3>1
  <2>5. CASE user' = user
    BY <2>0, <2>5
  <2> QED BY <2>1, <2>2, <2>3, <2>4, <2>5 DEF CallBreaks
\* Reasoning about a part of the invariant at a time.
<1>ControlParts. ASSUME config' = config, config \in Configs, gen' \in GenType,
                        stream' \in StreamType, UserOK',
                        RegistryOK', Ids', StreamOK', InfoFirst', AskedOnce'
                 PROVE  ControlInv'
  BY <1>ControlParts DEF ControlInv, Types
\* A daemon that is left alone.
<1>SameDaemonOK. ASSUME ControlInv, SameDaemon
                 PROVE  RegistryOK' /\ Known' = Known /\ DOMAIN registry'.local = DOMAIN registry.local
  BY <1>SameDaemonOK DEF ControlInv, SameDaemon, RegistryOK, AllKept, Shape, Known
\* A stream of the same subscription, with the registry left alone.
<1>SameStreamOK. ASSUME ControlInv, SameDaemon, StreamSame
                 PROVE  StreamOK'
  BY <1>SameStreamOK DEF ControlInv, SameDaemon, StreamSame, StreamTo, StreamOK
\* Steps of the generator on its own.
<1>GenLocalControl. ASSUME ControlInv, GenLocal
                    PROVE  ControlInv'
  <2> USE <1>GenLocalControl
  <2>1. GenTo(gen'.pc, gen.sid, gen.last) /\ SameUser /\ SameIds /\ SameDaemon /\ stream' = stream
    BY GenLocalEffect DEF daemonVars, SameUser, SameIds, SameDaemon
  <2>2. StreamSame
    BY <2>1, SameStream
  <2>3. UserOK' /\ RegistryOK' /\ StreamOK' /\ Known' = Known
    BY <2>1, <2>2, <1>SameDaemonOK, <1>SameStreamOK, StreamParts DEF SameUser, UserOK
  <2>4. Ids'
    BY <2>1, <2>2, <2>3 DEF ControlInv, Ids, SameIds, GenTo
  <2>5. InfoFirst'
    BY <2>1, GenLocalEffect DEF ControlInv, InfoFirst, Generating, GenTo
  <2>6. AskedOnce'
    BY <2>1, GenLocalEffect DEF ControlInv, AskedOnce, Generating, GenTo, SameUser
  <2> QED BY <2>1, <2>2, <2>3, <2>4, <2>5, <2>6, <1>ControlParts, StreamParts
          DEF SameUser, GenTo, StreamSame, StreamTo
\* Steps of the other thread on its own.
<1>UserLocalControl. ASSUME ControlInv, UserLocal
                     PROVE  ControlInv'
  <2> USE <1>UserLocalControl
  <2>1. UserOK' /\ gen' = gen /\ config' = config /\ SameIds /\ SameDaemon /\ stream' = stream
    BY UserLocalEffect DEF daemonVars, SameIds, SameDaemon
  <2>2. StreamSame
    BY <2>1, SameStream
  <2>3. RegistryOK' /\ StreamOK' /\ Known' = Known
    BY <2>1, <2>2, <1>SameDaemonOK, <1>SameStreamOK
  <2>4. Ids'
    BY <2>1, <2>3 DEF ControlInv, Ids, SameIds
  <2>5. InfoFirst' /\ AskedOnce'
    BY <2>1 DEF ControlInv, InfoFirst, AskedOnce, Generating
  <2> QED BY <2>1, <2>3, <2>4, <2>5, <1>ControlParts, StreamParts
\* A request that finds no daemon.
<1>RequestRefusedControl. ASSUME ControlInv, RequestRefused
                          PROVE  ControlInv'
  <2> USE <1>RequestRefusedControl
  <2>1. SameUser /\ SameIds /\ SameDaemon
    BY DEF RequestRefused, daemonVars, historyVars, SameUser, SameIds, SameDaemon
  <2>2. /\ GenTo("streaming", gen.sid, gen.last)
        /\ StreamTo("none", None, "unavailable", FALSE, <<>>, <<>>)
    BY RequestRefusedEffect
  <2>3. UserOK' /\ RegistryOK' /\ Known' = Known
    BY <2>1, <1>SameDaemonOK, StreamParts DEF SameUser, UserOK
  <2>4. Ids'
    BY <2>1, <2>2, <2>3 DEF ControlInv, Ids, SameIds, GenTo, StreamTo
  <2>5. StreamOK'
    BY <2>2 DEF StreamOK, StreamTo
  <2>6. InfoFirst'
    BY <2>2 DEF InfoFirst, StreamTo
  <2>7. AskedOnce'
    BY <2>1, <2>2 DEF ControlInv, AskedOnce, GenTo, StreamTo, SameUser
  <2> QED BY <2>1, <2>2, <2>3, <2>4, <2>5, <2>6, <2>7, <1>ControlParts, StreamParts
          DEF SameUser, GenTo, StreamTo
\* Subscribe()
<1>SubscribeCallControl. ASSUME ControlInv, SubscribeCall
                         PROVE  ControlInv'
  <2> USE <1>SubscribeCallControl
  <2> DEFINE s == FreshId
  <2>1. /\ SameUser /\ tracked' = tracked /\ told' = told /\ up' = up /\ up
        /\ registry' = AddLocalSubscription(registry, s, Topics)
        /\ issued' = issued \cup {s}
    BY DEF SubscribeCall, historyVars, SameUser
  <2>2. /\ s \in Subs \ issued
        /\ GenTo("streaming", gen.sid, gen.last)
        /\ StreamTo("subscribe", s, "open", TRUE, <<Info>>, <<>>)
    BY SubscribeCallEffect
  <2> HIDE DEF s
  <2>3. AllKept(registry) /\ DOMAIN registry.local \subseteq issued /\ None \notin Subs
    BY ClientAssumption DEF ControlInv, RegistryOK, Ids, Known
  <2>4. Knows(registry', DOMAIN registry.local \cup {s}, DOMAIN registry.paused)
    BY <2>1, <2>2, <2>3, AddKnows
  <2>5. UserOK'
    BY <2>1, StreamParts DEF SameUser, UserOK
  <2>6. RegistryOK'
    BY <2>1, <2>4 DEF RegistryOK, Knows, AllKept, Shape
  <2>7. Ids'
    <3>1. Known' = Known \cup {s}
      BY <2>4 DEF Knows, Known
    <3> QED BY <2>1, <2>2, <3>1 DEF ControlInv, Ids, GenTo, StreamTo
  <2>8. StreamOK'
    BY <2>2, <2>3, <2>4 DEF StreamOK, StreamTo, Knows
  <2>9. InfoFirst'
    <3>1. <<Info>> # <<>> /\ Head(<<Info>>) = Info
      BY SMT
    <3> QED BY <2>2, <3>1 DEF InfoFirst, StreamTo
  <2>10. AskedOnce'
    BY <2>1, <2>2 DEF ControlInv, AskedOnce, GenTo, StreamTo, SameUser
  <2> QED BY <2>1, <2>2, <2>5, <2>6, <2>7, <2>8, <2>9, <2>10, <1>ControlParts, StreamParts
          DEF SameUser, GenTo, StreamTo
\* ResumeSubscribe()
<1>ResumeCallControl. ASSUME ControlInv, Rings, Replayable, ResumeCall
                      PROVE  ControlInv'
  <2> USE <1>ResumeCallControl
  <2>1. /\ SameUser /\ tracked' = tracked /\ issued' = issued /\ up' = up /\ up
        /\ gen.sid # None /\ config.enabled /\ told' \subseteq told
    BY DEF ResumeCall, Resumes, SameUser
  <2>2. GenTo("streaming", gen.sid, gen.last)
    BY ResumeCallEffect
  <2>3. UserOK' /\ gen.sid \in issued
    BY <2>1, StreamParts DEF SameUser, UserOK, ControlInv, Ids
  <2>4. (stream'.kind = "none" => stream'.status = "notfound") => AskedOnce'
    BY <2>1, <2>2 DEF ControlInv, AskedOnce, GenTo, SameUser
  <2>5. CASE gen.sid \notin DOMAIN registry.paused
    <3>1. StreamTo("none", None, "notfound", FALSE, <<>>, <<>>)
      BY <2>5, ResumeCallEffect
    <3>2. SameDaemon
      BY <2>1, <2>5 DEF ResumeCall, SameDaemon
    <3>3. RegistryOK' /\ Known' = Known
      BY <3>2, <1>SameDaemonOK
    <3>4. Ids'
      BY <2>1, <2>2, <3>1, <3>3 DEF ControlInv, Ids, GenTo, StreamTo
    <3>5. StreamOK'
      BY <3>1 DEF StreamOK, StreamTo
    <3>6. InfoFirst'
      BY <3>1 DEF InfoFirst, StreamTo
    <3> QED BY <2>1, <2>2, <2>3, <2>4, <3>1, <3>3, <3>4, <3>5, <3>6, <1>ControlParts, StreamParts
            DEF SameUser, GenTo, StreamTo
  <2>6. CASE gen.sid \in DOMAIN registry.paused
    <3>1. /\ stream' \in StreamType /\ stream'.kind = "resume" /\ stream'.sub = gen.sid
          /\ stream'.status = "open" /\ stream'.active = TRUE
      BY <2>6, ResumeCallEffect DEF StreamTo
    <3>2. registry' = ResumeSubscription(registry, gen.sid) /\ AllKept(registry)
      BY <2>6 DEF ResumeCall, ControlInv, RegistryOK
    <3>3. Knows(registry',
                IF Resumable(registry, gen.sid) THEN DOMAIN registry.local \cup {gen.sid}
                ELSE DOMAIN registry.local,
                DOMAIN registry.paused \ {gen.sid})
      BY <2>6, <3>2, ResumeKnows
    <3>4. RegistryOK'
      BY <2>1, <3>3 DEF RegistryOK, Knows, AllKept, Shape
    <3>5. Ids'
      <4>1. Known' \subseteq Known
        BY <2>6, <3>3 DEF Knows, Known
      <4> QED BY <2>1, <2>2, <2>3, <3>1, <4>1 DEF ControlInv, Ids, GenTo
    <3>6. StreamOK'
      BY <2>1, <3>1 DEF StreamOK
    <3>7. InfoFirst'
      BY <2>2, <3>1 DEF InfoFirst, GenTo
    <3> QED BY <2>1, <2>2, <2>3, <2>4, <3>1, <3>4, <3>5, <3>6, <3>7, <1>ControlParts, StreamParts
            DEF SameUser, GenTo
  <2> QED BY <2>5, <2>6
\* The SubscriptionInfo is read.
<1>ReceiveInfoControl. ASSUME ControlInv, ReceiveInfo
                       PROVE  ControlInv'
  <2> USE <1>ReceiveInfoControl
  <2>1. /\ SameUser /\ SameDaemon /\ issued' = issued
        /\ tracked' = tracked \cup {stream.sub} /\ told' = told \cup {stream.sub}
    BY DEF ReceiveInfo, daemonVars, SameUser, SameDaemon
  <2>2. /\ GenTo("streaming", stream.sub, gen.last)
        /\ stream.wire # <<>>
        /\ StreamTo(stream.kind, stream.sub, stream.status, stream.active, stream.queue,
                    Tail(stream.wire))
    BY ReceiveInfoEffect
  <2>3. stream.kind # "none" /\ stream.sub # None /\ stream.sub \in issued
    BY <2>2 DEF ControlInv, StreamOK, Ids
  <2>4. UserOK' /\ RegistryOK' /\ Known' = Known
    BY <2>1, <1>SameDaemonOK, StreamParts DEF SameUser, UserOK
  <2>5. Ids'
    BY <2>1, <2>2, <2>3, <2>4 DEF ControlInv, Ids, GenTo, StreamTo
  <2>6. StreamOK'
    BY <2>1, <2>2, <2>3 DEF ControlInv, StreamOK, StreamTo, SameDaemon
  <2>7. InfoFirst'
    BY <2>2 DEF InfoFirst, StreamTo, GenTo
  <2>8. AskedOnce'
    BY <2>1, <2>2, <2>3 DEF ControlInv, AskedOnce, GenTo, StreamTo, SameUser
  <2> QED BY <2>1, <2>2, <2>4, <2>5, <2>6, <2>7, <2>8, <1>ControlParts, StreamParts
          DEF SameUser, GenTo, StreamTo
\* No message comes before the SubscriptionInfo.
<1>MessageOfOwn. ASSUME ControlInv, ReceiveMessage
                 PROVE  stream.kind # "none" /\ gen.sid = stream.sub /\ gen.sid # None
  <2> USE <1>MessageOfOwn
  <2>1. stream.wire # <<>> /\ Head(stream.wire) # Info /\ gen.pc = "streaming"
    BY DEF ReceiveMessage, Reads
  <2>2. stream.kind # "none" /\ stream.sub # None
    BY <2>1 DEF ControlInv, StreamOK
  <2>3. gen.sid = stream.sub
    BY <2>1, <2>2 DEF ControlInv, InfoFirst, Generating
  <2> QED BY <2>2, <2>3
\* A message is read.
<1>ReceiveMessageControl. ASSUME ControlInv, ReceiveMessage
                          PROVE  ControlInv'
  <2> USE <1>ReceiveMessageControl
  <2>1. SameUser /\ SameDaemon /\ SameIds
    BY DEF ReceiveMessage, daemonVars, SameUser, SameDaemon, SameIds
  <2>2. /\ GenTo("yield", gen.sid, LastAfter(Head(stream.wire)))
        /\ StreamTo(stream.kind, stream.sub, stream.status, stream.active, stream.queue,
                    Tail(stream.wire))
    BY ReceiveMessageEffect
  <2>3. stream.kind # "none" /\ gen.sid = stream.sub /\ gen.sid # None
    BY <1>MessageOfOwn
  <2>4. UserOK' /\ RegistryOK' /\ Known' = Known
    BY <2>1, <1>SameDaemonOK, StreamParts DEF SameUser, UserOK
  <2>5. Ids'
    BY <2>1, <2>2, <2>4 DEF ControlInv, Ids, GenTo, StreamTo, SameIds
  <2>6. StreamOK'
    BY <2>1, <2>2, <2>3 DEF ControlInv, StreamOK, StreamTo, SameDaemon
  <2>7. InfoFirst'
    BY <2>2, <2>3 DEF InfoFirst, StreamTo, GenTo
  <2>8. AskedOnce'
    BY <2>1, <2>2, <2>3 DEF AskedOnce, GenTo, StreamTo, SameUser
  <2> QED BY <2>1, <2>2, <2>4, <2>5, <2>6, <2>7, <2>8, <1>ControlParts, StreamParts
          DEF SameUser, GenTo, StreamTo
\* The consumer drops the generator.
<1>AbandonControl. ASSUME ControlInv, Abandon
                   PROVE  ControlInv'
  <2> USE <1>AbandonControl
  <2>1. SameUser /\ SameDaemon /\ SameIds
    BY DEF Abandon, daemonVars, historyVars, SameUser, SameDaemon, SameIds
  <2>2. /\ GenTo("abandoned", gen.sid, gen.last)
        /\ StreamTo(stream.kind, stream.sub, "cancelled", FALSE, <<>>, <<>>)
    BY AbandonEffect
  <2>3. UserOK' /\ RegistryOK' /\ Known' = Known
    BY <2>1, <1>SameDaemonOK, StreamParts DEF SameUser, UserOK
  <2>4. Ids'
    BY <2>1, <2>2, <2>3 DEF ControlInv, Ids, GenTo, StreamTo, SameIds
  <2>5. StreamOK'
    BY <2>1, <2>2 DEF ControlInv, StreamOK, StreamTo, SameDaemon
  <2>6. InfoFirst'
    BY <2>2 DEF InfoFirst, Generating, GenTo
  <2>7. AskedOnce'
    BY <2>1, <2>2 DEF ControlInv, AskedOnce, Generating, GenTo, SameUser
  <2> QED BY <2>1, <2>2, <2>3, <2>4, <2>5, <2>6, <2>7, <1>ControlParts, StreamParts
          DEF SameUser, GenTo, StreamTo
\* The cleanup of subscribe().
<1>StreamEndsControl. ASSUME ControlInv, StreamEnds
                      PROVE  ControlInv'
  <2> USE <1>StreamEndsControl
  <2>1. SameUser /\ SameDaemon /\ issued' = issued /\ told' = told /\ tracked' \subseteq tracked
    BY DEF StreamEnds, daemonVars, historyVars, SameUser, SameDaemon
  <2>2. GenTo("done", gen.sid, gen.last) /\ StreamSame
    BY StreamEndsEffect
  <2>3. UserOK' /\ RegistryOK' /\ Known' = Known /\ StreamOK'
    BY <2>1, <2>2, <1>SameDaemonOK, <1>SameStreamOK, StreamParts DEF SameUser, UserOK
  <2>4. Ids'
    BY <2>1, <2>2, <2>3 DEF ControlInv, Ids, GenTo, StreamTo, StreamSame
  <2>5. InfoFirst'
    BY <2>2 DEF InfoFirst, Generating, GenTo
  <2>6. AskedOnce'
    BY <2>1, <2>2 DEF ControlInv, AskedOnce, Generating, GenTo, SameUser
  <2> QED BY <2>1, <2>2, <2>3, <2>4, <2>5, <2>6, <1>ControlParts, StreamParts
          DEF SameUser, GenTo, StreamTo, StreamSame
\* _reconnect() of the generator.
<1>GenReconnectsControl. ASSUME ControlInv, GenReconnects
                         PROVE  ControlInv'
  <2> USE <1>GenReconnectsControl
  <2>1. SameUser /\ SameDaemon /\ SameIds
    BY DEF GenReconnects, daemonVars, historyVars, SameUser, SameDaemon, SameIds
  <2>2. /\ gen.pc = "backoff" /\ StreamSame
        /\ GenTo("raised", gen.sid, gen.last) \/ GenTo("request", gen.sid, gen.last)
    BY GenReconnectsEffect
  <2>3. UserOK' /\ RegistryOK' /\ Known' = Known /\ StreamOK'
    BY <2>1, <2>2, <1>SameDaemonOK, <1>SameStreamOK, StreamParts DEF SameUser, UserOK
  <2>4. Ids'
    BY <2>1, <2>2, <2>3 DEF ControlInv, Ids, GenTo, StreamTo, StreamSame, SameIds
  <2>5. InfoFirst'
    BY <2>2 DEF InfoFirst, Generating, GenTo
  <2>6. AskedOnce'
    BY <2>1, <2>2 DEF ControlInv, AskedOnce, Generating, GenTo, SameUser
  <2> QED BY <2>1, <2>2, <2>3, <2>4, <2>5, <2>6, <1>ControlParts, StreamParts
          DEF SameUser, GenTo, StreamTo, StreamSame
\* _reconnect() of the other thread.
<1>UserReconnectsControl. ASSUME ControlInv, UserReconnects
                          PROVE  ControlInv'
  <2> USE <1>UserReconnectsControl
  <2>1. SameDaemon /\ SameIds /\ config' = config /\ gen' = gen
    BY DEF UserReconnects, daemonVars, historyVars, SameDaemon, SameIds
  <2>2. UserOK' /\ StreamSame
    BY UserReconnectsEffect
  <2>3. RegistryOK' /\ Known' = Known /\ StreamOK'
    BY <2>1, <2>2, <1>SameDaemonOK, <1>SameStreamOK
  <2>4. Ids'
    BY <2>1, <2>2, <2>3 DEF ControlInv, Ids, StreamTo, StreamSame, SameIds
  <2>5. InfoFirst' /\ AskedOnce'
    BY <2>1, <2>2 DEF ControlInv, InfoFirst, AskedOnce, Generating, StreamTo, StreamSame
  <2> QED BY <2>1, <2>2, <2>3, <2>4, <2>5, <1>ControlParts, StreamParts DEF StreamTo, StreamSame
\* The first event of a sequence after another is put at its end.
<1>AppendHead. ASSUME NEW S, NEW q \in Seq(S), NEW e \in S
               PROVE  Append(q, e) # <<>> /\ Head(Append(q, e)) = IF q = <<>> THEN e ELSE Head(q)
  <2> USE <1>AppendHead
  <2>1. Append(q, e) # <<>>
    <3>1. Len(Append(q, e)) = Len(q) + 1 /\ Len(q) \in Nat /\ Len(<<>>) = 0
      BY SMT
    <3> QED BY SMT, <3>1
  <2>2. CASE q = <<>>
    BY SMT, <2>2
  <2>3. CASE q # <<>>
    BY SMT, <2>3
  <2> QED BY <2>1, <2>2, <2>3
\* The daemon takes a message, from whichever client.
<1>StoreControl. ASSUME ControlInv, Rings, NEW t \in Topics, Store(t), up, SameIds, gen' = gen,
                        config' = config, UserOK'
                 PROVE  ControlInv'
  <2> USE <1>StoreControl
  <2>1. /\ Knows(registry', DOMAIN registry.local, DOMAIN registry.paused)
        /\ stream.kind = "subscribe" /\ stream.active =>
             StreamTo(stream.kind, stream.sub, stream.status, stream.active,
                      Append(stream.queue, Event("message", t, Reached(t) + 1)), stream.wire)
        /\ ~(stream.kind = "subscribe" /\ stream.active) => StreamSame
    BY StoreEffect
  <2>2. \E q : /\ StreamTo(stream.kind, stream.sub, stream.status, stream.active, q, stream.wire)
               /\ stream.kind = "none" => q = stream.queue
               /\ q # stream.queue => q # <<>> /\ (stream.queue # <<>> => Head(q) = Head(stream.queue))
    <3>1. CASE stream.kind = "subscribe" /\ stream.active
      <4> DEFINE e == Event("message", t, Reached(t) + 1)
      <4>1. e \in StreamEvents
        <5>1. Reached(t) \in Nat
          BY StoreEffect
        <5>2. e \in Messages
          BY SMT, <5>1 DEF Event, Messages
        <5> QED BY <5>2 DEF StreamEvents
      <4> HIDE DEF e
      <4>2. Append(stream.queue, e) # <<>>
            /\ (stream.queue # <<>> => Head(Append(stream.queue, e)) = Head(stream.queue))
        BY <4>1, <1>AppendHead, StreamParts
      <4>3. StreamTo(stream.kind, stream.sub, stream.status, stream.active,
                     Append(stream.queue, e), stream.wire)
        BY <2>1, <3>1 DEF e
      <4> QED BY <3>1, <4>2, <4>3
    <3>2. CASE ~(stream.kind = "subscribe" /\ stream.active)
      BY <2>1, <3>2 DEF StreamSame
    <3> QED BY <3>1, <3>2
  <2>3. PICK q : /\ StreamTo(stream.kind, stream.sub, stream.status, stream.active, q, stream.wire)
                 /\ stream.kind = "none" => q = stream.queue
                 /\ q # stream.queue => q # <<>> /\ (stream.queue # <<>> => Head(q) = Head(stream.queue))
    BY <2>2
  <2>4. RegistryOK' /\ Known' = Known
    <3>1. up' = up
      BY DEF Store
    <3> QED BY <2>1, <3>1 DEF Knows, RegistryOK, AllKept, Shape, Known
  <2>5. Ids'
    BY <2>3, <2>4 DEF ControlInv, Ids, SameIds, StreamTo
  <2>6. StreamOK'
    BY <2>1, <2>3 DEF ControlInv, StreamOK, StreamTo, Knows
  <2>7. InfoFirst'
    <3> SUFFICES ASSUME Generating', stream'.kind # "none", gen'.sid # stream'.sub
                 PROVE  /\ stream'.wire # <<>> => Head(stream'.wire) = Info
                        /\ stream'.wire = <<>> /\ stream'.status = "open" =>
                             stream'.queue # <<>> /\ Head(stream'.queue) = Info
                        /\ stream'.wire = <<>> => stream'.status # "finished"
      BY DEF InfoFirst
    <3>1. /\ stream.wire # <<>> => Head(stream.wire) = Info
          /\ stream.wire = <<>> /\ stream.status = "open" => stream.queue # <<>> /\ Head(stream.queue) = Info
          /\ stream.wire = <<>> => stream.status # "finished"
      BY <2>3 DEF ControlInv, InfoFirst, StreamTo, Generating
    <3>2. stream'.wire = stream.wire /\ stream'.status = stream.status /\ stream'.queue = q
      BY <2>3 DEF StreamTo
    <3>3. CASE q = stream.queue
      BY <3>1, <3>2, <3>3
    <3>4. CASE q # stream.queue
      BY <2>3, <3>1, <3>2, <3>4
    <3> QED BY <3>3, <3>4
  <2>8. AskedOnce'
    BY <2>3 DEF ControlInv, AskedOnce, StreamTo, Generating
  <2> QED BY <2>3, <2>4, <2>5, <2>6, <2>7, <2>8, <1>ControlParts, StreamParts DEF StreamTo
\* publish() reaches the daemon.
<1>PublishHandledControl. ASSUME ControlInv, Rings, PublishHandled
                          PROVE  ControlInv'
  <2> USE <1>PublishHandledControl
  <2>1. /\ user.pc = "publish" /\ up /\ Store(user.topic) /\ SameIds /\ gen' = gen /\ config' = config
        /\ \/ user' = [user EXCEPT !.pc = "answered", !.copies = user.copies + 1]
           \/ user' = [user EXCEPT !.pc = "hung", !.copies = user.copies + 1]
    BY DEF PublishHandled, SameIds, Store
  <2>2. UserOK
    BY StreamParts
  <2>3. user.topic \in Topics /\ user.copies + 1 \in Nat
    BY SMT, <2>1, <2>2 DEF UserOK, UserType, Publishing
  <2>4. UserOK'
    <3>1. CASE user' = [user EXCEPT !.pc = "answered", !.copies = user.copies + 1]
      BY <2>2, <2>3, <3>1 DEF UserOK, UserType, UserStates, Publishing
    <3>2. CASE user' = [user EXCEPT !.pc = "hung", !.copies = user.copies + 1]
      BY <2>2, <2>3, <3>2 DEF UserOK, UserType, UserStates, Publishing
    <3> QED BY <2>1, <3>1, <3>2
  <2> QED BY <2>1, <2>3, <2>4, <1>StoreControl
\* Another client publishes.
<1>DeliverControl. ASSUME ControlInv, Rings, Deliver
                   PROVE  ControlInv'
  <2> USE <1>DeliverControl
  <2>1. PICK t \in Topics : Store(t)
    BY DEF Deliver
  <2>2. up /\ SameIds /\ gen' = gen /\ config' = config /\ user' = user
    BY <2>1 DEF Deliver, Store, clientVars, SameIds
  <2>3. UserOK'
    BY <2>2, StreamParts DEF UserOK
  <2> QED BY <2>1, <2>2, <2>3, <1>StoreControl
\* Unsubscribe() in the daemon.
<1>RemovedControl. ASSUME ControlInv, NEW s, NEW pause \in BOOLEAN, Removed(s, pause), up, up' = up,
                          SameIds, gen' = gen,
                          config' = config, UserOK'
                   PROVE  ControlInv'
  <2> USE <1>RemovedControl
  <2>1. StreamTo(stream.kind, stream.sub, stream.status, stream.active /\ stream.sub # s,
                 stream.queue, stream.wire)
    BY RemovedEffect
  <2>2. AllKept(registry) /\ registry' = RemoveLocalSubscription(registry, s, pause)
    BY DEF ControlInv, RegistryOK, Removed
  <2>3. Knows(registry', DOMAIN registry.local \ {s},
              IF pause /\ s \in DOMAIN registry.local THEN DOMAIN registry.paused \cup {s}
              ELSE DOMAIN registry.paused)
    BY <2>2, RemoveKnows
  <2>4. RegistryOK' /\ Known' \subseteq Known
    <3>1. RegistryOK'
      BY <2>3 DEF Knows, RegistryOK, AllKept, Shape
    <3>2. Known' \subseteq Known
      BY <2>3 DEF Knows, Known
    <3> QED BY <3>1, <3>2
  <2>5. Ids'
    BY <2>1, <2>4 DEF ControlInv, Ids, SameIds, StreamTo
  <2>6. StreamOK'
    BY <2>1, <2>3 DEF ControlInv, StreamOK, StreamTo, Knows
  <2>7. InfoFirst'
    BY <2>1 DEF ControlInv, InfoFirst, StreamTo, Generating
  <2>8. AskedOnce'
    BY <2>1 DEF ControlInv, AskedOnce, StreamTo, Generating
  <2> QED BY <2>1, <2>4, <2>5, <2>6, <2>7, <2>8, <1>ControlParts, StreamParts DEF StreamTo
\* unsubscribe()
<1>UnsubscribeControl. ASSUME ControlInv, Unsubscribe
                       PROVE  ControlInv'
  <2> USE <1>UnsubscribeControl
  <2>1. PICK pause \in BOOLEAN : Removed(gen.sid, pause)
    BY DEF Unsubscribe
  <2>2. /\ up /\ up' = up /\ SameIds /\ gen' = gen /\ config' = config
        /\ user' = [Resting EXCEPT !.pc = "removed", !.todo = {gen.sid}]
    BY DEF Unsubscribe, historyVars, SameIds
  <2>3. gen.sid \in Subs \cup {None}
    BY StreamParts DEF GenType
  <2>4. UserOK'
    BY <2>2, <2>3 DEF UserOK, UserType, UserStates, Publishing, Resting
  <2> QED BY <2>1, <2>2, <2>4, <1>RemovedControl
\* Steps that leave the stream and the registry alone.
<1>QuietControl. ASSUME ControlInv, stream' = stream, SameDaemon, issued' = issued,
                        tracked' \subseteq tracked,
                        told' \subseteq told, gen' = gen, config' = config, UserOK'
                 PROVE  ControlInv'
  <2> USE <1>QuietControl
  <2>1. StreamSame
    BY SameStream
  <2>2. RegistryOK' /\ StreamOK' /\ Known' = Known
    BY <2>1, <1>SameDaemonOK, <1>SameStreamOK
  <2>3. Ids'
    BY <2>2 DEF ControlInv, Ids
  <2>4. InfoFirst' /\ AskedOnce'
    BY DEF ControlInv, InfoFirst, AskedOnce, Generating
  <2> QED BY <2>2, <2>3, <2>4, <1>ControlParts, StreamParts
\* close() pauses a subscription, if the daemon is there.
<1>ClosePausesControl. ASSUME ControlInv, ClosePauses
                       PROVE  ControlInv'
  <2> USE <1>ClosePausesControl
  <2>1. PICK s \in user.todo :
          /\ IF up THEN Removed(s, TRUE) ELSE UNCHANGED <<registry, stream>>
          /\ user' = [user EXCEPT !.todo = user.todo \ {s}]
    BY DEF ClosePauses
  <2>2. user.pc = "closing" /\ up' = up /\ SameIds /\ gen' = gen /\ config' = config
    BY DEF ClosePauses, historyVars, SameIds
  <2>3. UserOK
    BY StreamParts
  <2>4. UserOK'
    BY <2>1, <2>2, <2>3 DEF UserOK, UserType, UserStates, Publishing
  <2>5. CASE up
    BY <2>1, <2>2, <2>4, <2>5, <1>RemovedControl
  <2>6. CASE ~up
    BY <2>1, <2>2, <2>4, <2>6, <1>QuietControl DEF SameDaemon, SameIds
  <2> QED BY <2>5, <2>6
\* unsubscribe() returns.
<1>UnsubscribeReturnsControl. ASSUME ControlInv, UnsubscribeReturns
                              PROVE  ControlInv'
  <2> USE <1>UnsubscribeReturnsControl
  <2>1. /\ stream' = stream /\ SameDaemon /\ issued' = issued /\ tracked' \subseteq tracked
        /\ told' \subseteq told /\ gen' = gen /\ config' = config /\ user' = Resting
    BY DEF UnsubscribeReturns, daemonVars, SameDaemon
  <2>2. UserOK'
    BY <2>1 DEF UserOK, UserType, UserStates, Publishing, Resting
  <2> QED BY <2>1, <2>2, <1>QuietControl
\* close() returns, and cancels the call.
<1>CloseReturnsControl. ASSUME ControlInv, CloseReturns
                        PROVE  ControlInv'
  <2> USE <1>CloseReturnsControl
  <2>1. SameDaemon /\ SameIds /\ config' = config /\ gen' = gen
    BY DEF CloseReturns, daemonVars, historyVars, SameDaemon, SameIds
  <2>2. /\ UserOK'
        /\ \/ StreamTo(stream.kind, stream.sub, "cancelled", FALSE, <<>>, <<>>)
           \/ StreamSame
    BY CloseReturnsEffect
  <2>3. RegistryOK' /\ Known' = Known
    BY <2>1, <1>SameDaemonOK
  <2>4. Ids'
    BY <2>1, <2>2, <2>3 DEF ControlInv, Ids, StreamTo, StreamSame, SameIds
  <2>5. CASE StreamTo(stream.kind, stream.sub, "cancelled", FALSE, <<>>, <<>>)
    <3>1. StreamOK'
      BY <2>5 DEF ControlInv, StreamOK, StreamTo
    <3>2. InfoFirst'
      BY <2>5 DEF InfoFirst, StreamTo
    <3>3. AskedOnce'
      BY <2>1, <2>5 DEF ControlInv, AskedOnce, StreamTo, Generating
    <3> QED BY <2>1, <2>2, <2>3, <2>4, <2>5, <3>1, <3>2, <3>3, <1>ControlParts, StreamParts DEF StreamTo
  <2>6. CASE StreamSame
    <3>1. StreamOK'
      BY <2>1, <2>6, <1>SameStreamOK
    <3>2. InfoFirst' /\ AskedOnce'
      BY <2>1, <2>6 DEF ControlInv, InfoFirst, AskedOnce, Generating, StreamTo, StreamSame
    <3> QED BY <2>1, <2>2, <2>3, <2>4, <2>6, <3>1, <3>2, <1>ControlParts, StreamParts DEF StreamTo,
               StreamSame
  <2> QED BY <2>2, <2>5, <2>6
\* OnWriteDone()
<1>ServerWritesControl. ASSUME ControlInv, ServerWrites
                        PROVE  ControlInv'
  <2> USE <1>ServerWritesControl
  <2>1. SameDaemon /\ SameIds /\ SameUser /\ gen' = gen
    BY DEF ServerWrites, clientVars, daemonVars, historyVars, SameDaemon, SameIds, SameUser
  <2> DEFINE wire == Append(stream.wire, Head(stream.queue))
  <2>2. PICK status, active, q :
          /\ status \in {"open", "finished"} /\ active \in BOOLEAN
          /\ StreamTo(stream.kind, stream.sub, status, active, q, wire)
          /\ active = stream.active /\ (active => status = "open")
    <3>1. CASE stream.active
      <4>1. stream.active = TRUE
        BY <3>1, StreamParts DEF StreamType
      <4> QED BY <3>1, <4>1, ServerWritesEffect
    <3>2. CASE ~stream.active
      <4>1. stream.active = FALSE
        BY <3>2, StreamParts DEF StreamType
      <4> QED BY <3>2, <4>1, ServerWritesEffect
    <3> QED BY <3>1, <3>2
  <2>3. RegistryOK' /\ Known' = Known /\ DOMAIN registry'.local = DOMAIN registry.local
    BY <2>1, <1>SameDaemonOK
  <2>4. wire # <<>> /\ Head(wire) = IF stream.wire = <<>> THEN Head(stream.queue) ELSE Head(stream.wire)
    <3>1. stream.wire \in Seq(StreamEvents) /\ stream.queue \in Seq(StreamEvents) /\ stream.queue # <<>>
      BY StreamParts, ServerWritesEffect DEF StreamType
    <3>2. Head(stream.queue) \in StreamEvents
      BY SMT, <3>1
    <3> QED BY <3>1, <3>2, <1>AppendHead
  <2>5. Ids'
    BY <2>1, <2>2, <2>3 DEF ControlInv, Ids, StreamTo, SameIds
  <2>6. stream.queue # <<>> /\ stream.status = "open"
    BY ServerWritesEffect
  <2> HIDE DEF wire
  <2>7. StreamOK'
    BY <2>2, <2>3, <2>6 DEF ControlInv, StreamOK, StreamTo
  <2>8. InfoFirst'
    <3> SUFFICES ASSUME Generating', stream'.kind # "none", gen'.sid # stream'.sub
                 PROVE  wire # <<>> /\ Head(wire) = Info
      BY <2>2 DEF InfoFirst, StreamTo
    <3>1. /\ stream.wire # <<>> => Head(stream.wire) = Info
          /\ stream.wire = <<>> => Head(stream.queue) = Info
      BY <2>1, <2>2, <2>6 DEF ControlInv, InfoFirst, StreamTo, Generating
    <3> QED BY <2>4, <3>1
  <2>9. AskedOnce'
    BY <2>1, <2>2, <2>6 DEF ControlInv, AskedOnce, StreamTo, Generating, SameUser
  <2> QED BY <2>1, <2>2, <2>3, <2>5, <2>7, <2>8, <2>9, <1>ControlParts, StreamParts
          DEF StreamTo, SameUser, UserOK
\* A pause is over.
<1>PauseExpiresControl. ASSUME ControlInv, PauseExpires
                        PROVE  ControlInv'
  <2> USE <1>PauseExpiresControl
  <2>1. SameIds /\ SameUser /\ gen' = gen /\ stream' = stream /\ up' = up
    BY DEF PauseExpires, clientVars, SameIds, SameUser
  <2>2. PICK s \in DOMAIN registry.paused :
          registry' = [registry EXCEPT !.paused = With(@, s, [@[s] EXCEPT !.expired = TRUE])]
    BY DEF PauseExpires
  <2>3. Knows(registry', DOMAIN registry.local, DOMAIN registry.paused)
    BY <2>2, ExpiryKnows DEF ControlInv, RegistryOK
  <2>4. RegistryOK' /\ Known' = Known
    BY <2>1, <2>3 DEF ControlInv, Knows, RegistryOK, AllKept, Shape, Known
  <2>5. Ids'
    BY <2>1, <2>4 DEF ControlInv, Ids, SameIds
  <2>6. StreamOK'
    BY <2>1, <2>3 DEF ControlInv, StreamOK, Knows
  <2>7. InfoFirst' /\ AskedOnce'
    BY <2>1 DEF ControlInv, InfoFirst, AskedOnce, Generating, SameUser
  <2> QED BY <2>1, <2>4, <2>5, <2>6, <2>7, <1>ControlParts, StreamParts DEF SameUser, UserOK
\* A prefix of a sequence has the same first element, or none.
<1>PrefixHead. ASSUME NEW S, NEW q \in Seq(S), NEW k \in 0..Len(q), SubSeq(q, 1, k) # <<>>
               PROVE  q # <<>> /\ Head(SubSeq(q, 1, k)) = Head(q)
  <2> USE <1>PrefixHead
  <2>1. k # 0
    BY SMT
  <2>2. SubSeq(q, 1, k)[1] = q[1] /\ Len(q) # 0
    BY SMT, <2>1
  <2> QED BY SMT, <2>2
\* The stream breaks, or is over and stays as it is.
<1>BreakControl. ASSUME ControlInv, Broken \/ StreamSame, SameIds, gen' = gen, config' = config, UserOK',
                        RegistryOK', Known' \subseteq Known,
                        StreamSame => StreamOK'
                 PROVE  ControlInv'
  <2> USE <1>BreakControl
  <2>1. CASE Broken
    <3>1. PICK k \in 0..Len(stream.wire) :
            StreamTo(stream.kind, stream.sub, "unavailable", FALSE, <<>>, SubSeq(stream.wire, 1, k))
      BY <2>1 DEF Broken
    <3> DEFINE wire == SubSeq(stream.wire, 1, k)
    <3>2. stream.kind # "none" /\ stream.wire \in Seq(StreamEvents)
      BY <2>1, StreamParts DEF Broken, StreamType
    <3>3. wire # <<>> => stream.wire # <<>> /\ Head(wire) = Head(stream.wire)
      BY <3>2, <1>PrefixHead
    <3>4. StreamTo(stream.kind, stream.sub, "unavailable", FALSE, <<>>, wire)
      BY <3>1
    <3> HIDE DEF wire
    <3>5. Ids'
      BY <3>4 DEF ControlInv, Ids, StreamTo, SameIds
    <3>6. StreamOK'
      BY <3>2, <3>4 DEF ControlInv, StreamOK, StreamTo
    <3>7. InfoFirst'
      <4> SUFFICES ASSUME Generating', stream'.kind # "none", gen'.sid # stream'.sub, wire # <<>>
                   PROVE  Head(wire) = Info
        BY <3>4 DEF InfoFirst, StreamTo
      <4>1. stream.wire # <<>> => Head(stream.wire) = Info
        BY <3>4 DEF ControlInv, InfoFirst, StreamTo, Generating
      <4> QED BY <3>3, <4>1
    <3>8. AskedOnce'
      BY <3>2, <3>4 DEF ControlInv, AskedOnce, StreamTo, Generating
    <3> QED BY <3>4, <3>5, <3>6, <3>7, <3>8, <1>ControlParts, StreamParts DEF StreamTo
  <2>2. CASE StreamSame
    <3>1. Ids'
      BY <2>2 DEF ControlInv, Ids, StreamTo, StreamSame, SameIds
    <3>2. InfoFirst' /\ AskedOnce'
      BY <2>2 DEF ControlInv, InfoFirst, AskedOnce, Generating, StreamTo, StreamSame
    <3> QED BY <2>2, <3>1, <3>2, <1>ControlParts, StreamParts DEF StreamTo, StreamSame
  <2> QED BY <2>1, <2>2
\* The connection is lost.
<1>ConnectionLostControl. ASSUME ControlInv, ConnectionLost
                          PROVE  ControlInv'
  <2> USE <1>ConnectionLostControl
  <2>1. SameDaemon /\ SameIds /\ config' = config /\ gen' = gen
    BY DEF ConnectionLost, daemonVars, SameDaemon, SameIds
  <2>2. /\ StreamBreaks \/ stream' = stream
        /\ CallBreaks \/ user' = user
    BY DEF ConnectionLost
  <2>3. Broken \/ StreamSame
    BY <2>2, StreamBreaksEffect, SameStream
  <2>4. UserOK'
    BY <2>2, <1>CallBreaksEffect, StreamParts DEF UserOK
  <2> QED BY <2>1, <2>3, <2>4, <1>BreakControl, <1>SameDaemonOK, <1>SameStreamOK
\* The daemon crashes.
<1>CrashControl. ASSUME ControlInv, Crash
                 PROVE  ControlInv'
  <2> USE <1>CrashControl
  <2>1. /\ SameIds /\ config' = config /\ gen' = gen /\ up' = FALSE /\ registry' = NewRegistry
        /\ StreamBreaks /\ CallBreaks
    BY DEF Crash, SameIds
  <2>2. UserOK'
    BY <2>1, <1>CallBreaksEffect
  <2>3. Knows(registry', {}, {})
    BY <2>1, NewKnows
  <2>4. RegistryOK' /\ Known' = {}
    BY <2>3 DEF Knows, RegistryOK, AllKept, Shape, Known
  <2>5. Broken \/ (StreamSame /\ ~(stream.kind # "none" /\ stream.status \in {"open", "finished"}))
    BY <2>1, StreamBreaksEffect
  <2>6. CASE Broken
    <3>1. ~StreamSame \/ StreamOK'
      <4> SUFFICES ASSUME StreamSame PROVE StreamOK'
        OBVIOUS
      <4>1. stream'.status = "unavailable" /\ stream'.active = FALSE /\ stream.kind # "none"
        BY <2>6 DEF Broken, StreamTo
      <4> QED BY <4>1 DEF ControlInv, StreamOK, StreamSame, StreamTo
    <3> QED BY <2>1, <2>2, <2>4, <2>6, <3>1, <1>BreakControl
  <2>7. CASE StreamSame /\ ~(stream.kind # "none" /\ stream.status \in {"open", "finished"})
    <3>1. StreamOK'
      <4>1. ~stream.active
        BY <2>7 DEF ControlInv, StreamOK
      <4>2. stream'.sub \notin DOMAIN registry'.local
        BY <2>3 DEF Knows
      <4> QED BY <2>7, <4>1, <4>2 DEF ControlInv, StreamOK, StreamSame, StreamTo
    <3> QED BY <2>1, <2>2, <2>4, <2>7, <3>1, <1>BreakControl
  <2> QED BY <2>5, <2>6, <2>7
\* The daemon starts again.
<1>RestartControl. ASSUME ControlInv, Restart
                   PROVE  ControlInv'
  <2> USE <1>RestartControl
  <2>1. SameIds /\ SameUser /\ gen' = gen /\ stream' = stream /\ registry' = registry /\ up' = TRUE
    BY DEF Restart, clientVars, historyVars, SameIds, SameUser
  <2>2. RegistryOK' /\ Known' = Known
    BY <2>1 DEF ControlInv, RegistryOK, AllKept, Shape, Known
  <2>3. Ids' /\ StreamOK' /\ InfoFirst' /\ AskedOnce'
    BY <2>1, <2>2 DEF ControlInv, Ids, StreamOK, InfoFirst, AskedOnce, Generating, SameUser, SameIds
  <2> QED BY <2>1, <2>2, <2>3, <1>ControlParts, StreamParts DEF SameUser, UserOK
<1> SUFFICES ASSUME ControlInv, Rings, Replayable, [Next]_vars
             PROVE  ControlInv'
  OBVIOUS
<1>1. CASE UNCHANGED vars
  <2>1. /\ stream' = stream /\ SameDaemon /\ issued' = issued /\ tracked' \subseteq tracked
        /\ told' \subseteq told /\ gen' = gen /\ config' = config /\ user' = user
    BY <1>1 DEF vars, clientVars, daemonVars, historyVars, SameDaemon
  <2>2. UserOK'
    BY <2>1, StreamParts DEF UserOK
  <2> QED BY <2>1, <2>2, <1>QuietControl
<1>2. CASE GenLocal
  BY <1>2, <1>GenLocalControl
<1>3. CASE UserLocal
  BY <1>3, <1>UserLocalControl
<1> QED BY <1>1, <1>2, <1>3, <1>RequestRefusedControl, <1>SubscribeCallControl, <1>ResumeCallControl,
           <1>ReceiveInfoControl, <1>ReceiveMessageControl, <1>AbandonControl, <1>StreamEndsControl,
           <1>GenReconnectsControl, <1>UserReconnectsControl, <1>PublishHandledControl, <1>DeliverControl,
           <1>UnsubscribeControl, <1>ClosePausesControl, <1>UnsubscribeReturnsControl, <1>CloseReturnsControl,
           <1>ServerWritesControl, <1>PauseExpiresControl, <1>ConnectionLostControl, <1>CrashControl, <1>RestartControl
        DEF Next, GenStep, UserStep, GenLocal, UserLocal

-----------------------------------------------------------------------------
(* close() *)

\* The other thread, when it does not begin or end close().
UserStays == user.pc = "closed" \/ user'.pc = "closed" => user' = user

StillCloses ==
  user'.pc = "closing" =>
    user.pc = "closing" /\ user.todo \cup user.unpaused \subseteq user'.todo \cup user'.unpaused

\* No subscription becomes active.
NoneOpened == DOMAIN registry'.local \subseteq DOMAIN registry.local

\* The call the generator reads is over, as far as it was.
StaysOver ==
  /\ gen'.pc = "backoff" => gen.pc = "backoff"
  /\ Generating' => /\ Generating
                    /\ stream.status = "cancelled" <=> stream'.status = "cancelled"
                    /\ stream.status = "unavailable" => stream'.status = "unavailable"

\* Every step keeps what close() relies on.
LEMMA NextClose ==
  ControlInv /\ Rings /\ Replayable /\ CloseInv /\ [Next]_vars => CloseInv'
\* A step that opens nothing leaves close() what it knows.
<1>KnowsSame. ASSUME CloseInv, NoneOpened, UserStays, StillCloses, told' = told, tracked' = tracked,
                     issued' = issued
              PROVE  CloseKnows'
  <2> USE <1>KnowsSame
  <2>1. CASE user'.pc = "closed"
    BY <2>1 DEF CloseKnows
  <2>2. CASE user'.pc # "closed"
    <3>1. user.pc # "closed"
      BY <2>2 DEF UserStays
    <3> QED BY <2>2, <3>1 DEF CloseInv, CloseKnows, NoneOpened, StillCloses
  <2> QED BY <2>1, <2>2
\* A call that goes on is not cancelled.
<1>CancelsSame. ASSUME CloseInv, StaysOver, UserStays
                PROVE  CloseCancels'
  BY <1>CancelsSame DEF CloseInv, CloseCancels, StaysOver, UserStays
\* What close() left stays so.
<1>LeavesSame. ASSUME CloseInv, StaysOver, UserStays, NoneOpened, channel' = channel, config' = config
               PROVE  CloseLeaves'
  <2> USE <1>LeavesSame
  <2> SUFFICES ASSUME user'.pc = "closed", ~user'.late
               PROVE  /\ ~channel' /\ gen'.pc # "backoff"
                      /\ Generating' =>
                           stream'.status = "cancelled" \/ (stream'.status = "unavailable" /\ ~config'.enabled)
                      /\ DOMAIN registry'.local \subseteq user'.unpaused
    BY DEF CloseLeaves
  <2>1. user' = user
    BY DEF UserStays
  <2> QED BY <2>1 DEF CloseInv, CloseLeaves, StaysOver, NoneOpened
\* Steps that neither open nor cancel.
<1>CloseSame. ASSUME CloseInv, StaysOver, UserStays, StillCloses, NoneOpened, channel' = channel,
                     config' = config,
                     told' = told, tracked' = tracked, issued' = issued
              PROVE  CloseInv'
  BY <1>CloseSame, <1>KnowsSame, <1>CancelsSame, <1>LeavesSame DEF CloseInv
\* Steps made while there is a channel, or while the generator makes one: close() has not
\* returned, or came too late.
<1>CloseOpen. ASSUME CloseInv, CloseKnows', channel \/ gen.pc = "backoff", user' = user,
                     ~Generating' \/ stream'.status # "cancelled"
              PROVE  CloseInv'
  <2> USE <1>CloseOpen
  <2>1. ~(user'.pc = "closed" /\ ~user'.late)
    BY DEF CloseInv, CloseLeaves
  <2> QED BY <2>1 DEF CloseInv, CloseLeaves, CloseCancels
\* The other thread does nothing.
<1>UserSame. ASSUME user' = user PROVE UserStays /\ StillCloses
  BY <1>UserSame DEF UserStays, StillCloses
\* Steps of the generator on its own.
<1>GenLocalClose. ASSUME ControlInv, CloseInv, GenLocal
                  PROVE  CloseInv'
  <2> USE <1>GenLocalClose
  <2>1. /\ config' = config /\ channel' = channel /\ tracked' = tracked /\ user' = user
        /\ stream' = stream /\ registry' = registry /\ issued' = issued /\ told' = told
    BY GenLocalEffect DEF daemonVars
  <2>2. NoneOpened
    BY <2>1 DEF NoneOpened
  <2>3. CASE Start
    <3>1. channel /\ ~Generating'
      BY <2>3, StreamParts DEF Start, Generating, GenType
    <3>2. CloseKnows'
      BY <2>1, <2>2, <1>UserSame, <1>KnowsSame
    <3> QED BY <2>1, <3>1, <3>2, <1>CloseOpen
  <2>4. CASE ~Start /\ ~StreamFails
    <3>1. StaysOver
      <4>1. CASE RequestFails
        BY <2>1, <4>1, StreamParts DEF RequestFails, StaysOver, Generating, GenType
      <4>2. CASE Continue
        BY <2>1, <4>2, StreamParts DEF Continue, StaysOver, Generating, GenType
      <4>3. CASE GenFailsToConnect
        BY <2>1, <4>3, StreamParts DEF GenFailsToConnect, StaysOver, Generating, GenType
      <4> QED BY <2>4, <4>1, <4>2, <4>3 DEF GenLocal
    <3> QED BY <2>1, <2>2, <3>1, <1>UserSame, <1>CloseSame
  <2>5. CASE StreamFails
    <3>1. /\ Generating /\ stream.status \in {"notfound", "unavailable"} /\ ~Generating'
          /\ gen'.pc = "backoff" => stream.status = "unavailable" /\ config.enabled
      BY <2>5, StreamParts DEF StreamFails, Ends, AfterError, Generating, GenType
    <3>2. CloseKnows'
      BY <2>1, <2>2, <1>UserSame, <1>KnowsSame
    <3>3. CloseCancels'
      BY <3>1 DEF CloseCancels
    <3>4. CloseLeaves'
      BY <2>1, <3>1 DEF CloseInv, CloseLeaves
    <3> QED BY <3>2, <3>3, <3>4 DEF CloseInv
  <2> QED BY <2>3, <2>4, <2>5
\* Steps of the other thread on its own.
<1>UserLocalClose. ASSUME ControlInv, CloseInv, UserLocal
                   PROVE  CloseInv'
  <2> USE <1>UserLocalClose
  <2>1. /\ config' = config /\ channel' = channel /\ tracked' = tracked /\ gen' = gen
        /\ stream' = stream /\ registry' = registry /\ issued' = issued /\ told' = told
    BY UserLocalEffect DEF daemonVars
  <2>2. NoneOpened /\ StaysOver
    BY <2>1 DEF NoneOpened, StaysOver, Generating
  <2>3. UserOK
    BY StreamParts
  <2>4. CASE Close
    <3>1. /\ user.pc = "idle" /\ user'.pc = "closing" /\ user'.todo = tracked
      BY <2>4 DEF Close, Resting
    <3>2. UserStays
      BY <3>1 DEF UserStays
    <3>3. CloseKnows'
      <4>1. \A s \in DOMAIN registry.local : s \in tracked \/ s \in issued \ told
        <5>1. DOMAIN registry.local \subseteq issued
          BY DEF ControlInv, Ids, Known
        <5>2. \A s \in DOMAIN registry.local \cap told : s \in tracked
          BY <3>1 DEF CloseInv, CloseKnows
        <5> QED BY <5>1, <5>2
      <4>2. DOMAIN registry'.local \subseteq user'.todo \cup user'.unpaused \cup (issued' \ told')
        BY <2>1, <3>1, <4>1
      <4>3. \A s \in DOMAIN registry'.local \cap told' : s \in tracked'
        BY <2>1, <4>1
      <4> QED BY <4>2, <4>3 DEF CloseKnows
    <3> QED BY <2>1, <2>2, <3>2, <3>3, <1>CancelsSame, <1>LeavesSame DEF CloseInv
  <2>5. CASE ~Close
    <3>1. UserStays /\ StillCloses
      <4>1. CASE Publish
        BY <4>1 DEF Publish, Resting, UserStays, StillCloses
      <4>2. CASE PublishReturns
        BY <4>2 DEF PublishReturns, Returns, Resting, UserStays, StillCloses
      <4>3. CASE PublishRefused
        BY <2>3, <4>3 DEF PublishRefused, UserOK, UserType, UserStays, StillCloses
      <4>4. CASE PublishUnavailable
        BY <2>3, <4>4 DEF PublishUnavailable, Returns, Resting, UserOK, UserType, UserStays, StillCloses
      <4>5. CASE UserFailsToConnect
        BY <2>3, <4>5 DEF UserFailsToConnect, UserOK, UserType, UserStays, StillCloses
      <4> QED BY <2>5, <4>1, <4>2, <4>3, <4>4, <4>5 DEF UserLocal
    <3> QED BY <2>1, <2>2, <3>1, <1>CloseSame
  <2> QED BY <2>4, <2>5
\* A request: the daemon does not answer, or opens a subscription close() does not know of.
<1>RequestClose. ASSUME ControlInv, Rings, Replayable, CloseInv,
                        RequestRefused \/ SubscribeCall \/ ResumeCall
                 PROVE  CloseInv'
  <2> USE <1>RequestClose
  <2>1. channel /\ user' = user /\ tracked' = tracked
    BY DEF RequestRefused, SubscribeCall, ResumeCall
  <2>2. stream'.status # "cancelled"
    <3>1. CASE RequestRefused
      BY <3>1, RequestRefusedEffect DEF StreamTo
    <3>2. CASE SubscribeCall
      BY <3>2, SubscribeCallEffect DEF StreamTo
    <3>3. CASE ResumeCall
      <4>1. stream'.status = "open" \/ stream'.status = "notfound"
        BY <3>3, ResumeCallEffect DEF StreamTo
      <4> QED BY <4>1
    <3> QED BY <3>1, <3>2, <3>3
  <2>3. CASE RequestRefused
    <3>1. registry' = registry /\ issued' = issued /\ told' = told
      BY <2>3 DEF RequestRefused, daemonVars, historyVars
    <3>2. CloseKnows'
      BY <2>1, <3>1, <1>UserSame, <1>KnowsSame DEF NoneOpened
    <3> QED BY <2>1, <2>2, <3>2, <1>CloseOpen
  <2>4. CASE \E s \in issued' :
               /\ DOMAIN registry'.local \subseteq DOMAIN registry.local \cup {s}
               /\ told' \subseteq told \ {s} /\ issued \subseteq issued'
               /\ told \ {s} \subseteq told'
    <3>1. CloseKnows'
      BY <2>1, <2>4 DEF CloseInv, CloseKnows
    <3> QED BY <2>1, <2>2, <3>1, <1>CloseOpen
  <2>5. CASE SubscribeCall
    <3>1. /\ registry' = AddLocalSubscription(registry, FreshId, Topics)
          /\ issued' = issued \cup {FreshId} /\ told' = told
      BY <2>5 DEF SubscribeCall, historyVars
    <3>2. FreshId \notin issued
      BY <2>5, SubscribeCallEffect
    <3>3. FreshId \notin told /\ FreshId \notin DOMAIN registry.local /\ AllKept(registry)
      BY <3>2 DEF ControlInv, Ids, Known, RegistryOK
    <3>4. DOMAIN registry'.local = DOMAIN registry.local \cup {FreshId}
      BY <3>1, <3>3, AddKnows DEF Knows
    <3>5. FreshId \in issued' /\ told' = told \ {FreshId} /\ issued \subseteq issued'
      BY <3>1, <3>3
    <3> QED BY <2>4, <3>4, <3>5
  <2>6. CASE ResumeCall /\ gen.sid \in DOMAIN registry.paused
    <3>1. /\ registry' = ResumeSubscription(registry, gen.sid) /\ told' = told \ {gen.sid} /\ issued' = issued
      BY <2>6 DEF ResumeCall
    <3>2. AllKept(registry) /\ gen.sid \in issued
      BY <2>6 DEF ControlInv, RegistryOK, Ids, Known
    <3>3. DOMAIN registry'.local \subseteq DOMAIN registry.local \cup {gen.sid}
      BY <2>6, <3>1, <3>2, ResumeKnows DEF Knows
    <3> QED BY <2>4, <3>1, <3>2, <3>3
  <2>7. CASE ResumeCall /\ gen.sid \notin DOMAIN registry.paused
    <3>1. registry' = registry /\ issued' = issued /\ told' = told
      BY <2>7 DEF ResumeCall
    <3>2. CloseKnows'
      BY <2>1, <3>1, <1>UserSame, <1>KnowsSame DEF NoneOpened
    <3> QED BY <2>1, <2>2, <3>2, <1>CloseOpen
  <2> QED BY <2>3, <2>5, <2>6, <2>7
\* The SubscriptionInfo: close() knows of the subscription from now on.
<1>ReceiveInfoClose. ASSUME ControlInv, CloseInv, ReceiveInfo
                     PROVE  CloseInv'
  <2> USE <1>ReceiveInfoClose
  <2>1. /\ config' = config /\ channel' = channel /\ user' = user /\ registry' = registry /\ issued' = issued
        /\ tracked' = tracked \cup {stream.sub} /\ told' = told \cup {stream.sub}
        /\ user.pc # "closing" /\ gen.pc = "streaming"
    BY DEF ReceiveInfo, daemonVars, Unlocked, Reads
  <2>2. gen'.pc = "streaming" /\ stream'.status = stream.status
    BY ReceiveInfoEffect DEF GenTo, StreamTo
  <2>3. StaysOver /\ NoneOpened
    BY <2>1, <2>2 DEF StaysOver, Generating, NoneOpened
  <2>4. CloseKnows'
    BY <2>1 DEF CloseInv, CloseKnows
  <2> QED BY <2>1, <2>3, <2>4, <1>UserSame, <1>CancelsSame, <1>LeavesSame DEF CloseInv
\* A message, or the end of the consumer.
<1>ReceiveMessageClose. ASSUME ControlInv, CloseInv, ReceiveMessage \/ Abandon
                        PROVE  CloseInv'
  <2> USE <1>ReceiveMessageClose
  <2>1. /\ config' = config /\ channel' = channel /\ user' = user /\ registry' = registry /\ issued' = issued
        /\ tracked' = tracked /\ told' = told
    BY DEF ReceiveMessage, Abandon, daemonVars, historyVars
  <2>2. NoneOpened
    BY <2>1 DEF NoneOpened
  <2>3. StaysOver
    <3>1. CASE ReceiveMessage
      <4>1. gen'.pc = "yield" /\ gen.pc = "streaming" /\ stream'.status = stream.status
        BY <3>1, ReceiveMessageEffect DEF GenTo, StreamTo
      <4> QED BY <4>1 DEF StaysOver, Generating
    <3>2. CASE Abandon
      BY <3>2, AbandonEffect DEF GenTo, StaysOver, Generating
    <3> QED BY <3>1, <3>2
  <2> QED BY <2>1, <2>2, <2>3, <1>UserSame, <1>CloseSame
\* The cleanup of subscribe(): a stream that ended is not of an active subscription.
<1>StreamEndsClose. ASSUME ControlInv, CloseInv, StreamEnds
                    PROVE  CloseInv'
  <2> USE <1>StreamEndsClose
  <2>1. /\ config' = config /\ channel' = channel /\ user' = user /\ registry' = registry /\ issued' = issued
        /\ tracked' = tracked \ {gen.sid} /\ told' = told /\ user.pc # "closing"
        /\ gen.pc = "streaming" /\ stream.wire = <<>> /\ stream.status \in {"finished", "cancelled"}
    BY DEF StreamEnds, Ends, Unlocked, daemonVars, historyVars
  <2>2. gen'.pc = "done"
    BY StreamEndsEffect DEF GenTo
  <2>3. StaysOver /\ NoneOpened
    BY <2>1, <2>2 DEF StaysOver, Generating, NoneOpened
  <2>4. user.pc = "closed" \/ gen.sid \notin DOMAIN registry.local
    <3>1. CASE stream.status = "cancelled"
      BY <2>1, <3>1 DEF CloseInv, CloseCancels, Generating
    <3>2. CASE stream.status = "finished"
      <4>1. stream.kind # "none"
        BY <2>1, <3>2 DEF ControlInv, AskedOnce, Generating
      <4>2. gen.sid = stream.sub
        BY <2>1, <3>2, <4>1 DEF ControlInv, InfoFirst, Generating
      <4>3. stream.sub \notin DOMAIN registry.local
        BY <3>2 DEF ControlInv, StreamOK
      <4> QED BY <4>2, <4>3
    <3> QED BY <2>1, <3>1, <3>2
  <2>5. CloseKnows'
    BY <2>1, <2>4 DEF CloseInv, CloseKnows
  <2> QED BY <2>1, <2>3, <2>5, <1>UserSame, <1>CancelsSame, <1>LeavesSame DEF CloseInv
\* _reconnect() of either thread.
<1>ReconnectsClose. ASSUME ControlInv, CloseInv, GenReconnects \/ UserReconnects
                    PROVE  CloseInv'
  <2> USE <1>ReconnectsClose
  <2>1. config' = config /\ tracked' = tracked /\ registry' = registry /\ issued' = issued /\ told' = told
    BY DEF GenReconnects, UserReconnects, daemonVars, historyVars
  <2>2. NoneOpened
    BY <2>1 DEF NoneOpened
  <2>3. CASE GenReconnects
    <3>1. gen.pc = "backoff" /\ ~Generating' /\ user' = user
      <4>1. gen.pc = "backoff" /\ (gen'.pc = "raised" \/ gen'.pc = "request")
        BY <2>3, GenReconnectsEffect DEF GenTo
      <4>2. user' = user
        BY <2>3 DEF GenReconnects
      <4> QED BY <4>1, <4>2 DEF Generating
    <3>2. CloseKnows'
      BY <2>1, <2>2, <3>1, <1>UserSame, <1>KnowsSame
    <3> QED BY <3>1, <3>2, <1>CloseOpen
  <2>4. CASE UserReconnects
    <3>1. user.pc = "backoff" /\ user'.pc \in {"idle", "publish"}
      <4>1. UserOK /\ user.pc = "backoff"
        BY <2>4, StreamParts DEF UserReconnects
      <4> QED BY <2>4, <4>1 DEF UserReconnects, Returns, Resting, UserOK, UserType
    <3>2. UserStays /\ StillCloses
      BY <3>1 DEF UserStays, StillCloses
    <3>3. StaysOver
      <4>1. gen' = gen /\ stream'.status = stream.status
        BY <2>4, UserReconnectsEffect DEF UserReconnects, StreamSame, StreamTo
      <4> QED BY <4>1 DEF StaysOver, Generating
    <3>4. CloseLeaves'
      BY <3>1 DEF CloseLeaves
    <3> QED BY <2>1, <2>2, <3>2, <3>3, <3>4, <1>KnowsSame, <1>CancelsSame DEF CloseInv
  <2> QED BY <2>3, <2>4
\* The daemon takes a message, removes a subscription or writes; the connection is lost, the
\* daemon crashes or comes back.
<1>DaemonClose. ASSUME CloseInv, NoneOpened, UserStays, StillCloses, config' = config,
                       channel' = channel,
                       tracked' = tracked, told' = told, issued' = issued, gen' = gen,
                       \/ stream'.status = stream.status
                       \/ stream.status \in {"open", "finished"} /\ stream'.status \in {"finished", "unavailable"}
                PROVE  CloseInv'
  <2> USE <1>DaemonClose
  <2>1. StaysOver
    BY DEF StaysOver, Generating
  <2> QED BY <2>1, <1>CloseSame
\* publish() and close()
<1>StoreClose. ASSUME ControlInv, Rings, CloseInv, PublishHandled \/ Deliver
               PROVE  CloseInv'
  <2> USE <1>StoreClose
  <2>1. /\ config' = config /\ channel' = channel /\ tracked' = tracked /\ told' = told /\ gen' = gen
    BY DEF PublishHandled, Deliver, clientVars
  <2>2. PICK t \in Topics : Store(t) /\ up
    <3>1. CASE Deliver
      BY <3>1 DEF Deliver
    <3>2. CASE PublishHandled
      <4>1. UserOK /\ user.pc = "publish" /\ Store(user.topic) /\ up
        BY <3>2, StreamParts DEF PublishHandled
      <4>2. user.topic \in Topics
        BY <4>1 DEF UserOK, Publishing
      <4> QED BY <4>1, <4>2
    <3> QED BY <3>1, <3>2
  <2>3. NoneOpened /\ stream'.status = stream.status /\ issued' = issued
    BY <2>2, StoreEffect DEF Knows, NoneOpened, StreamTo, StreamSame, Store
  <2>4. UserStays /\ StillCloses
    <3>1. CASE Deliver
      <4>1. user' = user
        BY <3>1 DEF Deliver, clientVars
      <4> QED BY <4>1, <1>UserSame
    <3>2. CASE PublishHandled
      <4>1. user.pc = "publish" /\ user'.pc \in {"answered", "hung"}
        <5>1. UserOK
          BY StreamParts
        <5> QED BY <3>2, <5>1 DEF PublishHandled, UserOK, UserType
      <4> QED BY <4>1 DEF UserStays, StillCloses
    <3> QED BY <3>1, <3>2
  <2> QED BY <2>1, <2>3, <2>4, <1>DaemonClose
\* unsubscribe()
<1>UnsubscribeClose. ASSUME ControlInv, CloseInv, Unsubscribe
                     PROVE  CloseInv'
  <2> USE <1>UnsubscribeClose
  <2>1. PICK pause \in BOOLEAN : Removed(gen.sid, pause)
    BY DEF Unsubscribe
  <2>2. /\ config' = config /\ channel' = channel /\ tracked' = tracked /\ told' = told /\ issued' = issued
        /\ gen' = gen /\ user.pc = "idle" /\ user' = [Resting EXCEPT !.pc = "removed", !.todo = {gen.sid}]
    BY DEF Unsubscribe, historyVars
  <2>3. user'.pc = "removed"
    BY <2>2 DEF Resting
  <2>4. UserStays /\ StillCloses
    BY <2>2, <2>3 DEF UserStays, StillCloses
  <2>5. NoneOpened
    <3>1. registry' = RemoveLocalSubscription(registry, gen.sid, pause) /\ AllKept(registry)
      BY <2>1 DEF Removed, ControlInv, RegistryOK
    <3>2. DOMAIN registry'.local = DOMAIN registry.local \ {gen.sid}
      <4>1. Knows(registry', DOMAIN registry.local \ {gen.sid},
                  IF pause /\ gen.sid \in DOMAIN registry.local THEN DOMAIN registry.paused \cup {gen.sid}
                  ELSE DOMAIN registry.paused)
        BY <3>1, RemoveKnows
      <4> QED BY <4>1 DEF Knows
    <3> QED BY <3>2 DEF NoneOpened
  <2>6. stream'.status = stream.status
    BY <2>1, RemovedEffect DEF StreamTo
  <2> QED BY <2>2, <2>4, <2>5, <2>6, <1>DaemonClose
\* unsubscribe() returns.
<1>UnsubscribeReturnsClose. ASSUME ControlInv, CloseInv, UnsubscribeReturns
                            PROVE  CloseInv'
  <2> USE <1>UnsubscribeReturnsClose
  <2>1. /\ config' = config /\ channel' = channel /\ tracked' = tracked \ user.todo
        /\ told' = told \ user.todo /\ issued' = issued /\ registry' = registry
        /\ gen' = gen /\ stream' = stream /\ user.pc = "removed" /\ user' = Resting
    BY DEF UnsubscribeReturns, daemonVars
  <2>2. user'.pc = "idle"
    BY <2>1 DEF Resting
  <2>3. CloseKnows'
    BY <2>1, <2>2 DEF CloseInv, CloseKnows
  <2>4. CloseCancels' /\ CloseLeaves'
    BY <2>1, <2>2 DEF CloseInv, CloseCancels, CloseLeaves, Generating
  <2> QED BY <2>3, <2>4 DEF CloseInv
\* _pause_subscription()
<1>ClosePausesClose. ASSUME ControlInv, CloseInv, ClosePauses
                     PROVE  CloseInv'
  <2> USE <1>ClosePausesClose
  <2>1. PICK s \in user.todo :
          /\ IF up THEN Removed(s, TRUE) ELSE UNCHANGED <<registry, stream>>
          /\ user' = [user EXCEPT !.todo = user.todo \ {s}]
    BY DEF ClosePauses
  <2>2. /\ config' = config /\ channel' = channel /\ tracked' = tracked /\ told' = told /\ issued' = issued
        /\ gen' = gen /\ user.pc = "closing"
    BY DEF ClosePauses, historyVars
  <2>3. user'.pc = "closing" /\ user'.todo = user.todo \ {s} /\ user'.unpaused = user.unpaused
    <3>1. UserOK
      BY StreamParts
    <3> QED BY <2>1, <2>2, <3>1 DEF UserOK, UserType
  <2>4. DOMAIN registry'.local \subseteq DOMAIN registry.local \ {s} /\ stream'.status = stream.status
    <3>1. CASE up
      <4>1. Removed(s, TRUE) /\ AllKept(registry)
        BY <2>1, <3>1 DEF ControlInv, RegistryOK
      <4>2. registry' = RemoveLocalSubscription(registry, s, TRUE)
        BY <4>1 DEF Removed
      <4>3. DOMAIN registry'.local = DOMAIN registry.local \ {s}
        <5>1. Knows(registry', DOMAIN registry.local \ {s},
                    IF TRUE /\ s \in DOMAIN registry.local THEN DOMAIN registry.paused \cup {s}
                    ELSE DOMAIN registry.paused)
          BY <4>1, <4>2, RemoveKnows
        <5> QED BY <5>1 DEF Knows
      <4>4. stream'.status = stream.status
        BY <4>1, RemovedEffect DEF StreamTo
      <4> QED BY <4>3, <4>4
    <3>2. CASE ~up
      BY <2>1, <3>2 DEF ControlInv, RegistryOK, Known
    <3> QED BY <3>1, <3>2
  <2>5. CloseKnows'
    BY <2>2, <2>3, <2>4 DEF CloseInv, CloseKnows
  <2>6. CloseCancels' /\ CloseLeaves'
    BY <2>2, <2>3, <2>4 DEF CloseInv, CloseCancels, CloseLeaves, Generating
  <2> QED BY <2>5, <2>6 DEF CloseInv
\* close() returns: what is still active it could not know of.
<1>CloseReturnsClose. ASSUME ControlInv, CloseInv, CloseReturns
                      PROVE  CloseInv'
  <2> USE <1>CloseReturnsClose
  <2>1. /\ user.pc = "closing" /\ user.todo = {} /\ channel' = FALSE /\ stream' = Cancelled
        /\ user' = [user EXCEPT !.pc = "closed", !.late = OutOfReach, !.unpaused = user.unpaused \cup Untold]
        /\ config' = config /\ gen' = gen /\ registry' = registry
    BY DEF CloseReturns, daemonVars
  <2>2. user'.pc = "closed" /\ user'.late = OutOfReach /\ user'.unpaused = user.unpaused \cup Untold
    <3>1. UserOK
      BY StreamParts
    <3> QED BY <2>1, <3>1 DEF UserOK, UserType
  <2>3. DOMAIN registry'.local \subseteq user'.unpaused
    BY <2>1, <2>2 DEF CloseInv, CloseKnows, Untold
  <2>4. Generating /\ ~OutOfReach =>
          stream'.status = "cancelled" \/ (stream'.status = "unavailable" /\ ~config.enabled)
    <3> SUFFICES ASSUME Generating, ~OutOfReach
                 PROVE  stream'.status = "cancelled" \/ (stream'.status = "unavailable" /\ ~config.enabled)
      OBVIOUS
    <3>1. stream.own /\ ~(config.enabled /\ stream.status = "unavailable")
      BY DEF OutOfReach
    <3>2. CASE stream.status = "unavailable"
      BY <2>1, <3>1, <3>2 DEF Cancelled
    <3>3. CASE stream.status # "unavailable"
      <4>1. stream' = [stream EXCEPT !.status = "cancelled", !.active = FALSE, !.queue = <<>>, !.wire = <<>>]
        BY <2>1, <3>1, <3>3 DEF Cancelled
      <4> QED BY <4>1, StreamParts DEF StreamType
    <3> QED BY <3>2, <3>3
  <2>5. ~OutOfReach => gen'.pc # "backoff"
    BY <2>1 DEF OutOfReach
  <2>6. CloseLeaves'
    BY <2>1, <2>2, <2>3, <2>4, <2>5 DEF CloseLeaves, Generating
  <2>7. CloseKnows' /\ CloseCancels'
    BY <2>2 DEF CloseKnows, CloseCancels
  <2> QED BY <2>6, <2>7 DEF CloseInv
\* OnWriteDone(), an expired pause, the restart.
<1>QuietClose. ASSUME ControlInv, CloseInv, ServerWrites \/ PauseExpires \/ Restart \/ UNCHANGED vars
               PROVE  CloseInv'
  <2> USE <1>QuietClose
  <2>1. /\ config' = config /\ channel' = channel /\ tracked' = tracked /\ told' = told /\ issued' = issued
        /\ gen' = gen /\ user' = user
    BY DEF ServerWrites, PauseExpires, Restart, vars, clientVars, daemonVars, historyVars
  <2>2. NoneOpened
    <3>1. CASE ServerWrites \/ Restart \/ UNCHANGED vars
      <4>1. registry' = registry
        BY <3>1 DEF ServerWrites, Restart, vars, daemonVars
      <4> QED BY <4>1 DEF NoneOpened
    <3>2. CASE PauseExpires
      <4>1. PICK s \in DOMAIN registry.paused :
              registry' = [registry EXCEPT !.paused = With(@, s, [@[s] EXCEPT !.expired = TRUE])]
        BY <3>2 DEF PauseExpires
      <4> QED BY <4>1, ExpiryKnows DEF ControlInv, RegistryOK, Knows, NoneOpened
    <3> QED BY <3>1, <3>2
  <2>3. \/ stream'.status = stream.status
        \/ stream.status \in {"open", "finished"} /\ stream'.status \in {"finished", "unavailable"}
    <3>1. CASE ServerWrites
      BY <3>1, ServerWritesEffect DEF StreamTo
    <3>2. CASE PauseExpires \/ Restart \/ UNCHANGED vars
      BY <3>2 DEF PauseExpires, Restart, vars
    <3> QED BY <3>1, <3>2
  <2> QED BY <2>1, <2>2, <2>3, <1>UserSame, <1>DaemonClose
\* A lost connection or a crash: a pause that was lost is recorded.
<1>BreakClose. ASSUME ControlInv, CloseInv, ConnectionLost \/ Crash
               PROVE  CloseInv'
  <2> USE <1>BreakClose
  <2>1. /\ config' = config /\ channel' = channel /\ tracked' = tracked /\ told' = told /\ issued' = issued
        /\ gen' = gen
    BY DEF ConnectionLost, Crash, daemonVars
  <2>2. NoneOpened
    <3>1. CASE ConnectionLost
      BY <3>1 DEF ConnectionLost, daemonVars, NoneOpened
    <3>2. CASE Crash
      BY <3>2, NewKnows DEF Crash, Knows, NoneOpened
    <3> QED BY <3>1, <3>2
  <2>3. \/ stream'.status = stream.status
        \/ stream.status \in {"open", "finished"} /\ stream'.status \in {"finished", "unavailable"}
    <3>1. StreamBreaks \/ stream' = stream
      BY DEF ConnectionLost, Crash
    <3>2. CASE stream.kind # "none" /\ stream.status \in {"open", "finished"}
      <4>1. Broken \/ stream'.status = stream.status
        BY <3>1, StreamBreaksEffect DEF StreamSame, StreamTo
      <4>2. CASE Broken
        BY <3>2, <4>2 DEF Broken, StreamTo
      <4> QED BY <4>1, <4>2
    <3>3. CASE ~(stream.kind # "none" /\ stream.status \in {"open", "finished"})
      BY <3>1, <3>3 DEF StreamBreaks
    <3> QED BY <3>2, <3>3
  <2>4. UserStays /\ StillCloses
    <3>1. UserOK
      BY StreamParts
    <3>2. CASE user' = user
      BY <3>2, <1>UserSame
    <3>3. CASE user.pc \in {"answered", "hung", "publish", "removed"} /\ user'.pc \in {"unavailable", "idle"}
      BY <3>3 DEF UserStays, StillCloses
    <3>4. CASE user.pc = "closing" /\ \E s \in user.todo :
                 user' = [user EXCEPT !.todo = user.todo \ {s}, !.unpaused = user.unpaused \cup {s}]
      <4>1. PICK s \in user.todo :
              user' = [user EXCEPT !.todo = user.todo \ {s}, !.unpaused = user.unpaused \cup {s}]
        BY <3>4
      <4>2. /\ user'.pc = "closing" /\ user'.todo = user.todo \ {s}
            /\ user'.unpaused = user.unpaused \cup {s}
        BY <3>1, <3>4, <4>1 DEF UserOK, UserType
      <4> QED BY <3>4, <4>2 DEF UserStays, StillCloses
    <3>5. CallBreaks \/ user' = user
      BY DEF ConnectionLost, Crash
    <3>6. CASE user.pc \in {"answered", "hung"} /\ user' = [user EXCEPT !.pc = "unavailable", !.broken = @ + 1]
      <4>1. user'.pc = "unavailable"
        BY <3>1, <3>6 DEF UserOK, UserType
      <4> QED BY <3>3, <3>6, <4>1
    <3>7. CASE user.pc = "publish" /\ user' = [user EXCEPT !.pc = "unavailable"]
      <4>1. user'.pc = "unavailable"
        BY <3>1, <3>7 DEF UserOK, UserType
      <4> QED BY <3>3, <3>7, <4>1
    <3>8. CASE user.pc = "removed" /\ user' = Resting
      <4>1. user'.pc = "idle"
        BY <3>8 DEF Resting
      <4> QED BY <3>3, <3>8, <4>1
    <3> QED BY <3>2, <3>4, <3>5, <3>6, <3>7, <3>8 DEF CallBreaks
  <2> QED BY <2>1, <2>2, <2>3, <2>4, <1>DaemonClose
<1> SUFFICES ASSUME ControlInv, Rings, Replayable, CloseInv, [Next]_vars
             PROVE  CloseInv'
  OBVIOUS
<1> QED BY <1>GenLocalClose, <1>UserLocalClose, <1>RequestClose, <1>ReceiveInfoClose,
           <1>ReceiveMessageClose, <1>StreamEndsClose,
   <1>ReconnectsClose, <1>StoreClose, <1>UnsubscribeClose, <1>UnsubscribeReturnsClose, <1>ClosePausesClose,
   <1>CloseReturnsClose, <1>QuietClose, <1>BreakClose
   DEF Next, GenStep, UserStep, GenLocal, UserLocal

-----------------------------------------------------------------------------
(* publish() *)

\* What publish() reports when it returns.
Reports ==
  user.pc # "idle" /\ user'.pc = "idle" =>
    /\ user'.outcome = "ok" => user.copies = user.broken + 1
    /\ user'.outcome = "error" => user.copies = user.broken

\* Every step keeps count of what publish() stored.
LEMMA NextCopies ==
  ControlInv /\ CopiesOK /\ [Next]_vars => CopiesOK' /\ Reports
\* A step of the other thread to a state of publish() keeps count of the messages stored.
<1>CopiesStep. ASSUME ControlInv, CopiesOK,
                      \/ user' = user
                      \/ user'.pc \notin Publishing /\ user'.pc # "idle"
                      \/ user'.pc = "idle" /\ user'.outcome = "none"
                      \/ \E p \in {"publish", "unavailable", "backoff"} :
                           user.pc \in {"publish", "unavailable", "backoff"} /\ user'.pc = p
                           /\ user'.copies = user.copies /\ user'.broken = user.broken
                      \/ user'.pc = "publish" /\ user'.copies = 0 /\ user'.broken = 0
                      \/ /\ user.pc \in {"unavailable", "backoff"} /\ user'.pc = "idle" /\ user'.outcome = "error"
                      \/ /\ user.pc = "answered" /\ user'.pc = "idle" /\ user'.outcome = "ok"
                      \/ /\ user.pc = "publish" /\ user'.pc \in {"answered", "hung"}
                         /\ user'.copies = user.copies + 1 /\ user'.broken = user.broken
                      \/ /\ user.pc \in {"answered", "hung"} /\ user'.pc = "unavailable"
                         /\ user'.copies = user.copies /\ user'.broken = user.broken + 1
               PROVE  CopiesOK' /\ Reports
  <2> USE <1>CopiesStep
  <2>1. user.copies \in Nat /\ user.broken \in Nat
    <3>1. UserOK
      BY StreamParts
    <3> QED BY <3>1 DEF UserOK, UserType
  <2> QED BY <2>1 DEF CopiesOK, Reports, Publishing
<1> SUFFICES ASSUME ControlInv, CopiesOK, [Next]_vars
             PROVE  CopiesOK' /\ Reports
  OBVIOUS
<1>1. UserOK
  BY StreamParts
<1>2. CASE user' = user
  BY <1>2, <1>CopiesStep
<1>3. CASE Publish
  <2>1. PICK t \in Topics : user' = [Resting EXCEPT !.pc = "publish", !.topic = t]
    BY <1>3 DEF Publish
  <2>2. user'.pc = "publish" /\ user'.copies = 0 /\ user'.broken = 0
    BY <2>1 DEF Resting
  <2> QED BY <2>2, <1>CopiesStep
<1>4. CASE PublishReturns
  <2>1. user.pc = "answered" /\ user'.pc = "idle" /\ user'.outcome = "ok"
    BY <1>4 DEF PublishReturns, Returns, Resting
  <2> QED BY <2>1, <1>CopiesStep
<1>5. CASE PublishRefused
  <2>1. /\ user.pc = "publish" /\ user'.pc = "unavailable"
        /\ user'.copies = user.copies /\ user'.broken = user.broken
    BY <1>1, <1>5 DEF PublishRefused, UserOK, UserType
  <2> QED BY <2>1, <1>CopiesStep
<1>6. CASE PublishUnavailable
  <2>1. CASE config.enabled
    <3>1. /\ user.pc = "unavailable" /\ user'.pc = "backoff"
          /\ user'.copies = user.copies /\ user'.broken = user.broken
      BY <1>1, <1>6, <2>1 DEF PublishUnavailable, UserOK, UserType
    <3> QED BY <3>1, <1>CopiesStep
  <2>2. CASE ~config.enabled
    <3>1. user.pc = "unavailable" /\ user'.pc = "idle" /\ user'.outcome = "error"
      BY <1>6, <2>2 DEF PublishUnavailable, Returns, Resting
    <3> QED BY <3>1, <1>CopiesStep
  <2> QED BY <2>1, <2>2
<1>7. CASE UserReconnects
  <2>1. CASE GivesUp(user.attempt)
    <3>1. user.pc = "backoff" /\ user'.pc = "idle" /\ user'.outcome = "error"
      BY <1>7, <2>1 DEF UserReconnects, Returns, Resting
    <3> QED BY <3>1, <1>CopiesStep
  <2>2. CASE ~GivesUp(user.attempt)
    <3>1. /\ user.pc = "backoff" /\ user'.pc = "publish"
          /\ user'.copies = user.copies /\ user'.broken = user.broken
      BY <1>1, <1>7, <2>2 DEF UserReconnects, UserOK, UserType
    <3> QED BY <3>1, <1>CopiesStep
  <2> QED BY <2>1, <2>2
<1>8. CASE UserFailsToConnect
  <2>1. /\ user.pc = "backoff" /\ user'.pc = "backoff"
        /\ user'.copies = user.copies /\ user'.broken = user.broken
    BY <1>1, <1>8 DEF UserFailsToConnect, UserOK, UserType
  <2> QED BY <2>1, <1>CopiesStep
<1>9. CASE PublishHandled
  <2>1. /\ user.pc = "publish" /\ user'.pc \in {"answered", "hung"}
        /\ user'.copies = user.copies + 1 /\ user'.broken = user.broken
    BY <1>1, <1>9 DEF PublishHandled, UserOK, UserType
  <2> QED BY <2>1, <1>CopiesStep
<1>10. CASE user'.pc \in {"removed", "closing", "closed"}
  <2>1. user'.pc \notin Publishing /\ user'.pc # "idle"
    BY <1>10 DEF Publishing
  <2> QED BY <2>1, <1>CopiesStep
<1>11. CASE Unsubscribe \/ Close \/ ClosePauses \/ CloseReturns
  <2>1. CASE Unsubscribe \/ Close
    BY <1>10, <2>1 DEF Unsubscribe, Close, Resting
  <2>2. CASE ClosePauses \/ CloseReturns
    <3>1. user'.pc \in {"closing", "closed"}
      BY <1>1, <2>2 DEF ClosePauses, CloseReturns, UserOK, UserType
    <3> QED BY <1>10, <3>1
  <2> QED BY <1>11, <2>1, <2>2
<1>12. CASE user' = Resting
  <2>1. user'.pc = "idle" /\ user'.outcome = "none"
    BY <1>12 DEF Resting
  <2> QED BY <2>1, <1>CopiesStep
<1>13. CASE UnsubscribeReturns
  BY <1>12, <1>13 DEF UnsubscribeReturns
<1>14. CASE CallBreaks
  <2>1. CASE user.pc \in {"answered", "hung"} /\ user' = [user EXCEPT !.pc = "unavailable", !.broken = @ + 1]
    <3>1. /\ user.pc \in {"answered", "hung"} /\ user'.pc = "unavailable"
          /\ user'.copies = user.copies /\ user'.broken = user.broken + 1
      BY <1>1, <2>1 DEF UserOK, UserType
    <3> QED BY <3>1, <1>CopiesStep
  <2>2. CASE user.pc = "publish" /\ user' = [user EXCEPT !.pc = "unavailable"]
    <3>1. /\ user.pc = "publish" /\ user'.pc = "unavailable"
          /\ user'.copies = user.copies /\ user'.broken = user.broken
      BY <1>1, <2>2 DEF UserOK, UserType
    <3> QED BY <3>1, <1>CopiesStep
  <2>3. CASE user.pc = "closing" /\ \E s \in user.todo :
               user' = [user EXCEPT !.todo = @ \ {s}, !.unpaused = @ \cup {s}]
    <3>1. user'.pc = "closing"
      BY <1>1, <2>3 DEF UserOK, UserType
    <3> QED BY <1>10, <3>1
  <2> QED BY <1>2, <1>12, <1>14, <2>1, <2>2, <2>3 DEF CallBreaks
<1> QED BY <1>2, <1>3, <1>4, <1>5, <1>6, <1>7, <1>8, <1>9, <1>11, <1>13, <1>14
        DEF Next, vars, GenStep, UserStep, clientVars, daemonVars, historyVars, OnlyGen,
            Start, RequestFails, RequestRefused, SubscribeCall, ResumeCall, ReceiveInfo, ReceiveMessage,
            Continue, Abandon, StreamEnds, StreamFails, GenReconnects, GenFailsToConnect, Deliver,
            ServerWrites, PauseExpires, ConnectionLost, Crash, Restart

=============================================================================
