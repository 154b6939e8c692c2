--------------------------- MODULE SessionsStepProofs ---------------------------
(***************************************************************************)
(* Every step of Sessions keeps the invariant of the sessions, given which *)
(* keys the methods of the registry add and remove.                        *)
(***************************************************************************)
EXTENDS Sessions, TLAPS

\* Steps that need arithmetic cite SMT.
USE Zenon

IsSeq(q) == \E S : q \in Seq(S)

-----------------------------------------------------------------------------
(* The inductive invariant *)

Fields ==
  {"sub", "kind", "topics", "active", "reactor", "open", "queue", "replay", "after", "missed",
   "upto", "saved", "from"}

\* The streams: what never changes of one, and what is never undone.
StreamsOK ==
  \A i \in DOMAIN streams :
    /\ DOMAIN streams[i] = Fields
    /\ streams[i].sub \in Subs
    /\ streams[i].kind \in {"subscribe", "resume"}
    /\ streams[i].open => streams[i].reactor

\* The callers that have a stream.
Streaming == {"construct", "subscribe", "resume", "recover"}

\* The fields of a caller's record.
CallersOK ==
  /\ DOMAIN caller = Callers
  /\ \A c \in Callers :
       LET k == caller[c] IN
       /\ k.at \in {"idle", "list", "cancel"} \cup Streaming
       /\ k.at = "idle" => k = Idle
       /\ k.at # "idle" => k.sub \in Subs
       /\ k.at = "list" => k.kind \in {"subscribe", "resume"}
       /\ k.at \in {"construct", "subscribe", "resume"} =>
            DOMAIN k = {"at", "sub", "op", "stream"} /\ k.op.kind \in {"subscribe", "resume"}
       /\ k.at = "recover" =>
            DOMAIN k = {"at", "sub", "stream", "mode", "todo", "number", "saved"}

Opening(k) == k.at = "list" /\ k.kind = "subscribe"

\* A caller between Resume() and the end of it.
Resuming(k) ==
  \/ k.at = "list" /\ k.kind = "resume"
  \/ k.at = "construct" /\ k.op.kind = "resume"
  \/ k.at \in {"resume", "recover"}

\* The stream a caller works on is the one it made.
CallerStreams ==
  \A c \in Callers :
    LET k == caller[c] IN
    k.at \in Streaming =>
      /\ k.stream \in DOMAIN streams
      /\ streams[k.stream].sub = k.sub
      /\ streams[k.stream].kind = IF Resuming(k) THEN "resume" ELSE "subscribe"
      /\ k.at # "construct" => streams[k.stream].reactor

StreamSubs == {streams[i].sub : i \in DOMAIN streams}

\* Where ids come from: a new one is nowhere else.
IdsOK ==
  /\ \A c \in Callers : caller[c].at # "idle" /\ ~Opening(caller[c]) => caller[c].sub \in StreamSubs
  /\ \A c \in Callers :
       Opening(caller[c]) =>
         /\ caller[c].sub \notin StreamSubs
         /\ \A d \in Callers : caller[d].at # "idle" /\ caller[d].sub = caller[c].sub => d = c
  /\ \A s \in DOMAIN registry.local :
       s \in StreamSubs \/ \E c \in Callers : Opening(caller[c]) /\ caller[c].sub = s
  /\ \A s \in DOMAIN registry.paused : s \in StreamSubs
  /\ \A s \in DOMAIN listed : listed[s] \in DOMAIN streams /\ streams[listed[s]].sub = s

\* One RPC at a time works on a subscription that never saw two.
OneAtATime ==
  \A c \in Callers, d \in Callers :
    /\ caller[c].at # "idle" /\ caller[d].at # "idle" /\ caller[c].sub = caller[d].sub
    /\ caller[c].sub \notin overlapped
    => c = d

Working(s) == \E c \in Callers : caller[c].at # "idle" /\ caller[c].sub = s

\* What the RPC that works on a subscription has done so far.
Matched ==
  \A s \in Subs \ (overlapped \cup lapsed) :
    /\ ~Working(s) => (s \in DOMAIN registry.local <=> s \in DOMAIN listed)
    /\ \A c \in Callers :
         caller[c].at # "idle" /\ caller[c].sub = s =>
           LET k == caller[c] IN
           /\ Opening(k) => s \in DOMAIN registry.local
           /\ k.at \in Streaming => s \in DOMAIN listed
           /\ k.at \in Streaming /\ ~Resuming(k) => s \in DOMAIN registry.local
           /\ k.at = "recover" => s \in DOMAIN registry.local
           /\ k.at = "cancel" => s \notin DOMAIN registry.local

\* The stream of a first subscription is the listed one until it is cancelled;
\* it is paused and resumed only after that.
ListedOK ==
  \A i \in DOMAIN streams :
    LET s == streams[i].sub IN
    streams[i].kind = "subscribe" /\ streams[i].active /\ s \notin overlapped =>
      /\ s \in DOMAIN listed /\ listed[s] = i
      /\ s \in DOMAIN registry.paused => \E c \in Callers : caller[c].at = "cancel" /\ caller[c].sub = s
      /\ \A c \in Callers : caller[c].at # "idle" /\ caller[c].sub = s => ~Resuming(caller[c])

\* The record of a publisher, where places is the set of the streams' positions.
PublisherFits(k, places) ==
  /\ k.at \in {"idle", "buffer", "choose", "deliver", "sequence", "hung"}
  /\ k.at = "idle" => k = Idle
  /\ k.at \in {"buffer", "choose"} => k.topic \in Topics
  /\ k.at \in {"choose", "deliver", "sequence"} => k.seq \in Nat
  /\ k.at \in {"deliver", "sequence"} => k.todo \subseteq places
  /\ k.at = "sequence" => k.sub \in Subs

PublishersOK ==
  /\ DOMAIN publisher = Publishers
  /\ \A p \in Publishers : PublisherFits(publisher[p], DOMAIN streams)
  /\ \A t \in DOMAIN buffers : buffers[t].next \in Nat

SessionInv == CallersOK /\ CallerStreams /\ IdsOK /\ OneAtATime /\ Matched /\ ListedOK

\* The streams and the sessions that work on them.
BaseInv == IsSeq(streams) /\ StreamsOK /\ SessionInv

-----------------------------------------------------------------------------
(* Sequences and records *)

\* A function on 1..n is a sequence.
LEMMA FunctionIsSeq ==
  ASSUME NEW f, NEW n \in Nat, DOMAIN f = 1..n, f = [k \in DOMAIN f |-> f[k]]
  PROVE  IsSeq(f) /\ Len(f) = n
<1> DEFINE S == {f[k] : k \in 1..n}
<1>1. f \in [1..n -> S]
  OBVIOUS
<1> HIDE DEF S
<1>2. f \in Seq(S) /\ Len(f) = n
  BY SMT, <1>1
<1> QED BY <1>2 DEF IsSeq

\* A sequence as a function.
LEMMA SeqIsFunction ==
  ASSUME NEW q, IsSeq(q)
  PROVE  Len(q) \in Nat /\ DOMAIN q = 1..Len(q) /\ q = [k \in DOMAIN q |-> q[k]]
<1>1. PICK S : q \in Seq(S)
  BY DEF IsSeq
<1> QED BY SMT, <1>1

\* A new last element.
LEMMA AppendSeq ==
  ASSUME NEW q, IsSeq(q), NEW e
  PROVE  /\ IsSeq(Append(q, e)) /\ Len(Append(q, e)) = Len(q) + 1
         /\ DOMAIN Append(q, e) = DOMAIN q \cup {Len(q) + 1}
         /\ \A k \in DOMAIN q : Append(q, e)[k] = q[k]
         /\ Append(q, e)[Len(q) + 1] = e
         /\ Len(q) + 1 \notin DOMAIN q
<1>1. PICK S : q \in Seq(S)
  BY DEF IsSeq
<1> DEFINE T == S \cup {e}
<1>2. q \in Seq(T) /\ e \in T
  BY SMT, <1>1
<1> HIDE DEF T
<1>3. Append(q, e) \in Seq(T) /\ Len(Append(q, e)) = Len(q) + 1
  BY SMT, <1>2
<1>4. \A k \in 1..Len(q) : Append(q, e)[k] = q[k]
  BY SMT, <1>2
<1>5. Append(q, e)[Len(q) + 1] = e
  BY SMT, <1>2
<1>6. Len(q) \in Nat /\ DOMAIN q = 1..Len(q) /\ DOMAIN Append(q, e) = 1..(Len(q) + 1)
  BY SMT, <1>2, <1>3
<1>7. DOMAIN Append(q, e) = DOMAIN q \cup {Len(q) + 1} /\ Len(q) + 1 \notin DOMAIN q
  BY SMT, <1>6
<1>8. IsSeq(Append(q, e))
  BY <1>3 DEF IsSeq
<1> QED BY <1>3, <1>4, <1>5, <1>6, <1>7, <1>8

\* One sequence after another.
LEMMA ConcatSeq ==
  ASSUME NEW q, IsSeq(q), NEW r, IsSeq(r)
  PROVE  /\ IsSeq(q \o r)
         /\ \A k \in DOMAIN q : k \in DOMAIN (q \o r) /\ (q \o r)[k] = q[k]
         /\ \A k \in DOMAIN r : Len(q) + k \in DOMAIN (q \o r) /\ (q \o r)[Len(q) + k] = r[k]
<1>1. PICK S : q \in Seq(S)
  BY DEF IsSeq
<1>2. PICK T : r \in Seq(T)
  BY DEF IsSeq
<1> DEFINE U == S \cup T
<1>3. q \in Seq(U) /\ r \in Seq(U)
  BY SMT, <1>1, <1>2
<1> HIDE DEF U
<1>4. q \o r \in Seq(U)
  BY SMT, <1>3
<1>5. /\ Len(q) \in Nat /\ Len(r) \in Nat /\ DOMAIN q = 1..Len(q) /\ DOMAIN r = 1..Len(r)
      /\ DOMAIN (q \o r) = 1..(Len(q) + Len(r))
  BY SMT, <1>3
<1>6. \A k \in 1..Len(q) : (q \o r)[k] = q[k]
  BY SMT, <1>3
<1>7. \A k \in 1..Len(r) : (q \o r)[Len(q) + k] = r[k]
  BY SMT, <1>3
<1>8. \A k \in 1..Len(q) : k \in 1..(Len(q) + Len(r))
  BY SMT, <1>5
<1>9. \A k \in 1..Len(r) : Len(q) + k \in 1..(Len(q) + Len(r))
  BY SMT, <1>5
<1>10. IsSeq(q \o r)
  BY <1>4 DEF IsSeq
<1> QED BY <1>5, <1>6, <1>7, <1>8, <1>9, <1>10

\* The rest of a sequence.
LEMMA TailSeq ==
  ASSUME NEW q, IsSeq(q), q # <<>>
  PROVE  /\ IsSeq(Tail(q)) /\ Head(q) = q[1]
         /\ \A k \in DOMAIN q : k = 1 \/ (k - 1 \in DOMAIN Tail(q) /\ Tail(q)[k - 1] = q[k])
<1>1. PICK S : q \in Seq(S)
  BY DEF IsSeq
<1>2. Tail(q) \in Seq(S) /\ Head(q) = q[1] /\ Len(Tail(q)) = Len(q) - 1
  BY SMT, <1>1
<1>3. \A k \in 1..(Len(q) - 1) : Tail(q)[k] = q[k + 1]
  BY SMT, <1>1
<1>4. Len(q) \in Nat /\ DOMAIN q = 1..Len(q) /\ DOMAIN Tail(q) = 1..(Len(q) - 1)
  BY SMT, <1>1, <1>2
<1>5. IsSeq(Tail(q))
  BY <1>2 DEF IsSeq
<1>6. ASSUME NEW k \in DOMAIN q, k # 1
      PROVE  k - 1 \in DOMAIN Tail(q) /\ Tail(q)[k - 1] = q[k]
  <2>1. k \in Nat /\ k - 1 \in 1..(Len(q) - 1) /\ (k - 1) + 1 = k
    BY SMT, <1>4, <1>6
  <2> QED BY <1>3, <1>4, <2>1
<1> QED BY <1>2, <1>5, <1>6

\* Nothing is replayed before the queue.
LEMMA EmptyConcat ==
  ASSUME NEW q, IsSeq(q)
  PROVE  <<>> \o q = q
<1>1. PICK S : q \in Seq(S)
  BY DEF IsSeq
<1> QED BY SMT, <1>1

\* The queue of a new stream.
LEMMA EmptyIsSeq == IsSeq(<<>>)
<1>1. <<>> \in Seq({})
  BY SMT
<1> QED BY <1>1 DEF IsSeq

-----------------------------------------------------------------------------
(* Steps of the streams *)

\* Stream i changes in the fields fs and no other stream does.
Updated(i, fs) ==
  /\ i \in DOMAIN streams
  /\ IsSeq(streams') /\ DOMAIN streams' = DOMAIN streams
  /\ \A j \in DOMAIN streams : j # i => streams'[j] = streams[j]
  /\ DOMAIN streams'[i] = DOMAIN streams[i]
  /\ \A g \in DOMAIN streams[i] \ fs : streams'[i][g] = streams[i][g]

\* No stream is made, and what is fixed stays.
StreamsKept ==
  /\ DOMAIN streams' = DOMAIN streams
  /\ \A i \in DOMAIN streams :
       /\ streams'[i].sub = streams[i].sub
       /\ streams'[i].kind = streams[i].kind
       /\ streams'[i].topics = streams[i].topics
       /\ streams'[i].active => streams[i].active
       /\ streams[i].reactor => streams'[i].reactor

\* A function with the domain of a sequence is one.
LEMMA KeptIsSeq ==
  ASSUME NEW q, IsSeq(q), NEW f, DOMAIN f = DOMAIN q, f = [k \in DOMAIN f |-> f[k]]
  PROVE  IsSeq(f)
BY SMT, SeqIsFunction, FunctionIsSeq

\* A stream that keeps its identity, its reactor and its end changes no session.
LEMMA UpdatedKept ==
  ASSUME StreamsOK, NEW i, NEW fs, Updated(i, fs),
         fs \subseteq {"open", "queue", "replay", "after", "missed", "upto", "saved", "from"}
  PROVE  StreamsKept /\ streams'[i].active = streams[i].active /\ streams'[i].reactor = streams[i].reactor
<1>1. {"sub", "kind", "topics", "active", "reactor"} \subseteq DOMAIN streams[i] \ fs
  BY DEF StreamsOK, Updated, Fields
<1>2. /\ streams'[i].sub = streams[i].sub /\ streams'[i].kind = streams[i].kind
      /\ streams'[i].topics = streams[i].topics /\ streams'[i].active = streams[i].active
      /\ streams'[i].reactor = streams[i].reactor
  BY <1>1 DEF Updated
<1> QED BY <1>2 DEF Updated, StreamsKept

\* SubscribeReactor() writes the info.
LEMMA OpensUpdate ==
  ASSUME IsSeq(streams), StreamsOK, CallerStreams, NEW c \in Callers, SubscribeOpens(c)
  PROVE  LET i == caller[c].stream IN
         /\ Updated(i, {"open", "queue"})
         /\ streams'[i].open
         /\ streams'[i].queue = streams[i].queue
              \o InSomeOrder({retained[t] : t \in streams[i].topics \cap DOMAIN retained})
<1> DEFINE i == caller[c].stream
           old == InSomeOrder({retained[t] : t \in streams[i].topics \cap DOMAIN retained})
<1>1. i \in DOMAIN streams /\ DOMAIN streams[i] = Fields
  BY DEF SubscribeOpens, CallerStreams, Streaming, StreamsOK
<1>2. streams' = [streams EXCEPT ![i].open = TRUE, ![i].queue = @ \o old]
  BY DEF SubscribeOpens
<1> HIDE DEF i, old
<1>3. /\ DOMAIN streams' = DOMAIN streams /\ streams' = [k \in DOMAIN streams' |-> streams'[k]]
      /\ \A j \in DOMAIN streams : j # i => streams'[j] = streams[j]
      /\ DOMAIN streams'[i] = DOMAIN streams[i]
      /\ \A g \in DOMAIN streams[i] \ {"open", "queue"} : streams'[i][g] = streams[i][g]
  BY <1>1, <1>2
<1>4. streams'[i].open /\ streams'[i].queue = streams[i].queue \o old
  BY <1>1, <1>2 DEF Fields
<1>5. IsSeq(streams')
  BY <1>3, KeptIsSeq
<1> QED BY <1>1, <1>3, <1>4, <1>5 DEF Updated, i, old

\* SubscribeReactor() or ResumeSubscribeReactor() is made.
LEMMA ReactorUpdate ==
  ASSUME IsSeq(streams), StreamsOK, CallerStreams, NEW c \in Callers, SetReactor(c)
  PROVE  LET i == caller[c].stream IN Updated(i, {"reactor", "from"}) /\ streams'[i].reactor
<1> DEFINE i == caller[c].stream
<1>1. i \in DOMAIN streams /\ DOMAIN streams[i] = Fields
  BY DEF SetReactor, CallerStreams, Streaming, StreamsOK
<1>2. PICK from : streams' = [streams EXCEPT ![i].reactor = TRUE, ![i].from = from]
  BY DEF SetReactor
<1> HIDE DEF i
<1>3. /\ DOMAIN streams' = DOMAIN streams /\ streams' = [k \in DOMAIN streams' |-> streams'[k]]
      /\ \A j \in DOMAIN streams : j # i => streams'[j] = streams[j]
      /\ DOMAIN streams'[i] = DOMAIN streams[i]
      /\ \A g \in DOMAIN streams[i] \ {"reactor", "from"} : streams'[i][g] = streams[i][g]
  BY <1>1, <1>2
<1>4. streams'[i].reactor
  BY <1>1, <1>2 DEF Fields
<1>5. IsSeq(streams')
  BY <1>3, KeptIsSeq
<1> QED BY <1>1, <1>3, <1>4, <1>5 DEF Updated, i

\* A topic of the gap recovery.
LEMMA RecoverUpdate ==
  ASSUME IsSeq(streams), StreamsOK, CallerStreams, NEW c \in Callers, RecoverTopic(c)
  PROVE  Updated(caller[c].stream, {"replay", "after", "missed", "upto", "saved"})
<1> DEFINE i == caller[c].stream
           cond == caller[c].mode = "REPLAY_BUFFER"
<1>1. i \in DOMAIN streams /\ DOMAIN streams[i] = Fields
  BY DEF RecoverTopic, CallerStreams, Streaming, StreamsOK
<1>0. PICK t \in caller[c].todo :
        LET r == Recovered(t, caller[c].mode, caller[c].number) IN
        streams' = [streams EXCEPT
                ![i].replay = @ \o [k \in DOMAIN r.messages |-> Event(r.messages[k])],
                ![i].after = IF caller[c].mode = "REPLAY_BUFFER" THEN With(@, t, caller[c].number) ELSE @,
                ![i].missed = With(@, t, r.missed),
                ![i].upto = With(@, t, Len(log[t])),
                ![i].saved = caller[c].saved]
  BY DEF RecoverTopic
<1> DEFINE r == Recovered(t, caller[c].mode, caller[c].number)
           ms == [k \in DOMAIN r.messages |-> Event(r.messages[k])]
           n == caller[c].number
           m == r.missed
           l == Len(log[t])
           saved == caller[c].saved
<1>2. streams' = [streams EXCEPT
                ![i].replay = @ \o ms,
                ![i].after = IF cond THEN With(@, t, n) ELSE @,
                ![i].missed = With(@, t, m),
                ![i].upto = With(@, t, l),
                ![i].saved = saved]
  BY <1>0
<1>3. cond \in BOOLEAN
  OBVIOUS
<1> HIDE DEF i, cond, ms, n, m, l, saved, r
<1>4. /\ DOMAIN streams' = DOMAIN streams
      /\ \A j \in DOMAIN streams : j # i => streams'[j] = streams[j]
      /\ DOMAIN streams'[i] = DOMAIN streams[i]
      /\ \A g \in DOMAIN streams[i] \ {"replay", "after", "missed", "upto", "saved"} :
           streams'[i][g] = streams[i][g]
  BY <1>1, <1>2, <1>3
<1>5. streams' = [k \in DOMAIN streams' |-> streams'[k]]
  BY <1>1, <1>2, <1>3
<1>6. IsSeq(streams')
  BY <1>4, <1>5, KeptIsSeq
<1> QED BY <1>1, <1>4, <1>6 DEF Updated, i

\* ResumeSubscribeReactor opens its stream.
LEMMA ResumeOpensUpdate ==
  ASSUME IsSeq(streams), StreamsOK, CallerStreams, NEW c \in Callers, ResumeOpens(c)
  PROVE  Updated(caller[c].stream, {"open"})
<1> DEFINE i == caller[c].stream
<1>1. i \in DOMAIN streams /\ DOMAIN streams[i] = Fields
  BY DEF ResumeOpens, CallerStreams, Streaming, StreamsOK
<1>2. streams' = [streams EXCEPT ![i].open = TRUE]
  BY DEF ResumeOpens
<1> HIDE DEF i
<1>3. /\ DOMAIN streams' = DOMAIN streams /\ streams' = [k \in DOMAIN streams' |-> streams'[k]]
      /\ \A j \in DOMAIN streams : j # i => streams'[j] = streams[j]
      /\ DOMAIN streams'[i] = DOMAIN streams[i]
      /\ \A g \in DOMAIN streams[i] \ {"open"} : streams'[i][g] = streams[i][g]
  BY <1>1, <1>2
<1>5. IsSeq(streams')
  BY <1>3, KeptIsSeq
<1> QED BY <1>1, <1>3, <1>5 DEF Updated, i

\* A stream is cancelled.
LEMMA DeactivateUpdate ==
  ASSUME IsSeq(streams), StreamsOK, NEW i \in DOMAIN streams,
         streams' = [streams EXCEPT ![i].active = FALSE]
  PROVE  Updated(i, {"active"}) /\ ~streams'[i].active
<1>1. DOMAIN streams[i] = Fields
  BY DEF StreamsOK
<1>3. /\ DOMAIN streams' = DOMAIN streams /\ streams' = [k \in DOMAIN streams' |-> streams'[k]]
      /\ \A j \in DOMAIN streams : j # i => streams'[j] = streams[j]
      /\ DOMAIN streams'[i] = DOMAIN streams[i]
      /\ \A g \in DOMAIN streams[i] \ {"active"} : streams'[i][g] = streams[i][g]
  BY <1>1
<1>4. ~streams'[i].active
  BY <1>1 DEF Fields
<1>5. IsSeq(streams')
  BY <1>3, KeptIsSeq
<1> QED BY <1>1, <1>3, <1>4, <1>5 DEF Updated

\* A queue or a replay changes.
LEMMA QueueUpdate ==
  ASSUME IsSeq(streams), StreamsOK, NEW i \in DOMAIN streams, NEW v,
         streams' = [streams EXCEPT ![i].queue = v]
  PROVE  Updated(i, {"queue"}) /\ streams'[i].queue = v
<1>1. DOMAIN streams[i] = Fields
  BY DEF StreamsOK
<1>3. /\ DOMAIN streams' = DOMAIN streams /\ streams' = [k \in DOMAIN streams' |-> streams'[k]]
      /\ \A j \in DOMAIN streams : j # i => streams'[j] = streams[j]
      /\ DOMAIN streams'[i] = DOMAIN streams[i]
      /\ \A g \in DOMAIN streams[i] \ {"queue"} : streams'[i][g] = streams[i][g]
  BY <1>1
<1>4. streams'[i].queue = v
  BY <1>1 DEF Fields
<1>5. IsSeq(streams')
  BY <1>3, KeptIsSeq
<1> QED BY <1>1, <1>3, <1>4, <1>5 DEF Updated

\* OnWriteDone() takes from what is left of the replay.
LEMMA ReplayUpdate ==
  ASSUME IsSeq(streams), StreamsOK, NEW i \in DOMAIN streams, NEW v,
         streams' = [streams EXCEPT ![i].replay = v]
  PROVE  Updated(i, {"replay"})
<1>1. DOMAIN streams[i] = Fields
  BY DEF StreamsOK
<1>3. /\ DOMAIN streams' = DOMAIN streams /\ streams' = [k \in DOMAIN streams' |-> streams'[k]]
      /\ \A j \in DOMAIN streams : j # i => streams'[j] = streams[j]
      /\ DOMAIN streams'[i] = DOMAIN streams[i]
      /\ \A g \in DOMAIN streams[i] \ {"replay"} : streams'[i][g] = streams[i][g]
  BY <1>1
<1>5. IsSeq(streams')
  BY <1>3, KeptIsSeq
<1> QED BY <1>1, <1>3, <1>5 DEF Updated

\* Publisher p is now at k.
Turns(p, k) ==
  /\ DOMAIN publisher' = Publishers /\ publisher'[p] = k
  /\ \A q \in Publishers : q # p => publisher'[q] = publisher[q]

\* An assignment to the place of one publisher.
LEMMA AssignTurns ==
  ASSUME PublishersOK, NEW p \in Publishers, NEW k, publisher' = [publisher EXCEPT ![p] = k]
  PROVE  Turns(p, k)
BY DEF PublishersOK, Turns

\* What the methods of the registry, and the expiry of a pause, do to the
\* keys of its two maps.
AddKeysOK ==
  \A s, ts :
    /\ DOMAIN AddLocalSubscription(registry, s, ts).local = DOMAIN registry.local \cup {s}
    /\ DOMAIN AddLocalSubscription(registry, s, ts).paused = DOMAIN registry.paused

RemoveKeysOK ==
  \A s, pause :
    /\ DOMAIN RemoveLocalSubscription(registry, s, pause).local = DOMAIN registry.local \ {s}
    /\ DOMAIN RemoveLocalSubscription(registry, s, pause).paused \subseteq DOMAIN registry.paused \cup {s}

ResumeKeysOK ==
  \A s :
    /\ DOMAIN ResumeSubscription(registry, s).local =
         IF Resumable(registry, s) THEN DOMAIN registry.local \cup {s} ELSE DOMAIN registry.local
    /\ DOMAIN ResumeSubscription(registry, s).paused = DOMAIN registry.paused \ {s}

SequenceKeysOK ==
  \A s, seq :
    /\ DOMAIN UpdateSubscriptionSequence(registry, s, seq).local = DOMAIN registry.local
    /\ DOMAIN UpdateSubscriptionSequence(registry, s, seq).paused = DOMAIN registry.paused

ExpiryKeysOK ==
  \A s \in DOMAIN registry.paused :
    LET r == [registry EXCEPT !.paused = With(@, s, [@[s] EXCEPT !.expired = TRUE])]
    IN  DOMAIN r.local = DOMAIN registry.local /\ DOMAIN r.paused = DOMAIN registry.paused

RegistryKeys == AddKeysOK /\ RemoveKeysOK /\ ResumeKeysOK /\ SequenceKeysOK /\ ExpiryKeysOK

-----------------------------------------------------------------------------
(* Steps of the sessions *)

\* Caller c is now at k.
Moves(c, k) ==
  /\ DOMAIN caller' = Callers /\ caller'[c] = k
  /\ \A d \in Callers : d # c => caller'[d] = caller[d]

KeysKept == DOMAIN registry'.local = DOMAIN registry.local /\ DOMAIN registry'.paused = DOMAIN registry.paused

\* No stream is made or changes its subscription.
LEMMA KeptStreamSubs ==
  ASSUME StreamsKept
  PROVE  StreamSubs' = StreamSubs
BY DEF StreamsKept, StreamSubs

\* Steps that change no session.
LEMMA SessionKept ==
  ASSUME SessionInv, StreamsKept, KeysKept, UNCHANGED <<caller, listed, overlapped, lapsed>>
  PROVE  SessionInv'
<1> USE DEF SessionInv
<1>0. StreamSubs' = StreamSubs
  BY KeptStreamSubs
<1>1. CallersOK'
  BY DEF CallersOK
<1>2. CallerStreams'
  BY SMT DEF CallerStreams, StreamsKept, Resuming
<1>3. IdsOK'
  <2>1. \A s \in DOMAIN listed' : listed'[s] \in DOMAIN streams' /\ streams'[listed'[s]].sub = s
    BY DEF IdsOK, StreamsKept
  <2> QED BY SMT, <1>0, <2>1 DEF IdsOK, KeysKept, Opening
<1>4. OneAtATime'
  BY DEF OneAtATime
<1>5. Matched'
  BY SMT DEF Matched, KeysKept, Working, Opening, Resuming
<1>6. ListedOK'
  BY SMT DEF ListedOK, KeysKept, Resuming, StreamsKept
<1> QED BY <1>1, <1>2, <1>3, <1>4, <1>5, <1>6

\* A caller at work is not idle.
LEMMA DistinctIdle ==
  ASSUME NEW c, caller[c].at # "idle"
  PROVE  caller[c] # Idle
BY SMT DEF Idle

\* The overlap that the history variable notes, by where the callers are.
LEMMA BusyIsWorking ==
  ASSUME CallersOK, NEW s
  PROVE  Busy(s) <=> Working(s)
BY DistinctIdle DEF Busy, Working, CallersOK

\* cancel() ends a stream and leaves the rest of it.
LEMMA CancelKept ==
  ASSUME IsSeq(streams), StreamsOK, NEW i \in DOMAIN streams,
         streams' = [streams EXCEPT ![i].active = FALSE]
  PROVE  StreamsKept /\ ~streams'[i].active
<1>2. Updated(i, {"active"}) /\ ~streams'[i].active
  BY DeactivateUpdate
<1>3. {"sub", "kind", "topics", "reactor"} \subseteq DOMAIN streams[i] \ {"active"}
  BY DEF StreamsOK, Fields
<1>4. /\ streams'[i].sub = streams[i].sub /\ streams'[i].kind = streams[i].kind
      /\ streams'[i].topics = streams[i].topics /\ streams'[i].reactor = streams[i].reactor
  BY <1>2, <1>3 DEF Updated
<1> QED BY <1>2, <1>4 DEF Updated, StreamsKept

-----------------------------------------------------------------------------
(* Steps of callers *)

\* A changed stream that is open still has a reactor.
LEMMA UpdatedStreamsOK ==
  ASSUME StreamsOK, NEW i, NEW fs, Updated(i, fs), "sub" \notin fs, "kind" \notin fs,
         streams'[i].open => streams'[i].reactor
  PROVE  IsSeq(streams') /\ StreamsOK'
<1>1. /\ i \in DOMAIN streams /\ DOMAIN streams[i] = Fields /\ streams[i].sub \in Subs
      /\ streams[i].kind \in {"subscribe", "resume"}
  BY DEF StreamsOK, Updated
<1>2. "sub" \in DOMAIN streams[i] \ fs /\ "kind" \in DOMAIN streams[i] \ fs
  BY <1>1 DEF Fields
<1>3. streams'[i].sub = streams[i].sub /\ streams'[i].kind = streams[i].kind /\ DOMAIN streams'[i] = Fields
  BY <1>1, <1>2 DEF Updated
<1>4. ASSUME NEW j \in DOMAIN streams'
      PROVE  /\ DOMAIN streams'[j] = Fields /\ streams'[j].sub \in Subs
             /\ streams'[j].kind \in {"subscribe", "resume"} /\ (streams'[j].open => streams'[j].reactor)
  <2>1. CASE j = i
    BY <2>1, <1>1, <1>3
  <2>2. CASE j # i
    BY <2>2 DEF StreamsOK, Updated
  <2> QED BY <2>1, <2>2
<1> QED BY <1>4 DEF StreamsOK, Updated

\* The RPCs of clients.
LEMMA CallerStepBase ==
  \A c \in Callers : BaseInv /\ RegistryKeys /\ CallerStep(c) => BaseInv'
\* An assignment to the place of one caller.
<1>AssignMoves. ASSUME CallersOK, NEW c \in Callers, NEW k, caller' = [caller EXCEPT ![c] = k]
                PROVE  Moves(c, k)
  BY <1>AssignMoves DEF CallersOK, Moves
\* Steps within the making of a stream.
<1>RoleKept. ASSUME SessionInv, StreamsKept, KeysKept, UNCHANGED <<listed, overlapped, lapsed>>,
                    NEW c \in Callers, NEW k, Moves(c, k), caller[c].at \in Streaming,
                    k.at \in Streaming \ {"construct"}, k.sub = caller[c].sub, k.stream = caller[c].stream,
                    Resuming(k) <=> Resuming(caller[c]), k.at = "recover" => caller[c].at = "recover",
                    streams'[k.stream].reactor
             PROVE  CallerStreams' /\ IdsOK' /\ OneAtATime' /\ Matched' /\ ListedOK'
  <2> USE <1>RoleKept
  <2> USE DEF SessionInv
  <2>0. StreamSubs' = StreamSubs
    BY KeptStreamSubs
  <2>a. /\ caller'[c] = k
        /\ \A d \in Callers : d # c => caller'[d] = caller[d]
    BY DEF Moves
  <2>b. /\ k.at # "idle" /\ k.at # "list" /\ k.at # "cancel" /\ ~Opening(k)
        /\ caller[c].at # "idle" /\ caller[c].at # "list" /\ caller[c].at # "cancel" /\ ~Opening(caller[c])
    BY DEF Streaming, Opening
  <2>c. \A d \in Callers :
          /\ caller'[d].at # "idle" <=> caller[d].at # "idle"
          /\ caller'[d].sub = caller[d].sub
          /\ Opening(caller'[d]) <=> Opening(caller[d])
          /\ Resuming(caller'[d]) <=> Resuming(caller[d])
          /\ caller'[d].at = "cancel" <=> caller[d].at = "cancel"
          /\ caller'[d].at \in Streaming <=> caller[d].at \in Streaming
          /\ caller'[d].at = "recover" => caller[d].at = "recover"
    BY <2>a, <2>b
  <2>2. CallerStreams'
    <3> SUFFICES ASSUME NEW d \in Callers, caller'[d].at \in Streaming
                 PROVE  /\ caller'[d].stream \in DOMAIN streams'
                        /\ streams'[caller'[d].stream].sub = caller'[d].sub
                        /\ streams'[caller'[d].stream].kind = IF Resuming(caller'[d]) THEN "resume" ELSE "subscribe"
                        /\ caller'[d].at # "construct" => streams'[caller'[d].stream].reactor
      BY DEF CallerStreams, Resuming
    <3>1. caller'[d].stream = caller[d].stream
      BY <2>a
    <3>2. /\ caller[d].stream \in DOMAIN streams
          /\ streams[caller[d].stream].sub = caller[d].sub
          /\ streams[caller[d].stream].kind = IF Resuming(caller[d]) THEN "resume" ELSE "subscribe"
          /\ caller[d].at # "construct" => streams[caller[d].stream].reactor
      BY <2>c DEF CallerStreams
    <3>3. caller'[d].at # "construct" => streams'[caller'[d].stream].reactor
      BY <2>a, <3>1, <3>2 DEF StreamsKept
    <3> QED BY SMT, <2>c, <3>1, <3>2, <3>3 DEF StreamsKept
  <2>3. IdsOK'
    <3>1. \A s \in DOMAIN listed' : listed'[s] \in DOMAIN streams' /\ streams'[listed'[s]].sub = s
      BY SMT DEF IdsOK, StreamsKept
    <3>2. \A d \in Callers :
            Opening(caller'[d]) =>
              /\ caller'[d].sub \notin StreamSubs
              /\ \A e \in Callers : caller'[e].at # "idle" /\ caller'[e].sub = caller'[d].sub => e = d
      BY SMT, <2>c DEF IdsOK
    <3>3. \A d \in Callers : caller'[d].at # "idle" /\ ~Opening(caller'[d]) => caller'[d].sub \in StreamSubs
      BY <2>c DEF IdsOK
    <3>4. \A s \in DOMAIN registry.local :
            s \in StreamSubs \/ \E d \in Callers : Opening(caller'[d]) /\ caller'[d].sub = s
      BY SMT, <2>c DEF IdsOK
    <3>5. \A s \in DOMAIN registry.paused : s \in StreamSubs
      BY DEF IdsOK
    <3> QED BY <2>0, <3>1, <3>2, <3>3, <3>4, <3>5 DEF IdsOK, KeysKept, Opening
  <2>4. OneAtATime'
    BY SMT, <2>c DEF OneAtATime
  <2>5. Matched'
    <3> SUFFICES ASSUME NEW s \in Subs \ (overlapped \cup lapsed)
                 PROVE  /\ ~Working(s)' => (s \in DOMAIN registry.local <=> s \in DOMAIN listed)
                        /\ \A d \in Callers :
                             caller'[d].at # "idle" /\ caller'[d].sub = s =>
                               /\ Opening(caller'[d]) => s \in DOMAIN registry.local
                               /\ caller'[d].at \in Streaming => s \in DOMAIN listed
                               /\ caller'[d].at \in Streaming /\ ~Resuming(caller'[d]) => s \in DOMAIN registry.local
                               /\ caller'[d].at = "recover" => s \in DOMAIN registry.local
                               /\ caller'[d].at = "cancel" => s \notin DOMAIN registry.local
      BY SMT DEF Matched, KeysKept, Opening, Resuming
    <3>1. Working(s)' <=> Working(s)
      BY <2>c DEF Working
    <3> QED BY SMT, <2>c, <3>1 DEF Matched
  <2>6. ListedOK'
    <3> SUFFICES ASSUME NEW i \in DOMAIN streams', streams'[i].kind = "subscribe", streams'[i].active,
                        streams'[i].sub \notin overlapped
                 PROVE  LET s == streams'[i].sub IN
                        /\ s \in DOMAIN listed /\ listed[s] = i
                        /\ s \in DOMAIN registry'.paused =>
                             \E d \in Callers : caller'[d].at = "cancel" /\ caller'[d].sub = s
                        /\ \A d \in Callers : caller'[d].at # "idle" /\ caller'[d].sub = s => ~Resuming(caller'[d])
      BY DEF ListedOK, Resuming
    <3>1. /\ i \in DOMAIN streams /\ streams[i].kind = "subscribe" /\ streams[i].active
          /\ streams'[i].sub = streams[i].sub
      BY DEF StreamsKept
    <3> QED BY SMT, <2>c, <3>1 DEF ListedOK, KeysKept
  <2> QED BY <2>2, <2>3, <2>4, <2>5, <2>6
\* The RPC is established.
<1>RoleEnds. ASSUME SessionInv, StreamsKept, KeysKept, UNCHANGED <<listed, overlapped, lapsed>>,
                    NEW c \in Callers, Moves(c, Idle), caller[c].at \in {"subscribe", "recover"},
                    ~Resuming(caller[c]) \/ caller[c].at = "recover"
             PROVE  SessionInv'
  <2> USE <1>RoleEnds
  <2> USE DEF SessionInv
  <2>0. StreamSubs' = StreamSubs
    BY KeptStreamSubs
  <2>a. /\ caller'[c] = Idle /\ Idle.at = "idle" /\ DOMAIN caller' = Callers
        /\ \A d \in Callers : d # c => caller'[d] = caller[d]
    BY DEF Moves, Idle
  <2>b. caller[c].at # "idle" /\ caller[c].at \in Streaming /\ ~Opening(caller[c]) /\ caller[c].at # "cancel"
    BY DEF Streaming, Opening
  <2>c. \A d \in Callers : caller'[d].at # "idle" => d # c /\ caller'[d] = caller[d]
    BY <2>a
  <2>1. CallersOK'
    BY SMT, <2>a DEF CallersOK
  <2>2. CallerStreams'
    <3> SUFFICES ASSUME NEW d \in Callers, caller'[d].at \in Streaming
                 PROVE  /\ caller'[d].stream \in DOMAIN streams'
                        /\ streams'[caller'[d].stream].sub = caller'[d].sub
                        /\ streams'[caller'[d].stream].kind = IF Resuming(caller'[d]) THEN "resume" ELSE "subscribe"
                        /\ caller'[d].at # "construct" => streams'[caller'[d].stream].reactor
      BY DEF CallerStreams, Resuming
    <3>1. caller'[d] = caller[d]
      BY <2>c DEF Streaming
    <3> QED BY SMT, <3>1 DEF StreamsKept, CallerStreams
  <2>3. IdsOK'
    <3>1. \A s \in DOMAIN listed' : listed'[s] \in DOMAIN streams' /\ streams'[listed'[s]].sub = s
      BY DEF IdsOK, StreamsKept
    <3>2. \A d \in Callers :
            Opening(caller'[d]) =>
              /\ caller'[d].sub \notin StreamSubs
              /\ \A e \in Callers : caller'[e].at # "idle" /\ caller'[e].sub = caller'[d].sub => e = d
      <4> SUFFICES ASSUME NEW d \in Callers, Opening(caller'[d])
                   PROVE  /\ caller'[d].sub \notin StreamSubs
                          /\ \A e \in Callers : caller'[e].at # "idle" /\ caller'[e].sub = caller'[d].sub => e = d
        OBVIOUS
      <4>1. caller'[d] = caller[d] /\ Opening(caller[d])
        BY <2>c DEF Opening
      <4> QED BY SMT, <4>1, <2>c DEF IdsOK
    <3>3. \A d \in Callers : caller'[d].at # "idle" /\ ~Opening(caller'[d]) => caller'[d].sub \in StreamSubs
      BY <2>c DEF IdsOK
    <3>4. \A s \in DOMAIN registry.local :
            s \in StreamSubs \/ \E d \in Callers : Opening(caller'[d]) /\ caller'[d].sub = s
      BY SMT, <2>a, <2>b DEF IdsOK
    <3>5. \A s \in DOMAIN registry.paused : s \in StreamSubs
      BY DEF IdsOK
    <3> QED BY <2>0, <3>1, <3>2, <3>3, <3>4, <3>5 DEF IdsOK, KeysKept, Opening
  <2>4. OneAtATime'
    BY SMT, <2>c DEF OneAtATime
  <2>5. Matched'
    <3> SUFFICES ASSUME NEW s \in Subs \ (overlapped \cup lapsed)
                 PROVE  /\ ~Working(s)' => (s \in DOMAIN registry.local <=> s \in DOMAIN listed)
                        /\ \A d \in Callers :
                             caller'[d].at # "idle" /\ caller'[d].sub = s =>
                               /\ Opening(caller'[d]) => s \in DOMAIN registry.local
                               /\ caller'[d].at \in Streaming => s \in DOMAIN listed
                               /\ caller'[d].at \in Streaming /\ ~Resuming(caller'[d]) => s \in DOMAIN registry.local
                               /\ caller'[d].at = "recover" => s \in DOMAIN registry.local
                               /\ caller'[d].at = "cancel" => s \notin DOMAIN registry.local
      BY SMT DEF Matched, KeysKept, Opening, Resuming
    <3>1. ASSUME ~Working(s)' PROVE s \in DOMAIN registry.local <=> s \in DOMAIN listed
      <4>1. CASE caller[c].sub = s
        BY <2>b, <4>1 DEF Matched
      <4>2. CASE caller[c].sub # s
        <5>1. ~Working(s)
          BY <2>a, <3>1, <4>2 DEF Working
        <5> QED BY <5>1 DEF Matched
      <4> QED BY <4>1, <4>2
    <3> QED BY SMT, <2>c, <3>1 DEF Matched
  <2>6. ListedOK'
    <3> SUFFICES ASSUME NEW i \in DOMAIN streams', streams'[i].kind = "subscribe", streams'[i].active,
                        streams'[i].sub \notin overlapped
                 PROVE  LET s == streams'[i].sub IN
                        /\ s \in DOMAIN listed /\ listed[s] = i
                        /\ s \in DOMAIN registry'.paused =>
                             \E d \in Callers : caller'[d].at = "cancel" /\ caller'[d].sub = s
                        /\ \A d \in Callers : caller'[d].at # "idle" /\ caller'[d].sub = s => ~Resuming(caller'[d])
      BY DEF ListedOK, Resuming
    <3>1. /\ i \in DOMAIN streams /\ streams[i].kind = "subscribe" /\ streams[i].active
          /\ streams'[i].sub = streams[i].sub
      BY DEF StreamsKept
    <3> QED BY SMT, <2>a, <2>b, <2>c, <3>1 DEF ListedOK, KeysKept
  <2> QED BY <2>1, <2>2, <2>3, <2>4, <2>5, <2>6
\* Subscribe(): the id is nowhere yet.
<1>SubscribeSessions. ASSUME StreamsOK, SessionInv, RegistryKeys, NEW c \in Callers, Subscribe(c)
                      PROVE  SessionInv'
  <2> USE <1>SubscribeSessions
  <2> USE DEF SessionInv
  <2>p. PICK s \in Subs \ Used, ts \in Interests :
          /\ registry' = AddLocalSubscription(registry, s, ts)
          /\ caller' = [caller EXCEPT ![c] = [at |-> "list", sub |-> s, kind |-> "subscribe", topics |-> ts]]
    BY DEF Subscribe
  <2> DEFINE k == [at |-> "list", sub |-> s, kind |-> "subscribe", topics |-> ts]
  <2>k. k.at = "list" /\ k.sub = s /\ Opening(k) /\ ~Resuming(k) /\ k.at # "idle" /\ k.at # "cancel"
          /\ k.at \notin Streaming /\ k.kind = "subscribe"
    BY DEF Opening, Resuming, Streaming
  <2>m. Moves(c, k)
    BY <2>p, <1>AssignMoves
  <2> HIDE DEF k
  <2>f. UNCHANGED <<streams, listed, overlapped, lapsed>>
    BY DEF Subscribe, historyVars
  <2>j. caller[c] = Idle
    BY DEF Subscribe
  <2>i. caller[c].at = "idle"
    BY SMT, <2>j DEF Idle
  <2>r. /\ DOMAIN registry'.local = DOMAIN registry.local \cup {s}
        /\ DOMAIN registry'.paused = DOMAIN registry.paused
    BY <2>p DEF RegistryKeys, AddKeysOK
  <2>u. s \notin StreamSubs /\ \A d \in Callers : caller[d].at # "idle" => caller[d].sub # s
    BY DistinctIdle DEF Used, StreamSubs
  <2>s. StreamSubs' = StreamSubs
    BY <2>f DEF StreamSubs
  <2>a. caller'[c] = k /\ DOMAIN caller' = Callers /\ \A d \in Callers : d # c => caller'[d] = caller[d]
    BY <2>m DEF Moves
  <2>1. CallersOK'
    BY SMT, <2>a, <2>k DEF CallersOK
  <2>2. CallerStreams'
    <3> SUFFICES ASSUME NEW d \in Callers, caller'[d].at \in Streaming
                 PROVE  /\ caller'[d].stream \in DOMAIN streams'
                        /\ streams'[caller'[d].stream].sub = caller'[d].sub
                        /\ streams'[caller'[d].stream].kind = IF Resuming(caller'[d]) THEN "resume" ELSE "subscribe"
                        /\ caller'[d].at # "construct" => streams'[caller'[d].stream].reactor
      BY DEF CallerStreams, Resuming
    <3>1. d # c /\ caller'[d] = caller[d]
      BY <2>a, <2>k
    <3> QED BY <2>f, <3>1 DEF CallerStreams
  <2>3. IdsOK'
    <3>1. \A r \in DOMAIN listed' : listed'[r] \in DOMAIN streams' /\ streams'[listed'[r]].sub = r
      BY <2>f DEF IdsOK
    <3>2. ASSUME NEW d \in Callers, Opening(caller'[d])
          PROVE  /\ caller'[d].sub \notin StreamSubs'
                 /\ \A e \in Callers : caller'[e].at # "idle" /\ caller'[e].sub = caller'[d].sub => e = d
      <4>1. CASE d = c
        BY <4>1, <2>a, <2>k, <2>s, <2>u
      <4>2. CASE d # c
        <5>1. caller'[d] = caller[d] /\ Opening(caller[d]) /\ caller[d].sub # s
          BY <2>a, <2>u, <3>2, <4>2 DEF Opening
        <5> QED BY SMT, <5>1, <2>a, <2>k, <2>s DEF IdsOK
      <4> QED BY <4>1, <4>2
    <3>3. \A d \in Callers : caller'[d].at # "idle" /\ ~Opening(caller'[d]) => caller'[d].sub \in StreamSubs'
      BY SMT, <2>a, <2>k, <2>s DEF IdsOK
    <3>4. \A r \in DOMAIN registry'.local :
            r \in StreamSubs' \/ \E d \in Callers : Opening(caller'[d]) /\ caller'[d].sub = r
      <4>1. \A d \in Callers : Opening(caller[d]) => d # c
        BY <2>i DEF Opening
      <4> QED BY SMT, <2>a, <2>k, <2>s, <2>r, <4>1 DEF IdsOK
    <3>5. \A r \in DOMAIN registry'.paused : r \in StreamSubs'
      BY <2>s, <2>r DEF IdsOK
    <3> QED BY <3>1, <3>2, <3>3, <3>4, <3>5 DEF IdsOK, Opening
  <2>4. OneAtATime'
    BY SMT, <2>a, <2>k, <2>u, <2>f DEF OneAtATime
  <2>5. Matched'
    <3> SUFFICES ASSUME NEW r \in Subs \ (overlapped' \cup lapsed')
                 PROVE  /\ ~Working(r)' => (r \in DOMAIN registry'.local <=> r \in DOMAIN listed')
                        /\ \A d \in Callers :
                             caller'[d].at # "idle" /\ caller'[d].sub = r =>
                               /\ Opening(caller'[d]) => r \in DOMAIN registry'.local
                               /\ caller'[d].at \in Streaming => r \in DOMAIN listed'
                               /\ caller'[d].at \in Streaming /\ ~Resuming(caller'[d]) => r \in DOMAIN registry'.local
                               /\ caller'[d].at = "recover" => r \in DOMAIN registry'.local
                               /\ caller'[d].at = "cancel" => r \notin DOMAIN registry'.local
      BY DEF Matched, Opening, Resuming
    <3>1. CASE r = s
      <4>1. Working(r)'
        BY <2>a, <2>k, <3>1 DEF Working
      <4>2. \A d \in Callers : caller'[d].at # "idle" /\ caller'[d].sub = r => d = c
        BY <2>a, <2>u, <3>1
      <4> QED BY <4>1, <4>2, <2>a, <2>k, <2>r, <3>1
    <3>2. CASE r # s
      <4>1. Working(r)' <=> Working(r)
        BY <2>a, <2>k, <2>i, <3>2 DEF Working
      <4>2. \A d \in Callers : caller'[d].at # "idle" /\ caller'[d].sub = r => caller'[d] = caller[d]
        BY <2>a, <2>k, <3>2
      <4> QED BY <4>1, <4>2, <2>f, <2>r, <3>2 DEF Matched
    <3> QED BY <3>1, <3>2
  <2>6. ListedOK'
    <3> SUFFICES ASSUME NEW i \in DOMAIN streams', streams'[i].kind = "subscribe", streams'[i].active,
                        streams'[i].sub \notin overlapped'
                 PROVE  LET r == streams'[i].sub IN
                        /\ r \in DOMAIN listed' /\ listed'[r] = i
                        /\ r \in DOMAIN registry'.paused =>
                             \E d \in Callers : caller'[d].at = "cancel" /\ caller'[d].sub = r
                        /\ \A d \in Callers : caller'[d].at # "idle" /\ caller'[d].sub = r => ~Resuming(caller'[d])
      BY DEF ListedOK, Resuming
    <3>1. streams'[i].sub \in StreamSubs /\ streams'[i].sub # s
      BY <2>f, <2>u DEF StreamSubs
    <3> QED BY SMT, <2>a, <2>k, <2>i, <2>f, <2>r, <3>1 DEF ListedOK
  <2> QED BY <2>1, <2>2, <2>3, <2>4, <2>5, <2>6
\* UnsubscribeReactor takes the subscription out of the registry.
<1>UnsubscribeSessions. ASSUME StreamsOK, SessionInv, RegistryKeys, NEW c \in Callers, Unsubscribe(c)
                        PROVE  SessionInv'
  <2> USE <1>UnsubscribeSessions
  <2> USE DEF SessionInv
  <2>p. PICK s \in Known, pause \in BOOLEAN :
          /\ registry' = RemoveLocalSubscription(registry, s, pause)
          /\ caller' = [caller EXCEPT ![c] = [at |-> "cancel", sub |-> s]]
          /\ NoteOverlap(s)
    BY DEF Unsubscribe
  <2> DEFINE k == [at |-> "cancel", sub |-> s]
  <2>k. k.at = "cancel" /\ k.sub = s /\ ~Opening(k) /\ ~Resuming(k) /\ k.at \notin Streaming
    BY DEF Opening, Resuming, Streaming
  <2>m. Moves(c, k)
    BY <2>p, <1>AssignMoves
  <2> HIDE DEF k
  <2>f. UNCHANGED <<streams, listed, lapsed>>
    BY DEF Unsubscribe
  <2>j. caller[c] = Idle
    BY DEF Unsubscribe
  <2>i. caller[c].at = "idle"
    BY SMT, <2>j DEF Idle
  <2>r. PICK ps : /\ DOMAIN registry'.local = DOMAIN registry.local \ {s}
                  /\ DOMAIN registry'.paused = ps /\ ps \subseteq DOMAIN registry.paused \cup {s}
    BY SMT, <2>p DEF RegistryKeys, RemoveKeysOK
  <2>o. overlapped \subseteq overlapped' /\ (s \notin overlapped' => ~Working(s))
    BY <2>p, BusyIsWorking DEF NoteOverlap
  <2>u. s \in StreamSubs /\ s \in Subs
    BY DEF Known, StreamSubs, StreamsOK
  <2>s. StreamSubs' = StreamSubs
    BY <2>f DEF StreamSubs
  <2>a. caller'[c] = k /\ DOMAIN caller' = Callers /\ \A d \in Callers : d # c => caller'[d] = caller[d]
    BY <2>m DEF Moves
  <2>w. s \notin overlapped' => \A d \in Callers : caller'[d].at # "idle" /\ caller'[d].sub = s => d = c
    BY <2>a, <2>o DEF Working
  <2>1. CallersOK'
    BY SMT, <2>a, <2>k, <2>u DEF CallersOK
  <2>2. CallerStreams'
    <3> SUFFICES ASSUME NEW d \in Callers, caller'[d].at \in Streaming
                 PROVE  /\ caller'[d].stream \in DOMAIN streams'
                        /\ streams'[caller'[d].stream].sub = caller'[d].sub
                        /\ streams'[caller'[d].stream].kind = IF Resuming(caller'[d]) THEN "resume" ELSE "subscribe"
                        /\ caller'[d].at # "construct" => streams'[caller'[d].stream].reactor
      BY DEF CallerStreams, Resuming
    <3>1. d # c /\ caller'[d] = caller[d]
      BY <2>a, <2>k
    <3> QED BY <2>f, <3>1 DEF CallerStreams
  <2>3. IdsOK'
    <3>1. \A r \in DOMAIN listed' : listed'[r] \in DOMAIN streams' /\ streams'[listed'[r]].sub = r
      BY <2>f DEF IdsOK
    <3>2. ASSUME NEW d \in Callers, Opening(caller'[d])
          PROVE  /\ caller'[d].sub \notin StreamSubs'
                 /\ \A e \in Callers : caller'[e].at # "idle" /\ caller'[e].sub = caller'[d].sub => e = d
      <4>1. d # c
        BY <2>a, <2>k, <3>2
      <4>2. caller'[d] = caller[d] /\ Opening(caller[d]) /\ caller[d].sub # s
        BY SMT, <2>a, <2>u, <3>2, <4>1 DEF IdsOK
      <4> QED BY SMT, <4>2, <2>a, <2>k, <2>s DEF IdsOK
    <3>3. \A d \in Callers : caller'[d].at # "idle" /\ ~Opening(caller'[d]) => caller'[d].sub \in StreamSubs'
      BY <2>a, <2>k, <2>s, <2>u DEF IdsOK
    <3>4. \A r \in DOMAIN registry'.local :
            r \in StreamSubs' \/ \E d \in Callers : Opening(caller'[d]) /\ caller'[d].sub = r
      <4>1. \A d \in Callers : Opening(caller[d]) => d # c
        BY <2>i DEF Opening
      <4> QED BY SMT, <2>a, <2>k, <2>s, <2>r, <4>1 DEF IdsOK
    <3>5. \A r \in DOMAIN registry'.paused : r \in StreamSubs'
      BY <2>s, <2>r, <2>u DEF IdsOK
    <3> QED BY <3>1, <3>2, <3>3, <3>4, <3>5 DEF IdsOK, Opening
  <2>4. OneAtATime'
    BY SMT, <2>a, <2>k, <2>w, <2>o DEF OneAtATime
  <2>5. Matched'
    <3> SUFFICES ASSUME NEW r \in Subs \ (overlapped' \cup lapsed')
                 PROVE  /\ ~Working(r)' => (r \in DOMAIN registry'.local <=> r \in DOMAIN listed')
                        /\ \A d \in Callers :
                             caller'[d].at # "idle" /\ caller'[d].sub = r =>
                               /\ Opening(caller'[d]) => r \in DOMAIN registry'.local
                               /\ caller'[d].at \in Streaming => r \in DOMAIN listed'
                               /\ caller'[d].at \in Streaming /\ ~Resuming(caller'[d]) => r \in DOMAIN registry'.local
                               /\ caller'[d].at = "recover" => r \in DOMAIN registry'.local
                               /\ caller'[d].at = "cancel" => r \notin DOMAIN registry'.local
      BY DEF Matched, Opening, Resuming
    <3>1. CASE r = s
      <4>1. Working(r)'
        BY <2>a, <2>k, <3>1 DEF Working
      <4> QED BY <4>1, <2>w, <2>a, <2>k, <2>r, <3>1
    <3>2. CASE r # s
      <4>1. Working(r)' <=> Working(r)
        BY <2>a, <2>k, <2>i, <3>2 DEF Working
      <4>2. \A d \in Callers : caller'[d].at # "idle" /\ caller'[d].sub = r => caller'[d] = caller[d]
        BY <2>a, <2>k, <3>2
      <4> QED BY <4>1, <4>2, <2>f, <2>o, <2>r, <3>2 DEF Matched
    <3> QED BY <3>1, <3>2
  <2>6. ListedOK'
    <3> SUFFICES ASSUME NEW i \in DOMAIN streams', streams'[i].kind = "subscribe", streams'[i].active,
                        streams'[i].sub \notin overlapped'
                 PROVE  LET r == streams'[i].sub IN
                        /\ r \in DOMAIN listed' /\ listed'[r] = i
                        /\ r \in DOMAIN registry'.paused =>
                             \E d \in Callers : caller'[d].at = "cancel" /\ caller'[d].sub = r
                        /\ \A d \in Callers : caller'[d].at # "idle" /\ caller'[d].sub = r => ~Resuming(caller'[d])
      BY DEF ListedOK, Resuming
    <3>1. CASE streams'[i].sub = s
      <4>1. s \in DOMAIN listed' /\ listed'[s] = i
        BY <2>f, <2>o, <3>1 DEF ListedOK
      <4> QED BY <4>1, <2>w, <2>a, <2>k, <3>1
    <3>2. CASE streams'[i].sub # s
      BY SMT, <2>a, <2>k, <2>i, <2>f, <2>r, <2>o, <3>2 DEF ListedOK
    <3> QED BY <3>1, <3>2
  <2> QED BY <2>1, <2>2, <2>3, <2>4, <2>5, <2>6
\* ResumeSubscribe() finds the subscription paused.
<1>ResumeSessions. ASSUME StreamsOK, SessionInv, NEW c \in Callers, Resume(c)
                   PROVE  SessionInv'
  <2> USE <1>ResumeSessions
  <2> USE DEF SessionInv
  <2>p. PICK s \in DOMAIN registry.paused, mode \in Modes : \E n \in {0, number[s]} :
          /\ caller' = [caller EXCEPT ![c] =
               [at |-> "list", sub |-> s, kind |-> "resume",
                topics |-> registry.paused[s].topics, mode |-> mode, number |-> n]]
          /\ NoteOverlap(s)
    BY DEF Resume
  <2>q. PICK n \in {0, number[s]} :
          caller' = [caller EXCEPT ![c] =
               [at |-> "list", sub |-> s, kind |-> "resume",
                topics |-> registry.paused[s].topics, mode |-> mode, number |-> n]]
    BY <2>p
  <2> DEFINE k == [at |-> "list", sub |-> s, kind |-> "resume",
                   topics |-> registry.paused[s].topics, mode |-> mode, number |-> n]
  <2>k. k.at = "list" /\ k.sub = s /\ k.kind = "resume" /\ ~Opening(k) /\ k.at \notin Streaming
    BY DEF Opening, Streaming
  <2>m. Moves(c, k)
    BY <2>q, <1>AssignMoves
  <2> HIDE DEF k
  <2>f. UNCHANGED <<registry, streams, listed, lapsed>>
    BY DEF Resume, sessionVars
  <2>j. caller[c] = Idle
    BY DEF Resume
  <2>i. caller[c].at = "idle"
    BY SMT, <2>j DEF Idle
  <2>o. overlapped \subseteq overlapped' /\ (s \notin overlapped' => ~Working(s))
    BY <2>p, BusyIsWorking DEF NoteOverlap
  <2>u. s \in StreamSubs /\ s \in Subs
    BY SMT DEF IdsOK, StreamSubs, StreamsOK
  <2>s. StreamSubs' = StreamSubs
    BY <2>f DEF StreamSubs
  <2>a. caller'[c] = k /\ DOMAIN caller' = Callers /\ \A d \in Callers : d # c => caller'[d] = caller[d]
    BY <2>m DEF Moves
  <2>w. s \notin overlapped' => \A d \in Callers : caller'[d].at # "idle" /\ caller'[d].sub = s => d = c
    BY <2>a, <2>o DEF Working
  <2>1. CallersOK'
    BY SMT, <2>a, <2>k, <2>u DEF CallersOK
  <2>2. CallerStreams'
    <3> SUFFICES ASSUME NEW d \in Callers, caller'[d].at \in Streaming
                 PROVE  /\ caller'[d].stream \in DOMAIN streams'
                        /\ streams'[caller'[d].stream].sub = caller'[d].sub
                        /\ streams'[caller'[d].stream].kind = IF Resuming(caller'[d]) THEN "resume" ELSE "subscribe"
                        /\ caller'[d].at # "construct" => streams'[caller'[d].stream].reactor
      BY DEF CallerStreams, Resuming
    <3>1. d # c /\ caller'[d] = caller[d]
      BY <2>a, <2>k
    <3> QED BY <2>f, <3>1 DEF CallerStreams
  <2>3. IdsOK'
    <3>1. \A r \in DOMAIN listed' : listed'[r] \in DOMAIN streams' /\ streams'[listed'[r]].sub = r
      BY <2>f DEF IdsOK
    <3>2. ASSUME NEW d \in Callers, Opening(caller'[d])
          PROVE  /\ caller'[d].sub \notin StreamSubs'
                 /\ \A e \in Callers : caller'[e].at # "idle" /\ caller'[e].sub = caller'[d].sub => e = d
      <4>1. d # c
        BY <2>a, <2>k, <3>2
      <4>2. caller'[d] = caller[d] /\ Opening(caller[d]) /\ caller[d].sub # s
        BY SMT, <2>a, <2>u, <3>2, <4>1 DEF IdsOK
      <4> QED BY SMT, <4>2, <2>a, <2>k, <2>s DEF IdsOK
    <3>3. \A d \in Callers : caller'[d].at # "idle" /\ ~Opening(caller'[d]) => caller'[d].sub \in StreamSubs'
      BY SMT, <2>a, <2>k, <2>s, <2>u DEF IdsOK
    <3>4. \A r \in DOMAIN registry'.local :
            r \in StreamSubs' \/ \E d \in Callers : Opening(caller'[d]) /\ caller'[d].sub = r
      <4>1. \A d \in Callers : Opening(caller[d]) => d # c
        BY <2>i DEF Opening
      <4> QED BY SMT, <2>a, <2>k, <2>s, <2>f, <4>1 DEF IdsOK
    <3>5. \A r \in DOMAIN registry'.paused : r \in StreamSubs'
      BY <2>s, <2>f DEF IdsOK
    <3> QED BY <3>1, <3>2, <3>3, <3>4, <3>5 DEF IdsOK, Opening
  <2>4. OneAtATime'
    BY SMT, <2>a, <2>k, <2>w, <2>o DEF OneAtATime
  <2>5. Matched'
    <3> SUFFICES ASSUME NEW r \in Subs \ (overlapped' \cup lapsed')
                 PROVE  /\ ~Working(r)' => (r \in DOMAIN registry'.local <=> r \in DOMAIN listed')
                        /\ \A d \in Callers :
                             caller'[d].at # "idle" /\ caller'[d].sub = r =>
                               /\ Opening(caller'[d]) => r \in DOMAIN registry'.local
                               /\ caller'[d].at \in Streaming => r \in DOMAIN listed'
                               /\ caller'[d].at \in Streaming /\ ~Resuming(caller'[d]) => r \in DOMAIN registry'.local
                               /\ caller'[d].at = "recover" => r \in DOMAIN registry'.local
                               /\ caller'[d].at = "cancel" => r \notin DOMAIN registry'.local
      BY DEF Matched, Opening, Resuming
    <3>1. CASE r = s
      <4>1. Working(r)'
        BY <2>a, <2>k, <3>1 DEF Working
      <4> QED BY <4>1, <2>w, <2>a, <2>k, <3>1, <2>f
    <3>2. CASE r # s
      <4>1. Working(r)' <=> Working(r)
        BY SMT, <2>a, <2>k, <2>i, <3>2 DEF Working
      <4>2. \A d \in Callers : caller'[d].at # "idle" /\ caller'[d].sub = r => caller'[d] = caller[d]
        BY <2>a, <2>k, <3>2
      <4> QED BY <4>1, <4>2, <2>f, <2>o, <3>2 DEF Matched
    <3> QED BY <3>1, <3>2
  <2>6. ListedOK'
    <3> SUFFICES ASSUME NEW i \in DOMAIN streams', streams'[i].kind = "subscribe", streams'[i].active,
                        streams'[i].sub \notin overlapped'
                 PROVE  LET r == streams'[i].sub IN
                        /\ r \in DOMAIN listed' /\ listed'[r] = i
                        /\ r \in DOMAIN registry'.paused =>
                             \E d \in Callers : caller'[d].at = "cancel" /\ caller'[d].sub = r
                        /\ \A d \in Callers : caller'[d].at # "idle" /\ caller'[d].sub = r => ~Resuming(caller'[d])
      BY DEF ListedOK, Resuming
    <3>1. streams'[i].sub # s
      BY SMT, <2>f, <2>o DEF ListedOK, Working
    <3> QED BY SMT, <2>a, <2>k, <2>i, <2>f, <2>o, <3>1 DEF ListedOK
  <2> QED BY <2>1, <2>2, <2>3, <2>4, <2>5, <2>6
\* resumeSubscription(), or a pause that is over.
<1>TakenSessions. ASSUME StreamsOK, SessionInv, RegistryKeys, NEW c \in Callers, ResumeInRegistry(c)
                  PROVE  SessionInv'
  <2> USE <1>TakenSessions
  <2> USE DEF SessionInv
  <2> DEFINE s == caller[c].sub
             op == caller[c].op
             recover == Resumable(registry, s) /\ op.mode # "NONE"
             k == [at |-> "recover", sub |-> s, stream |-> caller[c].stream, mode |-> op.mode,
                   todo |-> IF recover THEN op.topics ELSE {},
                   number |-> IF op.number = 0 /\ recover THEN registry.paused[s].last ELSE op.number,
                   saved |-> op.number = 0]
  <2>k. /\ k.at = "recover" /\ k.sub = s /\ k.stream = caller[c].stream
        /\ ~Opening(k) /\ Resuming(k) /\ k.at \in Streaming
        /\ DOMAIN k = {"at", "sub", "stream", "mode", "todo", "number", "saved"}
    BY DEF Opening, Resuming, Streaming
  <2>0. /\ registry' = ResumeSubscription(registry, s)
        /\ lapsed' = IF Resumable(registry, s) THEN lapsed ELSE lapsed \cup {s}
    BY DEF ResumeInRegistry
  <2>q. caller' = [caller EXCEPT ![c] = k]
    BY DEF ResumeInRegistry, CallersOK
  <2>m. Moves(c, k)
    BY <2>q, <1>AssignMoves
  <2>i. caller[c].at = "resume" /\ caller[c].at \in Streaming /\ Resuming(caller[c]) /\ ~Opening(caller[c])
    BY DEF ResumeInRegistry, Streaming, Resuming, Opening
  <2> HIDE DEF k, s
  <2>f. UNCHANGED <<streams, listed, overlapped>>
    BY DEF ResumeInRegistry
  <2>r. /\ DOMAIN registry'.local = IF Resumable(registry, s) THEN DOMAIN registry.local \cup {s} ELSE DOMAIN registry.local
        /\ DOMAIN registry'.paused = DOMAIN registry.paused \ {s}
    BY <2>0 DEF RegistryKeys, ResumeKeysOK
  <2>l. lapsed \subseteq lapsed' /\ (s \notin lapsed' => s \in DOMAIN registry'.local)
    BY <2>0, <2>r
  <2>u. s \in StreamSubs /\ s \in Subs /\ caller[c].sub = s
    BY SMT, <2>i DEF IdsOK, StreamSubs, StreamsOK, s
  <2>s. StreamSubs' = StreamSubs
    BY <2>f DEF StreamSubs
  <2>a. caller'[c] = k /\ DOMAIN caller' = Callers /\ \A d \in Callers : d # c => caller'[d] = caller[d]
    BY <2>m DEF Moves
  <2>w. s \notin overlapped => \A d \in Callers : caller'[d].at # "idle" /\ caller'[d].sub = s => d = c
    BY <2>a, <2>i, <2>u DEF OneAtATime
  <2>1. CallersOK'
    BY SMT, <2>a, <2>k, <2>u DEF CallersOK
  <2>2. CallerStreams'
    <3> SUFFICES ASSUME NEW d \in Callers, caller'[d].at \in Streaming
                 PROVE  /\ caller'[d].stream \in DOMAIN streams'
                        /\ streams'[caller'[d].stream].sub = caller'[d].sub
                        /\ streams'[caller'[d].stream].kind = IF Resuming(caller'[d]) THEN "resume" ELSE "subscribe"
                        /\ caller'[d].at # "construct" => streams'[caller'[d].stream].reactor
      BY DEF CallerStreams, Resuming
    <3>1. CASE d = c
      BY SMT, <2>a, <2>k, <2>i, <2>f, <2>u, <3>1 DEF CallerStreams
    <3>2. CASE d # c
      <4>1. caller'[d] = caller[d]
        BY <2>a, <3>2
      <4> QED BY <2>f, <4>1 DEF CallerStreams
    <3> QED BY <3>1, <3>2
  <2>3. IdsOK'
    <3>1. \A r \in DOMAIN listed' : listed'[r] \in DOMAIN streams' /\ streams'[listed'[r]].sub = r
      BY <2>f DEF IdsOK
    <3>2. ASSUME NEW d \in Callers, Opening(caller'[d])
          PROVE  /\ caller'[d].sub \notin StreamSubs'
                 /\ \A e \in Callers : caller'[e].at # "idle" /\ caller'[e].sub = caller'[d].sub => e = d
      <4>1. d # c
        BY <2>a, <2>k, <3>2
      <4>2. caller'[d] = caller[d] /\ Opening(caller[d]) /\ caller[d].sub # s
        BY <2>a, <2>u, <3>2, <4>1 DEF IdsOK
      <4> QED BY SMT, <4>2, <2>a, <2>k, <2>s DEF IdsOK
    <3>3. \A d \in Callers : caller'[d].at # "idle" /\ ~Opening(caller'[d]) => caller'[d].sub \in StreamSubs'
      BY SMT, <2>a, <2>k, <2>s, <2>u DEF IdsOK
    <3>4. \A r \in DOMAIN registry'.local :
            r \in StreamSubs' \/ \E d \in Callers : Opening(caller'[d]) /\ caller'[d].sub = r
      <4> SUFFICES ASSUME NEW r \in DOMAIN registry'.local, r \notin StreamSubs'
                   PROVE  \E d \in Callers : Opening(caller'[d]) /\ caller'[d].sub = r
        OBVIOUS
      <4>1. r \in DOMAIN registry.local
        BY <2>r, <2>s, <2>u
      <4>2. PICK d \in Callers : Opening(caller[d]) /\ caller[d].sub = r
        BY <4>1, <2>s DEF IdsOK
      <4>3. d # c
        BY <4>2, <2>i
      <4> QED BY <4>2, <4>3, <2>a
    <3>5. \A r \in DOMAIN registry'.paused : r \in StreamSubs'
      BY <2>s, <2>r DEF IdsOK
    <3> QED BY <3>1, <3>2, <3>3, <3>4, <3>5 DEF IdsOK, Opening
  <2>4. OneAtATime'
    <3>1. \A d \in Callers : (caller'[d].at # "idle" <=> caller[d].at # "idle") /\ caller'[d].sub = caller[d].sub
      BY <2>a, <2>k, <2>i, <2>u
    <3> QED BY <3>1, <2>f DEF OneAtATime
  <2>5. Matched'
    <3> SUFFICES ASSUME NEW r \in Subs \ (overlapped' \cup lapsed')
                 PROVE  /\ ~Working(r)' => (r \in DOMAIN registry'.local <=> r \in DOMAIN listed')
                        /\ \A d \in Callers :
                             caller'[d].at # "idle" /\ caller'[d].sub = r =>
                               /\ Opening(caller'[d]) => r \in DOMAIN registry'.local
                               /\ caller'[d].at \in Streaming => r \in DOMAIN listed'
                               /\ caller'[d].at \in Streaming /\ ~Resuming(caller'[d]) => r \in DOMAIN registry'.local
                               /\ caller'[d].at = "recover" => r \in DOMAIN registry'.local
                               /\ caller'[d].at = "cancel" => r \notin DOMAIN registry'.local
      BY DEF Matched, Opening, Resuming
    <3>1. CASE r = s
      <4>1. Working(r)'
        BY <2>a, <2>k, <3>1 DEF Working
      <4>2. r \in DOMAIN listed
        BY <2>i, <2>u, <2>l, <2>f, <3>1 DEF Matched
      <4> QED BY <4>1, <4>2, <2>w, <2>a, <2>k, <2>l, <2>f, <3>1
    <3>2. CASE r # s
      <4>1. Working(r)' <=> Working(r)
        BY <2>a, <2>k, <2>i, <2>u, <3>2 DEF Working
      <4>2. \A d \in Callers : caller'[d].at # "idle" /\ caller'[d].sub = r => caller'[d] = caller[d]
        BY <2>a, <2>k, <3>2
      <4>3. r \in DOMAIN registry'.local <=> r \in DOMAIN registry.local
        BY <2>r, <3>2
      <4> QED BY <4>1, <4>2, <4>3, <2>f, <2>l, <3>2 DEF Matched
    <3> QED BY <3>1, <3>2
  <2>6. ListedOK'
    <3> SUFFICES ASSUME NEW i \in DOMAIN streams', streams'[i].kind = "subscribe", streams'[i].active,
                        streams'[i].sub \notin overlapped'
                 PROVE  LET r == streams'[i].sub IN
                        /\ r \in DOMAIN listed' /\ listed'[r] = i
                        /\ r \in DOMAIN registry'.paused =>
                             \E d \in Callers : caller'[d].at = "cancel" /\ caller'[d].sub = r
                        /\ \A d \in Callers : caller'[d].at # "idle" /\ caller'[d].sub = r => ~Resuming(caller'[d])
      BY DEF ListedOK, Resuming
    <3>1. streams'[i].sub # s
      BY <2>f, <2>i, <2>u DEF ListedOK, Resuming
    <3>2. \A d \in Callers : caller[d].at = "cancel" => caller'[d] = caller[d]
      BY <2>a, <2>i
    <3>3. \A d \in Callers : caller'[d].at # "idle" /\ caller'[d].sub = streams'[i].sub => caller'[d] = caller[d]
      BY <2>a, <2>k, <3>1
    <3> QED BY SMT, <2>f, <2>r, <3>1, <3>2, <3>3 DEF ListedOK
  <2> QED BY <2>1, <2>2, <2>3, <2>4, <2>5, <2>6
\* UnsubscribeReactor cancels the stream.
<1>CancelSessions. ASSUME StreamsOK, SessionInv, NEW c \in Callers, IsSeq(streams), CancelStream(c)
                   PROVE  SessionInv'
  <2> USE <1>CancelSessions
  <2> USE DEF SessionInv
  <2> DEFINE s == caller[c].sub
  <2>m. Moves(c, Idle)
    <3>1. caller' = [caller EXCEPT ![c] = Idle]
      BY DEF CancelStream
    <3> QED BY <3>1, <1>AssignMoves
  <2>i. caller[c].at = "cancel" /\ Idle.at = "idle" /\ ~Opening(caller[c])
    BY DEF CancelStream, Idle, Opening
  <2>0. /\ s \in DOMAIN listed =>
             streams' = [streams EXCEPT ![listed[s]].active = FALSE] /\ listed' = Without(listed, {s})
        /\ s \notin DOMAIN listed => UNCHANGED <<streams, listed>>
    BY DEF CancelStream
  <2> HIDE DEF s
  <2>f. UNCHANGED <<registry, overlapped, lapsed>>
    BY DEF CancelStream, historyVars
  <2>d. s \in DOMAIN listed => listed[s] \in DOMAIN streams
    BY DEF IdsOK
  <2>n. /\ DOMAIN listed' = DOMAIN listed \ {s}
        /\ \A r \in DOMAIN listed \ {s} : listed'[r] = listed[r]
    <3>1. CASE s \in DOMAIN listed
      BY <2>0, <3>1 DEF Without
    <3>2. CASE s \notin DOMAIN listed
      BY <2>0, <3>2
    <3> QED BY <3>1, <3>2
  <2>h. StreamsKept /\ (s \in DOMAIN listed => ~streams'[listed[s]].active)
    <3>1. CASE s \in DOMAIN listed
      <4>1. streams' = [streams EXCEPT ![listed[s]].active = FALSE] /\ listed[s] \in DOMAIN streams
        BY <2>0, <2>d, <3>1
      <4> QED BY <4>1, CancelKept
    <3>2. CASE s \notin DOMAIN listed
      <4>1. streams' = streams
        BY <2>0, <3>2
      <4> QED BY <3>2, <4>1 DEF StreamsKept
    <3> QED BY <3>1, <3>2
  <2>u. s \in StreamSubs /\ caller[c].sub = s
    BY <2>i DEF IdsOK, s
  <2>s. StreamSubs' = StreamSubs
    BY <2>h, KeptStreamSubs
  <2>a. caller'[c] = Idle /\ DOMAIN caller' = Callers /\ \A d \in Callers : d # c => caller'[d] = caller[d]
    BY <2>m DEF Moves
  <2>c. \A d \in Callers : caller'[d].at # "idle" => d # c /\ caller'[d] = caller[d]
    BY <2>a, <2>i
  <2>1. CallersOK'
    BY SMT, <2>a, <2>i DEF CallersOK
  <2>2. CallerStreams'
    <3> SUFFICES ASSUME NEW d \in Callers, caller'[d].at \in Streaming
                 PROVE  /\ caller'[d].stream \in DOMAIN streams'
                        /\ streams'[caller'[d].stream].sub = caller'[d].sub
                        /\ streams'[caller'[d].stream].kind = IF Resuming(caller'[d]) THEN "resume" ELSE "subscribe"
                        /\ caller'[d].at # "construct" => streams'[caller'[d].stream].reactor
      BY DEF CallerStreams, Resuming
    <3>1. caller'[d] = caller[d]
      BY <2>c DEF Streaming
    <3> QED BY SMT, <3>1, <2>h DEF StreamsKept, CallerStreams
  <2>3. IdsOK'
    <3>1. \A r \in DOMAIN listed' : listed'[r] \in DOMAIN streams' /\ streams'[listed'[r]].sub = r
      BY SMT, <2>n, <2>h DEF IdsOK, StreamsKept
    <3>2. ASSUME NEW d \in Callers, Opening(caller'[d])
          PROVE  /\ caller'[d].sub \notin StreamSubs'
                 /\ \A e \in Callers : caller'[e].at # "idle" /\ caller'[e].sub = caller'[d].sub => e = d
      <4>1. caller'[d] = caller[d] /\ Opening(caller[d])
        BY <2>c, <3>2 DEF Opening
      <4> QED BY SMT, <4>1, <2>c, <2>s DEF IdsOK
    <3>3. \A d \in Callers : caller'[d].at # "idle" /\ ~Opening(caller'[d]) => caller'[d].sub \in StreamSubs'
      BY <2>c, <2>s DEF IdsOK
    <3>4. \A r \in DOMAIN registry'.local :
            r \in StreamSubs' \/ \E d \in Callers : Opening(caller'[d]) /\ caller'[d].sub = r
      <4>1. \A d \in Callers : Opening(caller[d]) => d # c
        BY <2>i
      <4> QED BY SMT, <2>a, <2>s, <2>f, <4>1 DEF IdsOK
    <3>5. \A r \in DOMAIN registry'.paused : r \in StreamSubs'
      BY <2>s, <2>f DEF IdsOK
    <3> QED BY <3>1, <3>2, <3>3, <3>4, <3>5 DEF IdsOK, Opening
  <2>4. OneAtATime'
    BY <2>c, <2>f DEF OneAtATime
  <2>5. Matched'
    <3> SUFFICES ASSUME NEW r \in Subs \ (overlapped' \cup lapsed')
                 PROVE  /\ ~Working(r)' => (r \in DOMAIN registry'.local <=> r \in DOMAIN listed')
                        /\ \A d \in Callers :
                             caller'[d].at # "idle" /\ caller'[d].sub = r =>
                               /\ Opening(caller'[d]) => r \in DOMAIN registry'.local
                               /\ caller'[d].at \in Streaming => r \in DOMAIN listed'
                               /\ caller'[d].at \in Streaming /\ ~Resuming(caller'[d]) => r \in DOMAIN registry'.local
                               /\ caller'[d].at = "recover" => r \in DOMAIN registry'.local
                               /\ caller'[d].at = "cancel" => r \notin DOMAIN registry'.local
      BY DEF Matched, Opening, Resuming
    <3>1. CASE r = s
      <4>1. r \notin DOMAIN registry.local /\ r \notin DOMAIN listed'
        BY <2>i, <2>u, <2>n, <2>f, <3>1 DEF Matched
      <4>2. \A d \in Callers : caller'[d].at # "idle" /\ caller'[d].sub = r => d = c
        BY <2>c, <2>u, <2>f, <2>i, <3>1 DEF OneAtATime
      <4> QED BY <4>1, <4>2, <2>c, <2>f
    <3>2. CASE r # s
      <4>1. Working(r)' <=> Working(r)
        BY <2>a, <2>i, <2>u, <3>2 DEF Working
      <4>2. r \in DOMAIN listed' <=> r \in DOMAIN listed
        BY <2>n, <3>2
      <4> QED BY <4>1, <4>2, <2>c, <2>f DEF Matched
    <3> QED BY <3>1, <3>2
  <2>6. ListedOK'
    <3> SUFFICES ASSUME NEW i \in DOMAIN streams', streams'[i].kind = "subscribe", streams'[i].active,
                        streams'[i].sub \notin overlapped'
                 PROVE  LET r == streams'[i].sub IN
                        /\ r \in DOMAIN listed' /\ listed'[r] = i
                        /\ r \in DOMAIN registry'.paused =>
                             \E d \in Callers : caller'[d].at = "cancel" /\ caller'[d].sub = r
                        /\ \A d \in Callers : caller'[d].at # "idle" /\ caller'[d].sub = r => ~Resuming(caller'[d])
      BY DEF ListedOK, Resuming
    <3>1. /\ i \in DOMAIN streams /\ streams[i].kind = "subscribe" /\ streams[i].active
          /\ streams'[i].sub = streams[i].sub
      BY <2>h DEF StreamsKept
    <3>2. streams[i].sub # s
      BY <2>h, <2>f, <3>1 DEF ListedOK
    <3> QED BY SMT, <2>a, <2>c, <2>i, <2>u, <2>f, <2>n, <3>1, <3>2 DEF ListedOK
  <2> QED BY <2>1, <2>2, <2>3, <2>4, <2>5, <2>6
\* activeStreams_[id] = stream.
<1>ListSessions. ASSUME StreamsOK, SessionInv, NEW c \in Callers, IsSeq(streams), ListStream(c)
                 PROVE  SessionInv'
  <2> USE <1>ListSessions
  <2> USE DEF SessionInv
  <2> DEFINE s == caller[c].sub
             op == caller[c]
             n == Len(streams) + 1
             k == [at |-> "construct", sub |-> s, op |-> op, stream |-> n]
  <2>k. /\ k.at = "construct" /\ k.sub = s /\ k.stream = n /\ k.op = op
        /\ ~Opening(k) /\ (Resuming(k) <=> op.kind = "resume") /\ k.at \in Streaming
        /\ DOMAIN k = {"at", "sub", "op", "stream"}
    BY DEF Opening, Resuming, Streaming
  <2>q. caller' = [caller EXCEPT ![c] = k]
    BY DEF ListStream, CallersOK
  <2>m. Moves(c, k)
    BY <2>q, <1>AssignMoves
  <2>i. /\ caller[c].at = "list" /\ caller[c].at \notin Streaming /\ op.kind \in {"subscribe", "resume"}
        /\ caller[c].sub = s /\ s \in Subs
        /\ (Opening(caller[c]) <=> op.kind = "subscribe") /\ (Resuming(caller[c]) <=> op.kind = "resume")
    BY DEF ListStream, Streaming, Resuming, Opening, CallersOK
  <2>t. listed' = With(listed, s, n) /\ streams' = Append(streams, NewStream(op))
    BY DEF ListStream
  <2>v. /\ NewStream(op).sub = s /\ NewStream(op).kind = op.kind
        /\ DOMAIN NewStream(op) = Fields /\ ~NewStream(op).open
    BY DEF NewStream, Fields
  <2> HIDE DEF k, s, n, op
  <2>f. UNCHANGED <<registry, overlapped, lapsed>>
    BY DEF ListStream, historyVars
  <2>n. /\ DOMAIN listed' = DOMAIN listed \cup {s} /\ listed'[s] = n
        /\ \A r \in DOMAIN listed \ {s} : listed'[r] = listed[r]
    BY <2>t DEF With
  <2>h. /\ DOMAIN streams' = DOMAIN streams \cup {n} /\ n \notin DOMAIN streams
        /\ \A i \in DOMAIN streams : streams'[i] = streams[i]
        /\ streams'[n] = NewStream(op)
    <3>1. /\ DOMAIN Append(streams, NewStream(op)) = DOMAIN streams \cup {Len(streams) + 1}
          /\ \A i \in DOMAIN streams : Append(streams, NewStream(op))[i] = streams[i]
          /\ Append(streams, NewStream(op))[Len(streams) + 1] = NewStream(op)
          /\ Len(streams) + 1 \notin DOMAIN streams
      BY AppendSeq
    <3> QED BY <3>1, <2>t DEF n
  <2>s. StreamSubs' = StreamSubs \cup {s}
    <3>1. \A x : x \in StreamSubs' => x \in StreamSubs \cup {s}
      BY <2>h, <2>v DEF StreamSubs
    <3>2. \A x : x \in StreamSubs => x \in StreamSubs'
      BY <2>h DEF StreamSubs
    <3>3. s \in StreamSubs'
      BY <2>h, <2>v DEF StreamSubs
    <3> QED BY <3>1, <3>2, <3>3
  <2>a. caller'[c] = k /\ DOMAIN caller' = Callers /\ \A d \in Callers : d # c => caller'[d] = caller[d]
    BY <2>m DEF Moves
  <2>c. \A d \in Callers : (caller'[d].at # "idle" <=> caller[d].at # "idle") /\ caller'[d].sub = caller[d].sub
    BY <2>a, <2>k, <2>i
  <2>w. s \notin overlapped \/ op.kind = "subscribe" =>
          \A d \in Callers : caller'[d].at # "idle" /\ caller'[d].sub = s => d = c
    BY SMT, <2>c, <2>i DEF OneAtATime, IdsOK
  <2>1. CallersOK'
    BY SMT, <2>a, <2>k, <2>i DEF CallersOK
  <2>2. CallerStreams'
    <3> SUFFICES ASSUME NEW d \in Callers, caller'[d].at \in Streaming
                 PROVE  /\ caller'[d].stream \in DOMAIN streams'
                        /\ streams'[caller'[d].stream].sub = caller'[d].sub
                        /\ streams'[caller'[d].stream].kind = IF Resuming(caller'[d]) THEN "resume" ELSE "subscribe"
                        /\ caller'[d].at # "construct" => streams'[caller'[d].stream].reactor
      BY DEF CallerStreams, Resuming
    <3>1. CASE d = c
      BY <2>a, <2>k, <2>i, <2>h, <2>v, <3>1
    <3>2. CASE d # c
      <4>1. caller'[d] = caller[d]
        BY <2>a, <3>2
      <4> QED BY SMT, <2>h, <4>1 DEF CallerStreams
    <3> QED BY <3>1, <3>2
  <2>3. IdsOK'
    <3>1. \A r \in DOMAIN listed' : listed'[r] \in DOMAIN streams' /\ streams'[listed'[r]].sub = r
      BY SMT, <2>n, <2>h, <2>v DEF IdsOK
    <3>2. ASSUME NEW d \in Callers, Opening(caller'[d])
          PROVE  /\ caller'[d].sub \notin StreamSubs'
                 /\ \A e \in Callers : caller'[e].at # "idle" /\ caller'[e].sub = caller'[d].sub => e = d
      <4>1. d # c
        BY <2>a, <2>k, <3>2
      <4>2. caller'[d] = caller[d] /\ Opening(caller[d])
        BY <2>a, <3>2, <4>1
      <4>3. /\ caller[d].sub \notin StreamSubs
            /\ \A e \in Callers : caller[e].at # "idle" /\ caller[e].sub = caller[d].sub => e = d
        BY <4>2 DEF IdsOK
      <4>4. caller[d].sub # s
        BY <4>1, <4>3, <2>i
      <4> QED BY <4>2, <4>3, <4>4, <2>c, <2>s
    <3>3. \A d \in Callers : caller'[d].at # "idle" /\ ~Opening(caller'[d]) => caller'[d].sub \in StreamSubs'
      BY SMT, <2>a, <2>k, <2>s DEF IdsOK
    <3>4. \A r \in DOMAIN registry'.local :
            r \in StreamSubs' \/ \E d \in Callers : Opening(caller'[d]) /\ caller'[d].sub = r
      <4> SUFFICES ASSUME NEW r \in DOMAIN registry'.local, r \notin StreamSubs'
                   PROVE  \E d \in Callers : Opening(caller'[d]) /\ caller'[d].sub = r
        OBVIOUS
      <4>1. r \in DOMAIN registry.local /\ r # s /\ r \notin StreamSubs
        BY <2>f, <2>s
      <4>2. PICK d \in Callers : Opening(caller[d]) /\ caller[d].sub = r
        BY <4>1 DEF IdsOK
      <4>3. d # c
        BY <4>1, <4>2, <2>i
      <4> QED BY <4>2, <4>3, <2>a
    <3>5. \A r \in DOMAIN registry'.paused : r \in StreamSubs'
      BY <2>s, <2>f DEF IdsOK
    <3> QED BY <3>1, <3>2, <3>3, <3>4, <3>5 DEF IdsOK, Opening
  <2>4. OneAtATime'
    BY <2>c, <2>f DEF OneAtATime
  <2>5. Matched'
    <3> SUFFICES ASSUME NEW r \in Subs \ (overlapped' \cup lapsed')
                 PROVE  /\ ~Working(r)' => (r \in DOMAIN registry'.local <=> r \in DOMAIN listed')
                        /\ \A d \in Callers :
                             caller'[d].at # "idle" /\ caller'[d].sub = r =>
                               /\ Opening(caller'[d]) => r \in DOMAIN registry'.local
                               /\ caller'[d].at \in Streaming => r \in DOMAIN listed'
                               /\ caller'[d].at \in Streaming /\ ~Resuming(caller'[d]) => r \in DOMAIN registry'.local
                               /\ caller'[d].at = "recover" => r \in DOMAIN registry'.local
                               /\ caller'[d].at = "cancel" => r \notin DOMAIN registry'.local
      BY DEF Matched, Opening, Resuming
    <3>1. CASE r = s
      <4>1. Working(r)'
        BY <2>a, <2>k, <3>1 DEF Working
      <4>2. op.kind = "subscribe" => r \in DOMAIN registry.local
        BY <2>i, <2>f, <3>1 DEF Matched
      <4>3. \A d \in Callers : caller'[d].at # "idle" /\ caller'[d].sub = r => d = c
        BY <2>w, <2>f, <3>1
      <4> QED BY <4>1, <4>2, <4>3, <2>a, <2>k, <2>i, <2>n, <2>f, <3>1
    <3>2. CASE r # s
      <4>1. Working(r)' <=> Working(r)
        BY <2>c DEF Working
      <4>2. \A d \in Callers : caller'[d].at # "idle" /\ caller'[d].sub = r => caller'[d] = caller[d]
        BY <2>a, <2>k, <3>2
      <4>3. r \in DOMAIN listed' <=> r \in DOMAIN listed
        BY <2>n, <3>2
      <4> QED BY <4>1, <4>2, <4>3, <2>f, <3>2 DEF Matched
    <3> QED BY <3>1, <3>2
  <2>6. ListedOK'
    <3> SUFFICES ASSUME NEW i \in DOMAIN streams', streams'[i].kind = "subscribe", streams'[i].active,
                        streams'[i].sub \notin overlapped'
                 PROVE  LET r == streams'[i].sub IN
                        /\ r \in DOMAIN listed' /\ listed'[r] = i
                        /\ r \in DOMAIN registry'.paused =>
                             \E d \in Callers : caller'[d].at = "cancel" /\ caller'[d].sub = r
                        /\ \A d \in Callers : caller'[d].at # "idle" /\ caller'[d].sub = r => ~Resuming(caller'[d])
      BY DEF ListedOK, Resuming
    <3>1. CASE i = n
      <4>1. streams'[i].sub = s /\ op.kind = "subscribe"
        BY <2>h, <2>v, <3>1
      <4>2. s \notin StreamSubs
        BY <4>1, <2>i DEF IdsOK
      <4>3. s \notin DOMAIN registry'.paused
        BY <4>2, <2>f DEF IdsOK
      <4>4. \A d \in Callers : caller'[d].at # "idle" /\ caller'[d].sub = s => ~Resuming(caller'[d])
        BY <2>w, <4>1, <2>a, <2>k
      <4> QED BY <4>1, <4>3, <4>4, <2>n, <3>1
    <3>2. CASE i # n
      <4>1. i \in DOMAIN streams /\ streams'[i] = streams[i]
        BY <2>h, <3>2
      <4>2. streams[i].sub # s
        <5>1. CASE op.kind = "subscribe"
          BY <5>1, <2>i, <4>1 DEF IdsOK, StreamSubs
        <5>2. CASE op.kind = "resume"
          BY SMT, <5>2, <2>i, <2>f, <4>1 DEF ListedOK
        <5> QED BY <5>1, <5>2, <2>i
      <4>3. \A d \in Callers : caller'[d].at # "idle" /\ caller'[d].sub = streams[i].sub => caller'[d] = caller[d]
        BY <2>a, <2>k, <4>2
      <4>4. \A d \in Callers : caller[d].at = "cancel" => caller'[d] = caller[d]
        BY <2>a, <2>i
      <4> QED BY SMT, <4>1, <4>2, <4>3, <4>4, <2>f, <2>n DEF ListedOK
    <3> QED BY <3>1, <3>2
  <2> QED BY <2>1, <2>2, <2>3, <2>4, <2>5, <2>6
\* The constructors store their reactor in the stream.
<1>ReactorStep. ASSUME BaseInv, NEW c \in Callers, SetReactor(c)
                PROVE  BaseInv'
  <2> USE <1>ReactorStep
  <2> USE DEF BaseInv
  <2> DEFINE i == caller[c].stream
             k == [caller[c] EXCEPT !.at = caller[c].op.kind]
  <2>0. CallersOK /\ CallerStreams
    BY DEF SessionInv
  <2>1. Updated(i, {"reactor", "from"}) /\ streams'[i].reactor
    BY <2>0, ReactorUpdate
  <2>2. /\ caller[c].at = "construct" /\ DOMAIN caller[c] = {"at", "sub", "op", "stream"}
        /\ caller[c].op.kind \in {"subscribe", "resume"} /\ caller[c].sub \in Subs
    BY <2>0 DEF SetReactor, CallersOK
  <2>3. caller' = [caller EXCEPT ![c] = k]
    BY <2>0 DEF SetReactor, CallersOK
  <2>4. /\ k.at = caller[c].op.kind /\ k.sub = caller[c].sub /\ k.op = caller[c].op /\ k.stream = i
        /\ DOMAIN k = {"at", "sub", "op", "stream"}
    BY <2>2
  <2>5. UNCHANGED <<registry, listed, overlapped, lapsed>>
    BY DEF SetReactor, historyVars
  <2>6. i \in DOMAIN streams /\ DOMAIN streams[i] = Fields
    BY <2>1 DEF Updated, StreamsOK
  <2> HIDE DEF i, k
  <2>7. Moves(c, k)
    BY <2>0, <2>3, <1>AssignMoves
  <2>8. IsSeq(streams') /\ StreamsOK'
    BY <2>1, UpdatedStreamsOK
  <2>9. StreamsKept
    <3>1. {"sub", "kind", "topics", "active"} \subseteq DOMAIN streams[i] \ {"reactor", "from"}
      BY <2>6 DEF Fields
    <3>2. /\ streams'[i].sub = streams[i].sub /\ streams'[i].kind = streams[i].kind
          /\ streams'[i].topics = streams[i].topics /\ streams'[i].active = streams[i].active
      BY <2>1, <3>1 DEF Updated
    <3> QED BY <2>1, <3>2 DEF Updated, StreamsKept
  <2>10. CallersOK'
    <3>1. k.at \in {"subscribe", "resume"}
      BY <2>2, <2>4
    <3> QED BY SMT, <2>0, <2>2, <2>4, <2>7, <3>1 DEF CallersOK, Moves, Streaming
  <2>11. /\ caller[c].at \in Streaming /\ k.at \in Streaming \ {"construct"}
         /\ Resuming(k) <=> Resuming(caller[c])
         /\ k.at # "recover"
    BY <2>2, <2>4 DEF Streaming, Resuming
  <2>12. CallerStreams' /\ IdsOK' /\ OneAtATime' /\ Matched' /\ ListedOK'
    <3>1. KeysKept
      BY <2>5 DEF KeysKept
    <3>2. k.sub = caller[c].sub /\ k.stream = caller[c].stream /\ streams'[k.stream].reactor
      BY <2>1, <2>4 DEF i
    <3> QED BY <2>5, <2>7, <2>9, <2>11, <3>1, <3>2, <1>RoleKept
  <2> QED BY <2>5, <2>8, <2>10, <2>12 DEF SessionInv
\* SubscribeReactor opens its stream with the retained messages.
<1>OpensStep. ASSUME BaseInv, NEW c \in Callers, SubscribeOpens(c)
              PROVE  BaseInv'
  <2> USE <1>OpensStep
  <2> USE DEF BaseInv
  <2> DEFINE i == caller[c].stream
  <2>0. CallersOK /\ CallerStreams
    BY DEF SessionInv
  <2>1. Updated(i, {"open", "queue"})
    BY <2>0, OpensUpdate
  <2>2. caller[c].at = "subscribe" /\ caller' = [caller EXCEPT ![c] = Idle]
    BY DEF SubscribeOpens
  <2>3. streams[i].reactor /\ ~Resuming(caller[c])
    BY <2>0, <2>2 DEF CallerStreams, Streaming, Resuming
  <2>5. UNCHANGED <<registry, listed, overlapped, lapsed>>
    BY DEF SubscribeOpens, historyVars
  <2> HIDE DEF i
  <2>6. StreamsKept /\ streams'[i].reactor
    BY <2>1, <2>3, UpdatedKept
  <2>7. IsSeq(streams') /\ StreamsOK'
    BY <2>1, <2>6, UpdatedStreamsOK
  <2>8. Moves(c, Idle) /\ KeysKept
    BY <2>0, <2>2, <2>5, <1>AssignMoves DEF KeysKept
  <2>9. SessionInv'
    BY <2>2, <2>3, <2>5, <2>6, <2>8, <1>RoleEnds
  <2> QED BY <2>5, <2>7, <2>9
\* ResumeSubscribeReactor asks the replay buffer for one topic.
<1>RecoverStep. ASSUME BaseInv, NEW c \in Callers, RecoverTopic(c)
                PROVE  BaseInv'
  <2> USE <1>RecoverStep
  <2> USE DEF BaseInv
  <2> DEFINE i == caller[c].stream
  <2>0. CallersOK /\ CallerStreams
    BY DEF SessionInv
  <2>1. Updated(i, {"replay", "after", "missed", "upto", "saved"})
    BY <2>0, RecoverUpdate
  <2>2. caller[c].at = "recover"
    BY DEF RecoverTopic
  <2>3. PICK t \in caller[c].todo : caller' = [caller EXCEPT ![c].todo = @ \ {t}]
    BY DEF RecoverTopic
  <2> DEFINE k == [caller[c] EXCEPT !.todo = @ \ {t}]
  <2>4. caller' = [caller EXCEPT ![c] = k]
    BY <2>0, <2>3 DEF CallersOK
  <2>5. UNCHANGED <<registry, listed, overlapped, lapsed>>
    BY DEF RecoverTopic, historyVars
  <2>6. /\ DOMAIN caller[c] = {"at", "sub", "stream", "mode", "todo", "number", "saved"}
        /\ caller[c].sub \in Subs
    BY <2>0, <2>2 DEF CallersOK
  <2>7. /\ k.at = "recover" /\ k.sub = caller[c].sub /\ k.stream = i /\ DOMAIN k = DOMAIN caller[c]
    BY <2>2, <2>6
  <2>8. streams[i].reactor
    BY <2>0, <2>2 DEF CallerStreams, Streaming
  <2> HIDE DEF i, k
  <2>9. StreamsKept /\ streams'[i].reactor
    BY <2>1, <2>8, UpdatedKept
  <2>10. IsSeq(streams') /\ StreamsOK'
    BY <2>1, <2>9, UpdatedStreamsOK
  <2>11. Moves(c, k) /\ KeysKept
    BY <2>0, <2>4, <2>5, <1>AssignMoves DEF KeysKept
  <2>12. CallersOK'
    BY SMT, <2>0, <2>2, <2>6, <2>7, <2>11 DEF CallersOK, Moves, Streaming
  <2>13. CallerStreams' /\ IdsOK' /\ OneAtATime' /\ Matched' /\ ListedOK'
    <3>1. /\ caller[c].at \in Streaming /\ k.at \in Streaming \ {"construct"}
          /\ Resuming(k) <=> Resuming(caller[c])
      BY <2>2, <2>7 DEF Streaming, Resuming
    <3>2. k.sub = caller[c].sub /\ k.stream = caller[c].stream /\ streams'[k.stream].reactor
      BY <2>7, <2>9 DEF i
    <3> QED BY <2>2, <2>5, <2>9, <2>11, <3>1, <3>2, <1>RoleKept
  <2> QED BY <2>5, <2>10, <2>12, <2>13 DEF SessionInv
\* ResumeSubscribeReactor opens its stream.
<1>ResumeOpensStep. ASSUME BaseInv, NEW c \in Callers, ResumeOpens(c)
                    PROVE  BaseInv'
  <2> USE <1>ResumeOpensStep
  <2> USE DEF BaseInv
  <2> DEFINE i == caller[c].stream
  <2>0. CallersOK /\ CallerStreams
    BY DEF SessionInv
  <2>1. Updated(i, {"open"})
    BY <2>0, ResumeOpensUpdate
  <2>2. caller[c].at = "recover" /\ caller' = [caller EXCEPT ![c] = Idle]
    BY DEF ResumeOpens
  <2>3. streams[i].reactor
    BY <2>0, <2>2 DEF CallerStreams, Streaming
  <2>5. UNCHANGED <<registry, listed, overlapped, lapsed>>
    BY DEF ResumeOpens, historyVars
  <2> HIDE DEF i
  <2>6. StreamsKept /\ streams'[i].reactor
    BY <2>1, <2>3, UpdatedKept
  <2>7. IsSeq(streams') /\ StreamsOK'
    BY <2>1, <2>6, UpdatedStreamsOK
  <2>8. Moves(c, Idle) /\ KeysKept
    BY <2>0, <2>2, <2>5, <1>AssignMoves DEF KeysKept
  <2>9. SessionInv'
    BY <2>2, <2>5, <2>6, <2>8, <1>RoleEnds
  <2> QED BY <2>5, <2>7, <2>9
\* A new stream in activeStreams_.
<1>ListStep. ASSUME BaseInv, NEW c \in Callers, ListStream(c)
             PROVE  BaseInv'
  <2> USE <1>ListStep
  <2> USE DEF BaseInv
  <2>1. SessionInv'
    BY <1>ListSessions
  <2> DEFINE op == caller[c]
             n == Len(streams) + 1
  <2>2. streams' = Append(streams, NewStream(op))
    BY DEF ListStream
  <2>3. op.kind \in {"subscribe", "resume"} /\ op.sub \in Subs
    BY DEF ListStream, SessionInv, CallersOK
  <2>4. /\ NewStream(op).sub = op.sub /\ NewStream(op).kind = op.kind
        /\ DOMAIN NewStream(op) = Fields /\ NewStream(op).open = FALSE
    BY DEF NewStream, Fields
  <2> HIDE DEF op
  <2>5. /\ IsSeq(Append(streams, NewStream(op)))
        /\ DOMAIN Append(streams, NewStream(op)) = DOMAIN streams \cup {n}
        /\ \A i \in DOMAIN streams : Append(streams, NewStream(op))[i] = streams[i]
        /\ Append(streams, NewStream(op))[n] = NewStream(op)
    BY AppendSeq
  <2> HIDE DEF n
  <2>6. StreamsOK'
    <3> SUFFICES ASSUME NEW i \in DOMAIN streams'
                 PROVE  /\ DOMAIN streams'[i] = Fields /\ streams'[i].sub \in Subs
                        /\ streams'[i].kind \in {"subscribe", "resume"}
                        /\ streams'[i].open => streams'[i].reactor
      BY DEF StreamsOK
    <3>1. CASE i = n
      BY <2>2, <2>3, <2>4, <2>5, <3>1
    <3>2. CASE i # n
      BY <2>2, <2>5, <3>2 DEF StreamsOK
    <3> QED BY <3>1, <3>2
  <2> QED BY <2>1, <2>2, <2>5, <2>6
\* UnsubscribeReactor cancels the stream.
<1>CancelStep. ASSUME BaseInv, NEW c \in Callers, CancelStream(c)
               PROVE  BaseInv'
  <2> USE <1>CancelStep
  <2> USE DEF BaseInv
  <2>1. SessionInv'
    BY <1>CancelSessions
  <2> DEFINE s == caller[c].sub
  <2>2. /\ s \in DOMAIN listed => streams' = [streams EXCEPT ![listed[s]].active = FALSE]
        /\ s \notin DOMAIN listed => UNCHANGED streams
    BY DEF CancelStream
  <2> HIDE DEF s
  <2>3. CASE s \in DOMAIN listed
    <3>1. streams' = [streams EXCEPT ![listed[s]].active = FALSE] /\ listed[s] \in DOMAIN streams
      BY <2>2, <2>3 DEF SessionInv, IdsOK
    <3>2. Updated(listed[s], {"active"})
      BY <3>1, DeactivateUpdate
    <3>3. streams'[listed[s]].open => streams'[listed[s]].reactor
      <4>1. "open" \in DOMAIN streams[listed[s]] \ {"active"} /\ "reactor" \in DOMAIN streams[listed[s]] \ {"active"}
        BY <3>1 DEF StreamsOK, Fields
      <4> QED BY <3>1, <3>2, <4>1 DEF Updated, StreamsOK
    <3>4. IsSeq(streams') /\ StreamsOK'
      BY <3>2, <3>3, UpdatedStreamsOK
    <3> QED BY <2>1, <3>4
  <2>4. CASE s \notin DOMAIN listed
    <3>1. streams' = streams
      BY <2>2, <2>4
    <3>2. IsSeq(streams') /\ StreamsOK'
      BY <3>1 DEF StreamsOK
    <3> QED BY <2>1, <3>2
  <2> QED BY <2>3, <2>4
<1> SUFFICES ASSUME NEW c \in Callers, BaseInv, RegistryKeys, CallerStep(c)
             PROVE  BaseInv'
  OBVIOUS
<1>0. IsSeq(streams) /\ StreamsOK /\ SessionInv
  BY DEF BaseInv
<1>1. ASSUME streams' = streams, SessionInv' PROVE BaseInv'
  BY <1>0, <1>1 DEF BaseInv, StreamsOK
<1>2. CASE Subscribe(c)
  <2>1. streams' = streams
    BY <1>2 DEF Subscribe
  <2> QED BY <1>0, <1>1, <1>2, <2>1, <1>SubscribeSessions
<1>3. CASE Unsubscribe(c)
  <2>1. streams' = streams
    BY <1>3 DEF Unsubscribe
  <2> QED BY <1>0, <1>1, <1>3, <2>1, <1>UnsubscribeSessions
<1>4. CASE Resume(c)
  <2>1. streams' = streams
    BY <1>4 DEF Resume, sessionVars
  <2> QED BY <1>0, <1>1, <1>4, <2>1, <1>ResumeSessions
<1>5. CASE ResumeInRegistry(c)
  <2>1. streams' = streams
    BY <1>5 DEF ResumeInRegistry
  <2> QED BY <1>0, <1>1, <1>5, <2>1, <1>TakenSessions
<1>6. CASE ListStream(c)
  BY <1>6, <1>ListStep
<1>7. CASE SetReactor(c)
  BY <1>7, <1>ReactorStep
<1>8. CASE SubscribeOpens(c)
  BY <1>8, <1>OpensStep
<1>9. CASE CancelStream(c)
  BY <1>9, <1>CancelStep
<1>10. CASE RecoverTopic(c)
  BY <1>10, <1>RecoverStep
<1>11. CASE ResumeOpens(c)
  BY <1>11, <1>ResumeOpensStep
<1> QED BY <1>2, <1>3, <1>4, <1>5, <1>6, <1>7, <1>8, <1>9, <1>10, <1>11 DEF CallerStep

-----------------------------------------------------------------------------
(* Steps of publishers *)

\* Steps that leave the sessions alone.
LEMMA QuietStep ==
  ASSUME BaseInv, UNCHANGED <<registry, streams, caller, listed, overlapped, lapsed>>
  PROVE  BaseInv'
<1>1. StreamsKept /\ KeysKept
  BY DEF StreamsKept, KeysKept
<1>2. SessionInv'
  BY <1>1, SessionKept DEF BaseInv
<1>3. StreamsOK'
  BY DEF BaseInv, StreamsOK
<1> QED BY <1>2, <1>3 DEF BaseInv

\* A stream changes in its queue, its replay or its end.
LEMMA StreamStep ==
  ASSUME BaseInv, UNCHANGED <<registry, caller, listed, overlapped, lapsed>>,
         NEW i, NEW f \in {"queue", "replay"}, Updated(i, {f})
  PROVE  BaseInv'
<1>1. StreamsKept /\ streams'[i].reactor = streams[i].reactor
  BY UpdatedKept DEF BaseInv
<1>2. KeysKept
  BY DEF KeysKept
<1>3. SessionInv'
  BY <1>1, <1>2, SessionKept DEF BaseInv
<1>4. streams'[i].open => streams'[i].reactor
  <2>1. "open" \in DOMAIN streams[i] \ {f} /\ i \in DOMAIN streams
    BY DEF BaseInv, StreamsOK, Fields, Updated
  <2>2. streams'[i].open = streams[i].open
    BY <2>1 DEF Updated
  <2> QED BY <1>1, <2>1, <2>2 DEF BaseInv, StreamsOK
<1>5. IsSeq(streams') /\ StreamsOK'
  BY <1>4, UpdatedStreamsOK DEF BaseInv
<1> QED BY <1>3, <1>5 DEF BaseInv

\* The registry changes in no key.
LEMMA RegistryStep ==
  ASSUME BaseInv, UNCHANGED <<streams, caller, listed, overlapped, lapsed>>,
         KeysKept
  PROVE  BaseInv'
<1>1. StreamsKept
  BY DEF StreamsKept
<1>2. SessionInv'
  BY <1>1, SessionKept DEF BaseInv
<1>3. StreamsOK'
  BY DEF BaseInv, StreamsOK
<1> QED BY <1>1, <1>2, <1>3 DEF BaseInv

\* The steps of PublishReactor and deliverFromRemote().
LEMMA PublisherStepBase ==
  \A p \in Publishers : BaseInv /\ RegistryKeys /\ PublishersOK /\ PublisherStep(p) => BaseInv' /\ PublishersOK'
\* One publisher moves on, to a place that fits.
<1>TurnsFit. ASSUME PublishersOK, NEW p \in Publishers, NEW k, Turns(p, k), PublisherFits(k, DOMAIN streams),
                    DOMAIN streams' = DOMAIN streams, \A t \in DOMAIN buffers' : buffers'[t].next \in Nat
             PROVE  PublishersOK'
  <2> USE <1>TurnsFit
  <2>1. \A q \in Publishers : PublisherFits(publisher'[q], DOMAIN streams')
    BY DEF PublishersOK, Turns
  <2>2. DOMAIN publisher' = Publishers
    BY DEF Turns
  <2> QED BY <2>1, <2>2 DEF PublishersOK, PublisherFits
\* The loop over the matching streams, or its end.
<1>DeliveringFits. ASSUME NEW op, NEW S, NEW todo, todo \subseteq S, op.seq \in Nat
                   PROVE  PublisherFits(Delivering(op, todo), S)
  <2> USE <1>DeliveringFits
  <2>1. CASE todo = {}
    <3>1. Delivering(op, todo) = Idle
      BY <2>1 DEF Delivering
    <3> QED BY SMT, <3>1 DEF PublisherFits, Idle
  <2>2. CASE todo # {}
    <3>1. Delivering(op, todo) =
            [at |-> "deliver", topic |-> op.topic, id |-> op.id, seq |-> op.seq, todo |-> todo]
      BY <2>2 DEF Delivering
    <3> QED BY SMT, <3>1 DEF PublisherFits
  <2> QED BY <2>1, <2>2
<1> SUFFICES ASSUME NEW p \in Publishers, BaseInv, RegistryKeys, PublishersOK, PublisherStep(p)
             PROVE  BaseInv' /\ PublishersOK'
  OBVIOUS
<1> DEFINE op == publisher[p]
<1>0. /\ PublisherFits(op, DOMAIN streams) /\ DOMAIN publisher = Publishers
      /\ \A t \in DOMAIN buffers : buffers[t].next \in Nat
  BY DEF PublishersOK
<1>a. ASSUME NEW k, publisher' = [publisher EXCEPT ![p] = k], PublisherFits(k, DOMAIN streams),
             UNCHANGED buffers, DOMAIN streams' = DOMAIN streams
      PROVE  PublishersOK'
  <2>1. Turns(p, k)
    BY <1>a, AssignTurns
  <2> QED BY <1>0, <1>a, <2>1, <1>TurnsFit
<1>1. CASE Publish(p)
  <2>1. UNCHANGED <<registry, streams, caller, listed, overlapped, lapsed, buffers>>
    BY <1>1 DEF Publish, historyVars
  <2>2. PICK t \in Topics : publisher' = [publisher EXCEPT ![p] = [at |-> "buffer", topic |-> t, id |-> Published + 1]]
    BY <1>1 DEF Publish
  <2>3. PublisherFits([at |-> "buffer", topic |-> t, id |-> Published + 1], DOMAIN streams)
    BY DEF PublisherFits
  <2> QED BY <1>a, <2>1, <2>2, <2>3, QuietStep
<1>2. CASE BufferMessage(p)
  <2> DEFINE t == op.topic
             b == IF t \in DOMAIN buffers THEN buffers[t] ELSE Buffer!NewBuffer
             k == [at |-> "choose", topic |-> t, id |-> op.id, seq |-> b.next]
  <2>1. UNCHANGED <<registry, streams, caller, listed, overlapped, lapsed>>
    BY <1>2 DEF BufferMessage, historyVars, sessionVars
  <2>2. op.at = "buffer" /\ t \in Topics
    BY <1>0, <1>2 DEF BufferMessage, PublisherFits
  <2>3. b.next \in Nat
    <3>1. CASE t \in DOMAIN buffers
      BY <1>0, <3>1
    <3>2. CASE t \notin DOMAIN buffers
      <4>1. b = [next |-> 1, messages |-> <<>>, bytes |-> 0]
        BY <3>2 DEF Buffer!NewBuffer
      <4> QED BY SMT, <4>1
    <3> QED BY <3>1, <3>2
  <2>4. publisher' = [publisher EXCEPT ![p] = k]
    BY <1>0, <1>2 DEF BufferMessage
  <2>5. buffers' = With(buffers, t, Buffer!Pushed(b, 0, op.id))
    BY <1>2 DEF BufferMessage
  <2>6. PublisherFits(k, DOMAIN streams)
    BY <2>2, <2>3 DEF PublisherFits
  <2> HIDE DEF t, b, k
  <2>7. Buffer!Pushed(b, 0, op.id).next \in Nat
    BY SMT, <2>3 DEF Buffer!Pushed
  <2>8. \A u \in DOMAIN buffers' : buffers'[u].next \in Nat
    BY <1>0, <2>5, <2>7 DEF With
  <2>9. Turns(p, k)
    BY <2>4, AssignTurns
  <2>10. PublishersOK'
    BY <2>1, <2>6, <2>8, <2>9, <1>TurnsFit
  <2> QED BY <2>1, <2>10, QuietStep
<1>3. CASE ChooseStreams(p)
  <2>1. UNCHANGED <<registry, streams, caller, listed, overlapped, lapsed, buffers>>
    BY <1>3 DEF ChooseStreams, historyVars, sessionVars
  <2>2. publisher' = [publisher EXCEPT ![p] = Delivering(op, Matching(op.topic))]
    BY <1>0, <1>3 DEF ChooseStreams
  <2>3. op.seq \in Nat
    BY <1>0, <1>3 DEF ChooseStreams, PublisherFits
  <2>4. Matching(op.topic) \subseteq DOMAIN streams
    BY SMT DEF Matching, BaseInv, SessionInv, IdsOK
  <2>5. PublisherFits(Delivering(op, Matching(op.topic)), DOMAIN streams)
    BY <2>3, <2>4, <1>DeliveringFits
  <2> QED BY <1>a, <2>1, <2>2, <2>5, QuietStep
<1>4. CASE SkipStream(p)
  <2>1. UNCHANGED <<registry, streams, caller, listed, overlapped, lapsed, buffers>>
    BY <1>4 DEF SkipStream, historyVars, sessionVars
  <2>2. PICK i \in op.todo : publisher' = [publisher EXCEPT ![p] = Delivering(op, op.todo \ {i})]
    BY <1>0, <1>4 DEF SkipStream
  <2>3. op.seq \in Nat /\ op.todo \ {i} \subseteq DOMAIN streams
    BY <1>0, <1>4 DEF SkipStream, PublisherFits
  <2>4. PublisherFits(Delivering(op, op.todo \ {i}), DOMAIN streams)
    BY <2>3, <1>DeliveringFits
  <2> QED BY <1>a, <2>1, <2>2, <2>4, QuietStep
<1>5. CASE EnqueueOnStream(p)
  <2>1. UNCHANGED <<registry, caller, listed, overlapped, lapsed, buffers>>
    BY <1>5 DEF EnqueueOnStream
  <2>2. PICK i \in op.todo :
          /\ streams' = [streams EXCEPT ![i].queue = Append(@, [id |-> op.id, seq |-> op.seq])]
          /\ publisher' = [publisher EXCEPT ![p] =
               [at |-> "sequence", topic |-> op.topic, id |-> op.id, seq |-> op.seq,
                todo |-> op.todo \ {i}, sub |-> streams[i].sub]]
    BY <1>5 DEF EnqueueOnStream
  <2> DEFINE k == [at |-> "sequence", topic |-> op.topic, id |-> op.id, seq |-> op.seq,
                   todo |-> op.todo \ {i}, sub |-> streams[i].sub]
             v == Append(streams[i].queue, [id |-> op.id, seq |-> op.seq])
  <2>3. op.seq \in Nat /\ op.todo \subseteq DOMAIN streams
    BY <1>0, <1>5 DEF EnqueueOnStream, PublisherFits
  <2>4. i \in DOMAIN streams /\ streams[i].sub \in Subs /\ DOMAIN streams[i] = Fields
    BY <2>3 DEF BaseInv, StreamsOK
  <2>5. PublisherFits(k, DOMAIN streams)
    BY <2>3, <2>4 DEF PublisherFits
  <2>6. streams' = [streams EXCEPT ![i].queue = v]
    BY <2>2
  <2> HIDE DEF k, v
  <2>7. Updated(i, {"queue"})
    BY <2>4, <2>6, QueueUpdate DEF BaseInv
  <2>8. DOMAIN streams' = DOMAIN streams
    BY <2>7 DEF Updated
  <2>9. PublishersOK'
    BY <1>a, <2>1, <2>2, <2>5, <2>8 DEF k
  <2> QED BY <2>1, <2>7, <2>9, StreamStep
<1>6. CASE EnqueueMiscast(p)
  <2>1. UNCHANGED <<registry, streams, caller, listed, overlapped, lapsed, buffers>>
    BY <1>6 DEF EnqueueMiscast, historyVars, sessionVars
  <2>2. PICK i \in op.todo :
          \/ publisher' = [publisher EXCEPT ![p] = [at |-> "hung", id |-> op.id]]
          \/ publisher' = [publisher EXCEPT ![p] = Delivering(op, op.todo \ {i})]
    BY <1>0, <1>6 DEF EnqueueMiscast
  <2>3. op.seq \in Nat /\ op.todo \ {i} \subseteq DOMAIN streams
    BY <1>0, <1>6 DEF EnqueueMiscast, PublisherFits
  <2>4. PublisherFits(Delivering(op, op.todo \ {i}), DOMAIN streams)
    BY <2>3, <1>DeliveringFits
  <2>5. PublisherFits([at |-> "hung", id |-> op.id], DOMAIN streams)
    BY DEF PublisherFits
  <2> QED BY <1>a, <2>1, <2>2, <2>4, <2>5, QuietStep
<1>7. CASE RecordSequence(p)
  <2>1. UNCHANGED <<streams, caller, listed, overlapped, lapsed, buffers>>
    BY <1>7 DEF RecordSequence, historyVars
  <2>2. publisher' = [publisher EXCEPT ![p] = Delivering(op, op.todo)]
    BY <1>0, <1>7 DEF RecordSequence
  <2>3. op.seq \in Nat /\ op.todo \subseteq DOMAIN streams
    BY <1>0, <1>7 DEF RecordSequence, PublisherFits
  <2>4. PublisherFits(Delivering(op, op.todo), DOMAIN streams)
    BY <2>3, <1>DeliveringFits
  <2>5. registry' = UpdateSubscriptionSequence(registry, op.sub, op.seq)
    BY <1>7 DEF RecordSequence
  <2>6. KeysKept
    BY <2>5 DEF RegistryKeys, SequenceKeysOK, KeysKept
  <2> QED BY <1>a, <2>1, <2>2, <2>4, <2>6, RegistryStep
<1> QED BY <1>1, <1>2, <1>3, <1>4, <1>5, <1>6, <1>7 DEF PublisherStep

-----------------------------------------------------------------------------
(* The other steps *)

\* Every step keeps the invariant of the sessions.
LEMMA NextBase ==
  BaseInv /\ RegistryKeys /\ PublishersOK /\ [Next]_vars => BaseInv' /\ PublishersOK'
\* Streams are never removed.
<1>FitsMore. ASSUME NEW k, NEW S, NEW T, S \subseteq T, PublisherFits(k, S)
             PROVE  PublisherFits(k, T)
  BY <1>FitsMore DEF PublisherFits
\* No publisher moves.
<1>KeptFit. ASSUME PublishersOK, UNCHANGED <<publisher, buffers>>, DOMAIN streams \subseteq DOMAIN streams'
            PROVE  PublishersOK'
  <2> USE <1>KeptFit
  <2>1. ASSUME NEW q \in Publishers PROVE PublisherFits(publisher'[q], DOMAIN streams')
    <3>1. publisher'[q] = publisher[q] /\ PublisherFits(publisher[q], DOMAIN streams)
      BY DEF PublishersOK
    <3> QED BY <3>1, <1>FitsMore
  <2>2. DOMAIN publisher' = Publishers /\ \A t \in DOMAIN buffers' : buffers'[t].next \in Nat
    BY DEF PublishersOK
  <2> QED BY <2>1, <2>2 DEF PublishersOK, PublisherFits
\* A stream ends.
<1>EndStep. ASSUME BaseInv, UNCHANGED <<registry, caller, listed, overlapped, lapsed>>,
                   NEW i \in DOMAIN streams, streams' = [streams EXCEPT ![i].active = FALSE]
            PROVE  BaseInv'
  <2> USE <1>EndStep
  <2>1. StreamsKept
    BY CancelKept DEF BaseInv
  <2>2. KeysKept
    BY DEF KeysKept
  <2>3. SessionInv'
    BY <2>1, <2>2, SessionKept DEF BaseInv
  <2>4. Updated(i, {"active"})
    BY DeactivateUpdate DEF BaseInv
  <2>5. streams'[i].open => streams'[i].reactor
    <3>1. {"open", "reactor"} \subseteq DOMAIN streams[i] \ {"active"}
      BY DEF BaseInv, StreamsOK, Fields
    <3>2. streams'[i].open = streams[i].open /\ streams'[i].reactor = streams[i].reactor
      BY <2>4, <3>1 DEF Updated
    <3> QED BY <3>2 DEF BaseInv, StreamsOK
  <2>6. IsSeq(streams') /\ StreamsOK'
    BY <2>4, <2>5, UpdatedStreamsOK DEF BaseInv
  <2> QED BY <2>3, <2>6 DEF BaseInv
\* A write takes from one of the two queues of one stream.
<1>WriteStreams. ASSUME IsSeq(streams), StreamsOK, Write
                 PROVE  \E i \in DOMAIN streams, f \in {"queue", "replay"} : Updated(i, {f})
  <2> USE <1>WriteStreams
  <2>1. PICK i \in DOMAIN streams :
          streams' = IF streams[i].replay # <<>>
                     THEN [streams EXCEPT ![i].replay = Tail(@)]
                     ELSE [streams EXCEPT ![i].queue = Tail(@)]
    BY DEF Write
  <2> DEFINE u == Tail(streams[i].replay)
             v == Tail(streams[i].queue)
  <2>2. \/ streams' = [streams EXCEPT ![i].replay = u]
        \/ streams' = [streams EXCEPT ![i].queue = v]
    BY <2>1
  <2> HIDE DEF u, v
  <2>3. Updated(i, {"replay"}) \/ Updated(i, {"queue"})
    BY <2>2, QueueUpdate, ReplayUpdate
  <2> QED BY <2>3
\* No RPC removes a stream.
<1>CallerStreamsGrow. ASSUME IsSeq(streams), NEW c \in Callers, CallerStep(c)
                      PROVE  DOMAIN streams \subseteq DOMAIN streams'
  <2> USE <1>CallerStreamsGrow
  <2>1. ASSUME UNCHANGED streams PROVE DOMAIN streams \subseteq DOMAIN streams'
    BY <2>1
  <2>2. CASE Subscribe(c) \/ Unsubscribe(c) \/ Resume(c) \/ ResumeInRegistry(c)
    <3>1. UNCHANGED streams
      BY <2>2 DEF Subscribe, Unsubscribe, Resume, ResumeInRegistry, sessionVars
    <3> QED BY <2>1, <3>1
  <2>3. CASE ListStream(c)
    <3>1. streams' = Append(streams, NewStream(caller[c]))
      BY <2>3 DEF ListStream
    <3> HIDE DEF NewStream
    <3> QED BY <3>1, AppendSeq
  <2>4. CASE SetReactor(c)
    BY <2>4 DEF SetReactor
  <2>5. CASE SubscribeOpens(c)
    BY <2>5 DEF SubscribeOpens
  <2>6. CASE CancelStream(c)
    BY <2>6 DEF CancelStream
  <2>7. CASE RecoverTopic(c)
    BY <2>7 DEF RecoverTopic
  <2>8. CASE ResumeOpens(c)
    BY <2>8 DEF ResumeOpens
  <2> QED BY <2>2, <2>3, <2>4, <2>5, <2>6, <2>7, <2>8 DEF CallerStep
<1> SUFFICES ASSUME BaseInv, RegistryKeys, PublishersOK, [Next]_vars
             PROVE  BaseInv' /\ PublishersOK'
  OBVIOUS
<1>1. CASE UNCHANGED vars
  <2>1. UNCHANGED <<registry, streams, caller, listed, overlapped, lapsed, publisher, buffers>>
    BY <1>1 DEF vars, sessionVars, historyVars
  <2> QED BY <2>1, QuietStep, <1>KeptFit
<1>2. ASSUME NEW c \in Callers, CallerStep(c) PROVE BaseInv' /\ PublishersOK'
  <2>1. UNCHANGED <<publisher, buffers>>
    BY <1>2 DEF CallerStep, Subscribe, ListStream, SetReactor, SubscribeOpens, Unsubscribe,
                       CancelStream, Resume, ResumeInRegistry, RecoverTopic, ResumeOpens
  <2>2. BaseInv'
    BY <1>2, CallerStepBase
  <2>3. DOMAIN streams \subseteq DOMAIN streams'
    BY <1>2, <1>CallerStreamsGrow DEF BaseInv
  <2> QED BY <2>1, <2>2, <2>3, <1>KeptFit
<1>3. ASSUME NEW p \in Publishers, PublisherStep(p) PROVE BaseInv' /\ PublishersOK'
  BY <1>3, PublisherStepBase
<1>4. CASE Write
  <2>1. UNCHANGED <<registry, caller, listed, overlapped, lapsed, publisher, buffers>>
    BY <1>4 DEF Write
  <2>2. PICK i \in DOMAIN streams, f \in {"queue", "replay"} : Updated(i, {f})
    BY <1>4, <1>WriteStreams DEF BaseInv
  <2>3. BaseInv'
    BY <2>1, <2>2, StreamStep
  <2>4. DOMAIN streams' = DOMAIN streams
    BY <2>2 DEF Updated
  <2> QED BY <2>1, <2>3, <2>4, <1>KeptFit
<1>5. CASE Disconnect
  <2>1. UNCHANGED <<registry, caller, listed, overlapped, lapsed, publisher, buffers>>
    BY <1>5 DEF Disconnect, historyVars
  <2>2. PICK i \in DOMAIN streams : streams' = [streams EXCEPT ![i].active = FALSE]
    BY <1>5 DEF Disconnect
  <2>3. BaseInv'
    BY <2>1, <2>2, <1>EndStep
  <2>4. DOMAIN streams' = DOMAIN streams
    BY <2>2
  <2> QED BY <2>1, <2>3, <2>4, <1>KeptFit
<1>6. CASE PauseExpires
  <2>1. UNCHANGED <<streams, caller, listed, overlapped, lapsed, publisher, buffers>>
    BY <1>6 DEF PauseExpires, historyVars
  <2>2. PICK s \in DOMAIN registry.paused :
          registry' = [registry EXCEPT !.paused = With(@, s, [@[s] EXCEPT !.expired = TRUE])]
    BY <1>6 DEF PauseExpires
  <2>3. KeysKept
    BY <2>2 DEF RegistryKeys, ExpiryKeysOK, KeysKept
  <2>4. BaseInv'
    BY <2>1, <2>3, RegistryStep
  <2> QED BY <2>1, <2>4, <1>KeptFit
<1> QED BY <1>1, <1>2, <1>3, <1>4, <1>5, <1>6 DEF Next

\* A daemon starts with no session.
LEMMA InitBase == Init => BaseInv /\ PublishersOK
<1> SUFFICES ASSUME Init PROVE BaseInv /\ PublishersOK
  OBVIOUS
<1>1. /\ registry = NewRegistry /\ buffers = Empty /\ streams = <<>> /\ listed = Empty
      /\ caller = [c \in Callers |-> Idle] /\ publisher = [p \in Publishers |-> Idle]
  BY DEF Init, RegistryInit
<1>2. DOMAIN streams = {} /\ DOMAIN listed = {} /\ DOMAIN buffers = {}
  BY SMT, <1>1 DEF Empty
<1>3. /\ DOMAIN caller = Callers /\ \A c \in Callers : caller[c] = Idle /\ caller[c].at = "idle"
      /\ DOMAIN publisher = Publishers /\ \A p \in Publishers : publisher[p] = Idle /\ publisher[p].at = "idle"
  BY <1>1 DEF Idle
<1>4. DOMAIN registry.local = {} /\ DOMAIN registry.paused = {}
  BY <1>1 DEF NewRegistry, Empty
<1>5. IsSeq(streams)
  BY <1>1, EmptyIsSeq
<1>6. StreamsOK
  BY <1>2 DEF StreamsOK
<1>7. CallersOK
  BY <1>3 DEF CallersOK
<1>8. CallerStreams /\ OneAtATime /\ ListedOK
  BY <1>2, <1>3 DEF CallerStreams, Streaming, OneAtATime, ListedOK
<1>9. IdsOK
  BY <1>2, <1>3, <1>4 DEF IdsOK, Opening
<1>10. Matched
  BY <1>2, <1>3, <1>4 DEF Matched
<1>11. PublishersOK
  BY <1>2, <1>3 DEF PublishersOK, PublisherFits
<1> QED BY <1>4, <1>5, <1>6, <1>7, <1>8, <1>9, <1>10, <1>11 DEF BaseInv, SessionInv
=============================================================================
