-------------------------------- MODULE Sessions --------------------------------
(***************************************************************************)
(* The subscriptions of one daemon over their life: Subscribe, Unsubscribe *)
(* with pause, ResumeSubscribe and the deliveries that run meanwhile, in   *)
(* src/services/sidecar_service.cpp, over the registry (PeerRegistry) and  *)
(* the replay buffer (TopicBuffers), with no memory limit in force.        *)
(*                                                                         *)
(* Each RPC runs on a thread of its own and takes the locks of the         *)
(* registry, of activeStreams_ and of the buffer one after the other: one  *)
(* action per critical section.  The writing of one stream is coarse here, *)
(* SubscriptionStream has its detail; queues are unlimited.                *)
(*                                                                         *)
(* deliverFromRemote() casts the reactor of every stream to                *)
(* SubscribeReactor.  For a resumed stream the reactor is another class,   *)
(* and the member stream_ is then read where the pointer to the replay     *)
(* buffer is.  The buffer's bytes, read as a stream, either look inactive  *)
(* or hold a mutex that looks locked for ever: both outcomes are allowed.  *)
(***************************************************************************)
EXTENDS PeerRegistry, Sequences, FiniteSetsExt

CONSTANTS
  Publishers,   \* threads that run PublishReactor
  Callers,      \* threads that run Subscribe, Unsubscribe, ResumeSubscribe
  Interests,    \* the sets of topics clients subscribe to, with retained messages
  Retaining,    \* the topics whose messages are published with retain
  Modes,        \* the values of gap_recovery_mode clients use
  PerTopic,     \* messageBufferSize
  MaxStreams,   \* bound: streams opened
  Teams         \* bound: sets of threads that work at once, and how much they publish

ASSUME SessionsAssumption == IsFiniteSet(Topics) /\ Interests \subseteq SUBSET Topics

VARIABLES
  team,       \* the threads that work and what they publish, fixed
  retained,   \* retainedMessages_
  buffers,    \* messageBuffer_
  streams,    \* every SubscriptionStream made, with its reactor
  listed,     \* activeStreams_: the position in streams of a subscription's stream
  caller,     \* where each caller is
  publisher,  \* where each publisher is
  received,   \* history: the messages each subscriber was sent
  number,     \* the last sequence number each client has seen
  log,        \* history: the messages buffered for each topic, by sequence number
  overlapped, \* history: subscriptions two RPCs worked on at once
  overtaken,  \* history: subscriptions for which a later message was enqueued first
  lapsed      \* history: subscriptions resumed after the pause had expired

sessionVars == <<registry, retained, listed, streams>>
clientVars == <<received, number>>
historyVars == <<clientVars, overlapped, overtaken, lapsed>>
vars == <<team, sessionVars, buffers, caller, publisher, log, historyVars>>

Buffer == INSTANCE TopicBuffers

Published == FoldSet(LAMBDA t, n : n + Len(log[t]), 0, Topics)
               + Cardinality({p \in Publishers : publisher[p].at = "buffer"})

Idle == [at |-> "idle"]

Init ==
  /\ team \in Teams
  /\ RegistryInit
  /\ retained = Empty
  /\ buffers = Empty
  /\ streams = <<>>
  /\ listed = Empty
  /\ caller = [c \in Callers |-> Idle]
  /\ publisher = [p \in Publishers |-> Idle]
  /\ received = [s \in Subs |-> {}]
  /\ number = [s \in Subs |-> 0]
  /\ log = [t \in Topics |-> <<>>]
  /\ overlapped = {} /\ overtaken = {} /\ lapsed = {}

-----------------------------------------------------------------------------
(* Callers *)

Busy(s) == \E c \in Callers : caller[c] # Idle /\ caller[c].sub = s

Used == {streams[i].sub : i \in DOMAIN streams}
          \cup {caller[c].sub : c \in {d \in Callers : caller[d] # Idle}}

Streams == Len(streams) + Cardinality({c \in Callers : caller[c].at = "list"})

NoteOverlap(s) == overlapped' = IF Busy(s) THEN overlapped \cup {s} ELSE overlapped

\* Subscribe(): a fresh id, registered first.
Subscribe(c) ==
  /\ caller[c] = Idle /\ Streams < MaxStreams
  /\ \E s \in Subs \ Used, ts \in Interests :
       /\ registry' = AddLocalSubscription(registry, s, ts)
       /\ caller' = [caller EXCEPT ![c] =
            [at |-> "list", sub |-> s, kind |-> "subscribe", topics |-> ts]]
  /\ UNCHANGED <<retained, listed, streams, buffers, publisher, log, historyVars>>

\* The last five fields are history: what a gap recovery did.
NewStream(op) ==
  [sub |-> op.sub, kind |-> op.kind, topics |-> op.topics, active |-> TRUE,
   reactor |-> FALSE, open |-> FALSE, queue |-> <<>>, replay |-> <<>>,
   after |-> Empty, missed |-> Empty, upto |-> Empty, saved |-> FALSE, from |-> Empty]

\* activeStreams_[id] = stream, whatever was there.
ListStream(c) ==
  /\ caller[c].at = "list"
  /\ streams' = Append(streams, NewStream(caller[c]))
  /\ listed' = With(listed, caller[c].sub, Len(streams) + 1)
  /\ caller' = [caller EXCEPT ![c] = [at |-> "construct", sub |-> @.sub, op |-> @,
                                      stream |-> Len(streams) + 1]]
  /\ UNCHANGED <<registry, retained, buffers, publisher, log, historyVars>>

\* stream_->reactor = this
SetReactor(c) ==
  /\ caller[c].at = "construct"
  /\ LET i == caller[c].stream IN
       streams' = [streams EXCEPT ![i].reactor = TRUE,
                                  ![i].from = [t \in streams[i].topics |-> Len(log[t])]]
  /\ caller' = [caller EXCEPT ![c].at = caller[c].op.kind]
  /\ UNCHANGED <<registry, retained, listed, buffers, publisher, log, historyVars>>

\* The elements of a set in some order.
InSomeOrder(S) == CHOOSE f \in Bijection(1..Cardinality(S), S) : TRUE

\* Variant: the retained messages are forgotten.
SubscribeOpensBare(c) ==
  /\ caller[c].at = "subscribe"
  /\ streams' = [streams EXCEPT ![caller[c].stream].open = TRUE]
  /\ caller' = [caller EXCEPT ![c] = Idle]
  /\ UNCHANGED <<registry, retained, listed, buffers, publisher, log, historyVars>>

\* The rest of the constructor: retained messages are queued, the info is written.
SubscribeOpens(c) ==
  /\ caller[c].at = "subscribe"
  /\ LET i == caller[c].stream
         old == InSomeOrder({retained[t] : t \in streams[i].topics \cap DOMAIN retained})
     IN  streams' = [streams EXCEPT ![i].open = TRUE, ![i].queue = @ \o old]
  /\ caller' = [caller EXCEPT ![c] = Idle]
  /\ UNCHANGED <<registry, retained, listed, buffers, publisher, log, historyVars>>

\* The ids clients were told.
Known == {streams[i].sub : i \in {j \in DOMAIN streams : streams[j].open}}

\* UnsubscribeReactor: the registry first.
Unsubscribe(c) ==
  /\ caller[c] = Idle
  /\ \E s \in Known, pause \in BOOLEAN :
       /\ s \in DOMAIN registry.local \cup DOMAIN listed
       /\ registry' = RemoveLocalSubscription(registry, s, pause)
       /\ caller' = [caller EXCEPT ![c] = [at |-> "cancel", sub |-> s]]
       /\ NoteOverlap(s)
  /\ UNCHANGED <<retained, listed, streams, buffers, publisher, log, clientVars, overtaken, lapsed>>

\* Variant: the stream stays in activeStreams_.
CancelOnly(c) ==
  /\ caller[c].at = "cancel"
  /\ LET s == caller[c].sub IN
       IF s \in DOMAIN listed
       THEN streams' = [streams EXCEPT ![listed[s]].active = FALSE]
       ELSE UNCHANGED streams
  /\ caller' = [caller EXCEPT ![c] = Idle]
  /\ UNCHANGED <<registry, retained, listed, buffers, publisher, log, historyVars>>

\* Then the stream, if one is listed.
CancelStream(c) ==
  /\ caller[c].at = "cancel"
  /\ LET s == caller[c].sub IN
       IF s \in DOMAIN listed
       THEN /\ streams' = [streams EXCEPT ![listed[s]].active = FALSE]
            /\ listed' = Without(listed, {s})
       ELSE UNCHANGED <<streams, listed>>
  /\ caller' = [caller EXCEPT ![c] = Idle]
  /\ UNCHANGED <<registry, retained, buffers, publisher, log, historyVars>>

-----------------------------------------------------------------------------
(* ResumeSubscribe() *)

\* getPausedSubscription() does not look at the expiry.  A subscription that is
\* not paused is answered NOT_FOUND, which changes nothing.
Resume(c) ==
  /\ caller[c] = Idle /\ Streams < MaxStreams
  /\ \E s \in DOMAIN registry.paused, mode \in Modes : \E n \in {0, number[s]} :
       /\ caller' = [caller EXCEPT ![c] =
            [at |-> "list", sub |-> s, kind |-> "resume",
             topics |-> registry.paused[s].topics, mode |-> mode, number |-> n]]
       /\ NoteOverlap(s)
  /\ UNCHANGED <<sessionVars, buffers, publisher, log, clientVars, overtaken, lapsed>>

\* resumeSubscription(), which finds the entry gone, expired, or takes it.
ResumeInRegistry(c) ==
  /\ caller[c].at = "resume"
  /\ LET s == caller[c].sub
         op == caller[c].op
         recover == Resumable(registry, s) /\ op.mode # "NONE"
     IN  /\ registry' = ResumeSubscription(registry, s)
         /\ lapsed' = IF Resumable(registry, s) THEN lapsed ELSE lapsed \cup {s}
         /\ caller' = [caller EXCEPT ![c] =
              [at |-> "recover", sub |-> s, stream |-> @.stream, mode |-> op.mode,
               todo |-> IF recover THEN op.topics ELSE {},
               number |-> IF op.number = 0 /\ recover THEN registry.paused[s].last ELSE op.number,
               saved |-> op.number = 0]]
  /\ UNCHANGED <<retained, listed, streams, buffers, publisher, log, clientVars, overlapped, overtaken>>

Event(m) == [id |-> m.payload, seq |-> m.seq]

\* Variant: the first message the client lacks is left out.
RecoveredLate(t, mode, after) ==
  IF mode = "RETAINED_ONLY"
  THEN [messages |-> Buffer!RetainedMessage(t), missed |-> 0]
  ELSE Buffer!MessagesForReplay(t, after + 1)

Recovered(t, mode, after) ==
  IF mode = "RETAINED_ONLY"
  THEN [messages |-> Buffer!RetainedMessage(t), missed |-> 0]
  ELSE Buffer!MessagesForReplay(t, after)

\* One topic of the gap recovery, with one number for all of them.
RecoverTopic(c) ==
  /\ caller[c].at = "recover"
  /\ \E t \in caller[c].todo :
       LET r == Recovered(t, caller[c].mode, caller[c].number)
           i == caller[c].stream
       IN  /\ streams' = [streams EXCEPT
                ![i].replay = @ \o [k \in DOMAIN r.messages |-> Event(r.messages[k])],
                ![i].after = IF caller[c].mode = "REPLAY_BUFFER" THEN With(@, t, caller[c].number) ELSE @,
                ![i].missed = With(@, t, r.missed),
                ![i].upto = With(@, t, Len(log[t])),
                ![i].saved = caller[c].saved]
           /\ caller' = [caller EXCEPT ![c].todo = @ \ {t}]
  /\ UNCHANGED <<registry, retained, listed, buffers, publisher, log, historyVars>>

\* The info is written: the RPC is established.
ResumeOpens(c) ==
  /\ caller[c].at = "recover" /\ caller[c].todo = {}
  /\ streams' = [streams EXCEPT ![caller[c].stream].open = TRUE]
  /\ caller' = [caller EXCEPT ![c] = Idle]
  /\ UNCHANGED <<registry, retained, listed, buffers, publisher, log, historyVars>>

-----------------------------------------------------------------------------
(* Publishers: PublishReactor and deliverFromRemote() *)

\* A retained message is stored before anything else happens to it.
Publish(p) ==
  /\ publisher[p] = Idle /\ Published < team.messages
  /\ \E t \in Topics :
       LET id == Published + 1 IN
       /\ publisher' = [publisher EXCEPT ![p] = [at |-> "buffer", topic |-> t, id |-> id]]
       /\ retained' = IF t \in Retaining
                      THEN With(retained, t, [id |-> id, seq |-> 0])
                      ELSE retained
  /\ UNCHANGED <<registry, listed, streams, buffers, caller, log, historyVars>>

BufferMessage(p) ==
  /\ publisher[p].at = "buffer"
  /\ LET t == publisher[p].topic
         b == IF t \in DOMAIN buffers THEN buffers[t] ELSE Buffer!NewBuffer
     IN  /\ buffers' = With(buffers, t, Buffer!Pushed(b, 0, publisher[p].id))
         /\ log' = [log EXCEPT ![t] = Append(@, publisher[p].id)]
         /\ publisher' = [publisher EXCEPT ![p] =
              [at |-> "choose", topic |-> t, id |-> @.id, seq |-> b.next]]
  /\ UNCHANGED <<sessionVars, caller, historyVars>>

Matching(t) ==
  {listed[s] : s \in {u \in DOMAIN listed : /\ streams[listed[u]].active
                                             /\ t \in streams[listed[u]].topics}}

Delivering(op, todo) ==
  IF todo = {} THEN Idle
  ELSE [at |-> "deliver", topic |-> op.topic, id |-> op.id, seq |-> op.seq, todo |-> todo]

\* The matching streams, under streamsMutex_.
ChooseStreams(p) ==
  /\ publisher[p].at = "choose"
  /\ publisher' = [publisher EXCEPT ![p] = Delivering(@, Matching(@.topic))]
  /\ UNCHANGED <<sessionVars, buffers, caller, log, historyVars>>

\* No reactor yet, or the stream was cancelled meanwhile: DROPPED_DISCONNECTED.
SkipStream(p) ==
  /\ publisher[p].at = "deliver"
  /\ \E i \in publisher[p].todo :
       /\ ~streams[i].reactor \/ (streams[i].kind = "subscribe" /\ ~streams[i].active)
       /\ publisher' = [publisher EXCEPT ![p] = Delivering(@, @.todo \ {i})]
  /\ UNCHANGED <<sessionVars, buffers, caller, log, historyVars>>

\* Another publisher has the topic's earlier number and is not as far.
Overtakes(op) ==
  \E q \in Publishers :
    /\ publisher[q].at \in {"choose", "deliver"}
    /\ publisher[q].topic = op.topic /\ publisher[q].seq < op.seq

\* enqueueMessage() of a SubscribeReactor.
EnqueueOnStream(p) ==
  /\ publisher[p].at = "deliver"
  /\ \E i \in publisher[p].todo :
       LET op == publisher[p] IN
       /\ streams[i].reactor /\ streams[i].kind = "subscribe" /\ streams[i].active
       /\ streams' = [streams EXCEPT ![i].queue =
            Append(@, [id |-> op.id, seq |-> op.seq])]
       /\ overtaken' = IF Overtakes(op)
                       THEN overtaken \cup {streams[i].sub} ELSE overtaken
       /\ publisher' = [publisher EXCEPT ![p] =
            [at |-> "sequence", topic |-> op.topic, id |-> op.id, seq |-> op.seq,
             todo |-> op.todo \ {i}, sub |-> streams[i].sub]]
  /\ UNCHANGED <<registry, retained, listed, buffers, caller, log, clientVars, overlapped, lapsed>>

\* The reactor of a resumed stream, seen through the wrong class.
EnqueueMiscast(p) ==
  /\ publisher[p].at = "deliver"
  /\ \E i \in publisher[p].todo :
       /\ streams[i].reactor /\ streams[i].kind = "resume"
       /\ \/ publisher' = [publisher EXCEPT ![p] = [at |-> "hung", id |-> @.id]]
          \/ publisher' = [publisher EXCEPT ![p] = Delivering(@, @.todo \ {i})]
  /\ UNCHANGED <<sessionVars, buffers, caller, log, historyVars>>

\* Variant: a paused subscription is updated too.
RecordSequenceOfPaused(p) ==
  /\ publisher[p].at = "sequence"
  /\ LET s == publisher[p].sub IN
       registry' = IF s \in DOMAIN registry.paused
                   THEN [registry EXCEPT !.paused[s].last = publisher[p].seq]
                   ELSE UpdateSubscriptionSequence(registry, s, publisher[p].seq)
  /\ publisher' = [publisher EXCEPT ![p] = Delivering(@, @.todo)]
  /\ UNCHANGED <<retained, listed, streams, buffers, caller, log, historyVars>>

\* updateSubscriptionSequence(), after an ENQUEUED.
RecordSequence(p) ==
  /\ publisher[p].at = "sequence"
  /\ registry' = UpdateSubscriptionSequence(registry, publisher[p].sub, publisher[p].seq)
  /\ publisher' = [publisher EXCEPT ![p] = Delivering(@, @.todo)]
  /\ UNCHANGED <<retained, listed, streams, buffers, caller, log, historyVars>>

-----------------------------------------------------------------------------
(* The streams, the clients and time *)

\* OnWriteDone(): what is left of the replay first, then the queue.
Write ==
  /\ \E i \in DOMAIN streams :
       LET st == streams[i]
           pending == st.replay \o st.queue
       IN  /\ st.active /\ st.open /\ pending # <<>>
           /\ received' = [received EXCEPT ![st.sub] = @ \cup {Head(pending).id}]
           /\ number' = [number EXCEPT ![st.sub] = Max({@, Head(pending).seq})]
           /\ streams' = IF st.replay # <<>>
                         THEN [streams EXCEPT ![i].replay = Tail(@)]
                         ELSE [streams EXCEPT ![i].queue = Tail(@)]
  /\ UNCHANGED <<registry, retained, listed, buffers, caller, publisher, log,
                 overlapped, overtaken, lapsed>>

\* OnCancel(): the client is gone.  The registry and activeStreams_ keep it.
Disconnect ==
  /\ \E i \in DOMAIN streams :
       /\ streams[i].active /\ streams[i].open
       /\ streams' = [streams EXCEPT ![i].active = FALSE]
  /\ UNCHANGED <<registry, retained, listed, buffers, caller, publisher, log, historyVars>>

PauseExpires ==
  /\ \E s \in DOMAIN registry.paused :
       /\ ~registry.paused[s].expired
       /\ registry' = [registry EXCEPT !.paused = With(@, s, [@[s] EXCEPT !.expired = TRUE])]
  /\ UNCHANGED <<retained, listed, streams, buffers, caller, publisher, log, historyVars>>

CallerStep(c) ==
  \/ Subscribe(c) \/ ListStream(c) \/ SetReactor(c) \/ SubscribeOpens(c)
  \/ Unsubscribe(c) \/ CancelStream(c)
  \/ Resume(c) \/ ResumeInRegistry(c) \/ RecoverTopic(c) \/ ResumeOpens(c)

PublisherStep(p) ==
  \/ Publish(p) \/ BufferMessage(p) \/ ChooseStreams(p) \/ SkipStream(p)
  \/ EnqueueOnStream(p) \/ EnqueueMiscast(p) \/ RecordSequence(p)

Next ==
  /\ UNCHANGED team
  /\ \/ \E c \in Callers \cap team.threads : CallerStep(c)
     \/ \E p \in Publishers \cap team.threads : PublisherStep(p)
     \/ Write
     \/ Disconnect
     \/ PauseExpires

Spec == Init /\ [][Next]_vars

-----------------------------------------------------------------------------
(* Properties *)

\* The type of the registry and of the streams.
TypeOK ==
  /\ RegistryTypeOK
  /\ DOMAIN listed \subseteq Subs
  /\ \A s \in DOMAIN listed : listed[s] \in DOMAIN streams /\ streams[listed[s]].sub = s
  /\ \A i \in DOMAIN streams : streams[i].topics \subseteq Topics

(* A subscription is in the registry exactly when its stream is in         *)
(* activeStreams_, once no RPC works on it: the two are changed under      *)
(* different locks.  It fails only after two RPCs overlapped on one id, or *)
(* after a resume that came when the pause was over.                       *)
RegistryMatchesStreams ==
  \A s \in Subs \ (overlapped \cup lapsed) :
    ~Busy(s) => (s \in DOMAIN registry.local <=> s \in DOMAIN listed)

Holds(i, id) == \E k \in DOMAIN streams[i].queue : streams[i].queue[k].id = id

Replays(i, id) == \E k \in DOMAIN streams[i].replay : streams[i].replay[k].id = id

Got(s, id) == id \in received[s]

(* Late joiners miss no retained message: a subscriber that asked for them *)
(* and is connected has been sent, or will be, the message retained now,   *)
(* from its constructor or from the delivery, whichever way PublishReactor *)
(* and Subscribe interleave, unless RPCs overlapped on the subscription.   *)
RetainedReachesSubscriber ==
  \A i \in DOMAIN streams, t \in DOMAIN retained :
    LET id == retained[t].id IN
    /\ streams[i].kind = "subscribe" /\ streams[i].open /\ streams[i].active /\ t \in streams[i].topics
    /\ streams[i].sub \notin overlapped
    /\ \A p \in Publishers : publisher[p] # Idle => publisher[p].id # id
    => Holds(i, id) \/ Got(streams[i].sub, id)

(* A resumed stream carries live messages: what is published after it was  *)
(* opened is queued for it or sent once its delivery is over.  The modes   *)
(* of gap recovery say the subscription "resumes with new messages".       *)
ResumedStreamIsLive ==
  \A s \in DOMAIN listed :
    LET st == streams[listed[s]] IN
    st.kind = "resume" /\ st.open /\ st.active =>
      \A t \in st.topics : \A n \in (st.from[t] + 1)..Len(log[t]) :
        (\A p \in Publishers : publisher[p] # Idle => publisher[p].id # log[t][n])
          => Holds(listed[s], log[t][n]) \/ Replays(listed[s], log[t][n]) \/ Got(s, log[t][n])

First(s) == streams[CHOOSE i \in DOMAIN streams :
                      streams[i].sub = s /\ \A j \in 1..(i - 1) : streams[j].sub # s]

\* Enqueued on an earlier stream of the subscription, and never written.
Stranded(i, id) == \E j \in 1..(i - 1) : streams[j].sub = streams[i].sub /\ Holds(j, id)

(* A gap recovery by replay accounts for every message since the           *)
(* subscription was opened: sent before, sent now, or counted as missed.   *)
(* It holds for one topic with a number to start from and deliveries in    *)
(* order.  With the number the daemon saved, what was enqueued on the old  *)
(* stream and not written is skipped: the number is recorded when a        *)
(* message is enqueued, not when it is written.                            *)
ReplayAccountsForAll ==
  \A i \in DOMAIN streams :
    LET st == streams[i]
        s  == st.sub
    IN  Cardinality(st.topics) = 1 /\ s \notin overtaken \cup overlapped =>
          \A t \in DOMAIN st.after :
            st.after[t] > 0 =>
              \A n \in (First(s).from[t] + 1)..st.upto[t] :
                \/ Got(s, log[t][n]) \/ Replays(i, log[t][n])
                \/ n <= st.after[t] + st.missed[t] /\ n > st.after[t]
                \/ st.saved /\ Stranded(i, log[t][n])
=============================================================================
