--------------------------------- MODULE Client ---------------------------------
(***************************************************************************)
(* The client of clients/python/nexusd_client/client.py and the daemon it  *)
(* talks to: one generator of subscribe(), read by a consumer, and one     *)
(* other thread that calls publish(), unsubscribe() and close() on the     *)
(* same NexusdClient.  AsyncNexusdClient is the same code with awaits.     *)
(*                                                                         *)
(* The daemon is the registry (PeerRegistry) and the replay buffer         *)
(* (TopicBuffers), with each of its RPCs in one step: Sessions has         *)
(* their interleavings.  A stream has two ends, the queue of the daemon    *)
(* and the events on the wire.  The connection may break and the daemon    *)
(* may crash; a call that is out then ends with UNAVAILABLE, whether or    *)
(* not it was handled.                                                     *)
(*                                                                         *)
(* grpc.insecure_channel() connects when the first call is made: making a  *)
(* channel hardly ever fails, whether the daemon is up or not.             *)
(***************************************************************************)
EXTENDS PeerRegistry, Sequences, FiniteSetsExt

CONSTANTS
  Configs,      \* [enabled, attempts, mode]: ReconnectConfig and gap_recovery_mode
  PerTopic,     \* the daemon's messageBufferSize
  MaxMessages,  \* bound: publishing goes on while fewer than this were buffered
  MaxFaults,    \* bound: lost connections, crashes, failed channels, expired pauses
  None

ASSUME ClientAssumption ==
  /\ Configs \subseteq [enabled : BOOLEAN, attempts : Nat,
                       mode : {"NONE", "RETAINED_ONLY", "REPLAY_BUFFER"}]
  /\ PerTopic \in Nat \ {0}
  /\ IsFiniteSet(Topics)
  /\ None \notin Subs

VARIABLES
  config,   \* the configuration, fixed
  channel,  \* whether _channel and _stub are set
  tracked,  \* _active_subscriptions
  gen,      \* the generator: pc, subscription_id, last_sequence, attempt
  user,     \* the other thread
  stream,   \* the call the generator reads, both ends of it
  up,       \* the daemon runs
  buffers,  \* its messageBuffer_
  sent,     \* history: messages buffered
  faults,   \* history: faults
  issued,   \* history: subscription ids given out
  told,     \* history: those the client was told of since they were last opened, and keeps
  excused,  \* history: the messages the subscription need not bring
  yielded   \* history: the messages yielded, with their numbers

clientVars == <<channel, tracked, gen, user>>
daemonVars == <<up, registry, buffers, issued, excused>>
historyVars == <<sent, faults, told, yielded>>
vars == <<config, clientVars, stream, daemonVars, historyVars>>

OnlyGen == UNCHANGED <<config, channel, tracked, user, stream, daemonVars, historyVars>>
OnlyUser == UNCHANGED <<config, channel, tracked, gen, stream, daemonVars, historyVars>>

Buffer == INSTANCE TopicBuffers

\* The last number of a topic.
Reached(t) == IF t \in DOMAIN buffers THEN Buffer!CurrentSequence(buffers[t]) ELSE 0

NoStream ==
  [kind |-> "none", sub |-> None, status |-> "open", active |-> FALSE, own |-> TRUE,
   queue |-> <<>>, wire |-> <<>>, upto |-> Empty, lapsed |-> FALSE]

Resting == [pc |-> "idle", topic |-> None, attempt |-> 0, copies |-> 0, broken |-> 0,
            outcome |-> "none", todo |-> {}, unpaused |-> {}, late |-> FALSE]

Init ==
  /\ config \in Configs
  /\ channel = TRUE /\ tracked = {}
  /\ gen = [pc |-> "idle", sid |-> None, last |-> 0, attempt |-> 0]
  /\ user = Resting
  /\ stream = NoStream
  /\ up = TRUE /\ RegistryInit /\ buffers = Empty
  /\ sent = 0 /\ faults = 0
  /\ issued = {} /\ told = {} /\ excused = {} /\ yielded = <<>>

\* close() holds _subscription_lock over its calls.
Unlocked == user.pc # "closing"

-----------------------------------------------------------------------------
(* subscribe(): the request *)

Start ==
  /\ gen.pc = "idle" /\ channel
  /\ gen' = [gen EXCEPT !.pc = "request"]
  /\ OnlyGen

\* close() has cleared _stub: an AttributeError, which nothing catches.
RequestFails ==
  /\ gen.pc = "request" /\ ~channel
  /\ gen' = [gen EXCEPT !.pc = "failed"]
  /\ OnlyGen

RequestRefused ==
  /\ gen.pc = "request" /\ channel /\ ~up
  /\ stream' = [NoStream EXCEPT !.status = "unavailable"]
  /\ gen' = [gen EXCEPT !.pc = "streaming"]
  /\ UNCHANGED <<config, channel, tracked, user, daemonVars, historyVars>>

Info == [type |-> "info"]

Resumes == gen.sid # None /\ config.enabled

\* Messages of a topic.
Through(t, m, n) == {t} \X (m..n)

\* A generated id: which one makes no difference.
FreshId == CHOOSE s \in Subs \ issued : TRUE

SubscribeCall ==
  /\ gen.pc = "request" /\ channel /\ up /\ ~Resumes
  /\ issued # Subs
  /\ LET s == FreshId IN
       /\ registry' = AddLocalSubscription(registry, s, Topics)
       /\ stream' = [NoStream EXCEPT !.kind = "subscribe", !.sub = s, !.active = TRUE,
                                     !.queue = <<Info>>]
       /\ issued' = issued \cup {s}
  /\ excused' = UNION {Through(t, 1, Reached(t)) : t \in Topics}
  /\ gen' = [gen EXCEPT !.pc = "streaming"]
  /\ UNCHANGED <<config, channel, tracked, user, up, buffers, historyVars>>

\* What the daemon's gap recovery finds for a topic.
Recovery(t, after) ==
  CASE config.mode = "NONE"          -> [messages |-> <<>>, missed |-> 0]
    [] config.mode = "RETAINED_ONLY" -> [messages |-> Buffer!RetainedMessage(t), missed |-> 0]
    [] config.mode = "REPLAY_BUFFER" -> Buffer!MessagesForReplay(t, after)

Event(type, t, seq) == [type |-> type, topic |-> t, seq |-> seq]

Events(t, after) ==
  LET type == IF config.mode = "RETAINED_ONLY" THEN "retained" ELSE "replay"
      ms == Recovery(t, after).messages
  IN  [k \in DOMAIN ms |-> Event(type, t, ms[k].seq)]

\* The number recovery starts from: last_sequence, for all topics, if there is one.
ResumesAfter(s) == IF gen.last = 0 THEN registry.paused[s].last ELSE gen.last

\* What is sent again of the topics of a set, one topic after the other.
AllEvents(ts, after) == FoldSet(LAMBDA t, events : events \o Events(t, after), <<>>, ts)

\* ResumeSubscribe() of the daemon.  A pause that is over is found, and not resumed.
Resumed(s) ==
  LET ok == Resumable(registry, s)
      events == AllEvents(registry.paused[s].topics, ResumesAfter(s))
  IN  [NoStream EXCEPT
         !.kind = "resume", !.sub = s, !.active = TRUE, !.lapsed = ~ok,
         !.queue = <<Info>> \o (IF ok THEN events ELSE <<>>),
         !.upto = [t \in Topics |-> Reached(t)]]

\* What a resumption reports as missed; all there is, if the client has no number
\* to resume from.
Excuses ==
  UNION {IF gen.last = 0 THEN Through(t, 1, Reached(t))
         ELSE Through(t, gen.last + 1, gen.last + Recovery(t, gen.last).missed) : t \in Topics}

ResumeCall ==
  /\ gen.pc = "request" /\ channel /\ up /\ Resumes
  /\ IF gen.sid \in DOMAIN registry.paused
     THEN /\ stream' = Resumed(gen.sid) /\ registry' = ResumeSubscription(registry, gen.sid)
          /\ told' = told \ {gen.sid} /\ excused' = excused \cup Excuses
     ELSE /\ stream' = [NoStream EXCEPT !.status = "notfound"]
          /\ UNCHANGED <<registry, told, excused>>
  /\ gen' = [gen EXCEPT !.pc = "streaming"]
  /\ UNCHANGED <<config, channel, tracked, user, up, buffers, issued, sent, faults, yielded>>

-----------------------------------------------------------------------------
(* subscribe(): the events and the end of the stream *)

\* Variant: the first number is kept.
LastAfterFirst(e) == IF gen.last # 0 THEN gen.last ELSE e.seq

\* Variant: the message that comes next is counted too.
LastAfterEarly(e) == IF e.type = "retained" THEN gen.last ELSE e.seq + 1

\* last_sequence after an event.  Retained messages carry no number.
LastAfter(e) ==
  CASE e.type = "retained" -> gen.last
    [] e.type = "message"  -> IF e.seq = 0 THEN gen.last ELSE e.seq
    [] e.type = "replay"   -> Max({gen.last, e.seq})

Reads == gen.pc = "streaming" /\ stream.wire # <<>>

ReceiveInfo ==
  /\ Reads /\ Head(stream.wire) = Info /\ Unlocked
  /\ gen' = [gen EXCEPT !.sid = stream.sub]
  /\ tracked' = tracked \cup {stream.sub}
  /\ told' = told \cup {stream.sub}
  /\ stream' = [stream EXCEPT !.wire = Tail(@)]
  /\ UNCHANGED <<config, channel, user, daemonVars, sent, faults, yielded>>

ReceiveMessage ==
  /\ Reads /\ Head(stream.wire) # Info
  /\ LET e == Head(stream.wire) IN
       /\ gen' = [gen EXCEPT !.pc = "yield", !.last = LastAfter(e)]
       /\ yielded' = IF e.type = "retained" THEN yielded ELSE Append(yielded, <<e.topic, e.seq>>)
  /\ stream' = [stream EXCEPT !.wire = Tail(@)]
  /\ UNCHANGED <<config, channel, tracked, user, daemonVars, sent, faults, told>>

\* The consumer asks for more.
Continue ==
  /\ gen.pc = "yield" /\ Unlocked
  /\ gen' = [gen EXCEPT !.pc = "streaming"]
  /\ OnlyGen

\* The consumer drops the generator: the call is cancelled, the rest of
\* subscribe() does not run.
Abandon ==
  /\ gen.pc = "yield"
  /\ gen' = [gen EXCEPT !.pc = "abandoned"]
  /\ stream' = [stream EXCEPT !.active = FALSE, !.status = "cancelled", !.queue = <<>>, !.wire = <<>>]
  /\ UNCHANGED <<config, channel, tracked, user, daemonVars, historyVars>>

Ends == gen.pc = "streaming" /\ stream.wire = <<>>

\* Variant: a stream that was cancelled is taken for a lost one.
StreamEndsRetry ==
  /\ Ends /\ stream.status \in {"finished", "cancelled"} /\ Unlocked
  /\ gen' = [gen EXCEPT !.pc = IF stream.status = "cancelled" /\ config.enabled
                               THEN "backoff" ELSE "done"]
  /\ tracked' = tracked \ {gen.sid}
  /\ UNCHANGED <<config, channel, user, stream, daemonVars, historyVars>>

\* The stream ended, or was cancelled: the cleanup.
StreamEnds ==
  /\ Ends /\ stream.status \in {"finished", "cancelled"} /\ Unlocked
  /\ gen' = [gen EXCEPT !.pc = "done"]
  /\ tracked' = tracked \ {gen.sid}
  /\ UNCHANGED <<config, channel, user, stream, daemonVars, historyVars>>

\* Variant: every error is retried.
AfterErrorRetry(status) == IF config.enabled THEN "backoff" ELSE "raised"

\* Which errors are retried.  A SubscribeError leaves the entry in tracked.
AfterError(status) == IF status = "unavailable" /\ config.enabled THEN "backoff" ELSE "raised"

StreamFails ==
  /\ Ends /\ stream.status \in {"notfound", "unavailable"}
  /\ gen' = [gen EXCEPT !.pc = AfterError(stream.status)]
  /\ OnlyGen

-----------------------------------------------------------------------------
(* _reconnect(), of either thread *)

GivesUp(attempt) == config.attempts > 0 /\ attempt + 1 > config.attempts

\* Another attempt may fail; without a limit nothing depends on how many did.
Counts(attempt) == config.attempts > 0 /\ ~GivesUp(attempt)

\* _connect() puts a new channel in the place of the one the stream may be on.
Connect == channel' = TRUE /\ stream' = [stream EXCEPT !.own = FALSE]

GenReconnects ==
  /\ gen.pc = "backoff"
  /\ IF GivesUp(gen.attempt)
     THEN gen' = [gen EXCEPT !.pc = "raised", !.attempt = 0] /\ UNCHANGED <<channel, stream>>
     ELSE gen' = [gen EXCEPT !.pc = "request", !.attempt = 0] /\ Connect
  /\ UNCHANGED <<config, tracked, user, daemonVars, historyVars>>

GenFailsToConnect ==
  /\ gen.pc = "backoff" /\ Counts(gen.attempt) /\ faults < MaxFaults
  /\ faults' = faults + 1
  /\ gen' = [gen EXCEPT !.attempt = @ + 1]
  /\ UNCHANGED <<config, channel, tracked, user, stream, daemonVars, sent, told, yielded>>

Returns(outcome) == [Resting EXCEPT !.outcome = outcome]

UserReconnects ==
  /\ user.pc = "backoff"
  /\ IF GivesUp(user.attempt)
     THEN user' = Returns("error") /\ UNCHANGED <<channel, stream>>
     ELSE user' = [user EXCEPT !.pc = "publish", !.attempt = 0] /\ Connect
  /\ UNCHANGED <<config, tracked, gen, daemonVars, historyVars>>

UserFailsToConnect ==
  /\ user.pc = "backoff" /\ Counts(user.attempt) /\ faults < MaxFaults
  /\ faults' = faults + 1
  /\ user' = [user EXCEPT !.attempt = @ + 1]
  /\ UNCHANGED <<config, channel, tracked, gen, stream, daemonVars, sent, told, yielded>>

-----------------------------------------------------------------------------
(* publish() *)

Publish ==
  /\ user.pc = "idle" /\ channel /\ sent < MaxMessages
  /\ \E t \in Topics : user' = [Resting EXCEPT !.pc = "publish", !.topic = t]
  /\ OnlyUser

\* The daemon buffers a message and queues it on the stream, unless the stream is
\* a resumed one: deliverFromRemote() takes its reactor for another class.
Store(t) ==
  LET b == IF t \in DOMAIN buffers THEN buffers[t] ELSE Buffer!NewBuffer
      live == stream.kind = "subscribe" /\ stream.active
  IN  /\ buffers' = With(buffers, t, Buffer!Pushed(b, 0, 0))
      /\ stream' = IF live THEN [stream EXCEPT !.queue = Append(@, Event("message", t, b.next))]
                   ELSE stream
      /\ registry' = IF live THEN UpdateSubscriptionSequence(registry, stream.sub, b.next)
                     ELSE registry
      /\ sent' = sent + 1
      /\ UNCHANGED <<up, issued, excused>>

PublishHandled ==
  /\ user.pc = "publish" /\ up
  /\ Store(user.topic)
  /\ \/ user' = [user EXCEPT !.pc = "answered", !.copies = @ + 1]
     \/ /\ stream.kind = "resume" /\ stream.active
        /\ user' = [user EXCEPT !.pc = "hung", !.copies = @ + 1]
  /\ UNCHANGED <<config, channel, tracked, gen, faults, told, yielded>>

PublishReturns ==
  /\ user.pc = "answered"
  /\ user' = Returns("ok")
  /\ OnlyUser

PublishRefused ==
  /\ user.pc = "publish" /\ ~up
  /\ user' = [user EXCEPT !.pc = "unavailable"]
  /\ OnlyUser

\* Variant: a call that was not answered is taken for done.
PublishUnavailableIsFine ==
  /\ user.pc = "unavailable"
  /\ user' = Returns("ok")
  /\ OnlyUser

PublishUnavailable ==
  /\ user.pc = "unavailable"
  /\ user' = IF config.enabled THEN [user EXCEPT !.pc = "backoff"] ELSE Returns("error")
  /\ OnlyUser

-----------------------------------------------------------------------------
(* unsubscribe() and close() *)

\* Unsubscribe() of the daemon.
Removed(s, pause) ==
  /\ registry' = RemoveLocalSubscription(registry, s, pause)
  /\ stream' = IF stream.sub = s THEN [stream EXCEPT !.active = FALSE] ELSE stream

Unsubscribe ==
  /\ user.pc = "idle" /\ channel /\ up /\ gen.sid # None
  /\ \E pause \in BOOLEAN : Removed(gen.sid, pause)
  /\ user' = [Resting EXCEPT !.pc = "removed", !.todo = {gen.sid}]
  /\ UNCHANGED <<config, channel, tracked, gen, up, buffers, issued, excused, historyVars>>

UnsubscribeReturns ==
  /\ user.pc = "removed"
  /\ tracked' = tracked \ user.todo /\ told' = told \ user.todo
  /\ user' = Resting
  /\ UNCHANGED <<config, channel, gen, stream, daemonVars, sent, faults, yielded>>

\* Variant: close() does not look at the subscriptions.
CloseBare ==
  /\ user.pc = "idle" /\ channel
  /\ user' = [Resting EXCEPT !.pc = "closing"]
  /\ OnlyUser

Close ==
  /\ user.pc = "idle" /\ channel
  /\ user' = [Resting EXCEPT !.pc = "closing", !.todo = tracked]
  /\ OnlyUser

\* _pause_subscription(), which swallows its errors.
ClosePauses ==
  /\ user.pc = "closing"
  /\ \E s \in user.todo :
       /\ IF up THEN Removed(s, TRUE) ELSE UNCHANGED <<registry, stream>>
       /\ user' = [user EXCEPT !.todo = @ \ {s}]
  /\ UNCHANGED <<config, channel, tracked, gen, up, buffers, issued, excused, historyVars>>

Generating == gen.pc \in {"streaming", "yield"}

\* The generator will make a channel of its own, or reads one close() does not have.
OutOfReach ==
  \/ gen.pc = "backoff"
  \/ Generating /\ config.enabled /\ stream.status = "unavailable"
  \/ Generating /\ ~stream.own

Cancelled ==
  IF stream.own /\ stream.status # "unavailable"
  THEN [stream EXCEPT !.status = "cancelled", !.active = FALSE, !.queue = <<>>, !.wire = <<>>]
  ELSE stream

\* What close() does not know of.
Untold == issued \ told

CloseReturns ==
  /\ user.pc = "closing" /\ user.todo = {}
  /\ channel' = FALSE
  /\ stream' = Cancelled
  /\ user' = [user EXCEPT !.pc = "closed", !.late = OutOfReach, !.unpaused = @ \cup Untold]
  /\ UNCHANGED <<config, tracked, gen, daemonVars, historyVars>>

-----------------------------------------------------------------------------
(* The daemon and the faults *)

\* Another client publishes.
Deliver ==
  /\ up /\ sent < MaxMessages
  /\ \E t \in Topics : Store(t)
  /\ UNCHANGED <<config, clientVars, faults, told, yielded>>

\* A write is done: OnWriteDone() starts the next one, or finishes a stream that
\* was made inactive meanwhile.
ServerWrites ==
  /\ stream.status = "open" /\ stream.queue # <<>>
  /\ stream' = IF stream.active
               THEN [stream EXCEPT !.wire = Append(@, Head(stream.queue)), !.queue = Tail(@)]
               ELSE [stream EXCEPT !.wire = Append(@, Head(stream.queue)), !.queue = <<>>,
                                   !.status = "finished"]
  /\ UNCHANGED <<config, clientVars, daemonVars, historyVars>>

PauseExpires ==
  /\ faults < MaxFaults /\ faults' = faults + 1
  /\ \E s \in DOMAIN registry.paused :
       /\ ~registry.paused[s].expired
       /\ registry' = [registry EXCEPT !.paused = With(@, s, [@[s] EXCEPT !.expired = TRUE])]
  /\ UNCHANGED <<config, clientVars, stream, up, buffers, issued, excused, sent, told, yielded>>

\* What the call of the other thread makes of a lost connection.  A pause may be
\* lost with it.
CallBreaks ==
  \/ user.pc \in {"answered", "hung"} /\ user' = [user EXCEPT !.pc = "unavailable", !.broken = @ + 1]
  \/ user.pc = "publish" /\ user' = [user EXCEPT !.pc = "unavailable"]
  \/ user.pc = "removed" /\ user' = Resting
  \/ /\ user.pc = "closing"
     /\ \E s \in user.todo : user' = [user EXCEPT !.todo = @ \ {s}, !.unpaused = @ \cup {s}]
  \/ user.pc \in {"idle", "backoff", "unavailable", "closing", "closed"} /\ UNCHANGED user

\* Some of what is on the wire still arrives.
StreamBreaks ==
  IF stream.kind # "none" /\ stream.status \in {"open", "finished"}
  THEN \E k \in 0..Len(stream.wire) :
         stream' = [stream EXCEPT !.status = "unavailable", !.active = FALSE, !.queue = <<>>,
                                  !.wire = SubSeq(@, 1, k)]
  ELSE UNCHANGED stream

\* The calls of one channel share its connection.
ConnectionLost ==
  /\ up /\ faults < MaxFaults /\ faults' = faults + 1
  /\ \/ StreamBreaks /\ CallBreaks
     \/ ~stream.own /\ StreamBreaks /\ UNCHANGED user
     \/ ~stream.own /\ CallBreaks /\ UNCHANGED stream
  /\ UNCHANGED <<config, channel, tracked, gen, daemonVars, sent, told, yielded>>

\* Subscriptions and buffered messages are in memory.
Crash ==
  /\ up /\ faults < MaxFaults /\ faults' = faults + 1
  /\ up' = FALSE /\ registry' = NewRegistry /\ buffers' = Empty
  /\ StreamBreaks /\ CallBreaks
  /\ UNCHANGED <<config, channel, tracked, gen, issued, excused, sent, told, yielded>>

Restart ==
  /\ ~up /\ up' = TRUE
  /\ UNCHANGED <<config, clientVars, stream, registry, buffers, issued, excused, historyVars>>

GenStep ==
  \/ RequestFails \/ RequestRefused \/ SubscribeCall \/ ResumeCall
  \/ ReceiveInfo \/ ReceiveMessage \/ Continue \/ StreamEnds \/ StreamFails
  \/ GenReconnects

UserStep ==
  \/ PublishHandled \/ PublishReturns \/ PublishRefused \/ PublishUnavailable
  \/ UserReconnects \/ UnsubscribeReturns \/ ClosePauses \/ CloseReturns

Next ==
  \/ Start \/ Abandon \/ GenFailsToConnect \/ GenStep
  \/ Publish \/ Unsubscribe \/ Close \/ UserFailsToConnect \/ UserStep
  \/ Deliver \/ ServerWrites \/ PauseExpires
  \/ ConnectionLost \/ Crash \/ Restart

Spec == Init /\ [][Next]_vars

\* Both threads run, the consumer goes on reading, and the daemon writes.
FairSpec == Spec /\ WF_vars(GenStep) /\ WF_vars(UserStep) /\ WF_vars(ServerWrites)

-----------------------------------------------------------------------------
(* Properties *)

\* The type of the client's state.
TypeOK ==
  /\ channel \in BOOLEAN
  /\ tracked \subseteq issued /\ told \subseteq issued /\ issued \subseteq Subs
  /\ gen.pc \in {"idle", "request", "streaming", "yield", "backoff",
                 "done", "raised", "failed", "abandoned"}
  /\ gen.sid \in issued \cup {None} /\ gen.last \in Sequences
  /\ stream.sub \in issued \cup {None}

(* The messages a consumer gets from one subscribe() are in the order of   *)
(* the daemon's numbers and none comes twice, over lost connections,       *)
(* resumptions and replays (for one topic: there is one last_sequence).    *)
YieldsIncrease ==
  \A i, j \in DOMAIN yielded :
    i < j /\ yielded[i][1] = yielded[j][1] => yielded[i][2] < yielded[j][2]

Yielded(t, n) == \E k \in DOMAIN yielded : yielded[k] = <<t, n>>

Coming(t, n) == \E k \in DOMAIN (stream.wire \o stream.queue) :
                  (stream.wire \o stream.queue)[k] = Event("replay", t, n)

(* A subscription resumed with REPLAY_BUFFER loses nothing silently: every *)
(* message since subscribe() was yielded, is being replayed, or was        *)
(* counted in a missed_message_count.  It holds for one topic, if the      *)
(* pause was not over, and but for what was published before a resumption  *)
(* of a client that had received no number yet.                            *)
NoSilentLoss ==
  /\ stream.kind = "resume" /\ stream.status = "open" /\ config.mode = "REPLAY_BUFFER"
  /\ ~stream.lapsed
  => \A t \in Topics : \A n \in 1..stream.upto[t] :
       Yielded(t, n) \/ Coming(t, n) \/ <<t, n>> \in excused

(* publish() stores one message for every call the daemon handled, and     *)
(* reports it: a message comes twice only if an answer was lost, and an    *)
(* error means that no call was answered.                                  *)
PublishExact ==
  [][user.pc # "idle" /\ user'.pc = "idle" =>
       /\ user'.outcome = "ok" => user.copies = user.broken + 1
       /\ user'.outcome = "error" => user.copies = user.broken]_vars

(* close() leaves no subscription of this client active in the daemon: it  *)
(* pauses them all, but for calls that were lost, for a subscription the   *)
(* generator was not told of yet, and for one it resumed while             *)
(* unsubscribe(), which then drops the new entry, was waiting.             *)
ClosePausesAll ==
  user.pc = "closed" /\ ~user.late =>
    DOMAIN registry.local \subseteq user.unpaused

(* A closed client stays closed, unless close() ran while the generator    *)
(* had lost its connection, or read from a channel publish() had replaced: *)
(* _reconnect() makes a channel without looking whether close() was called.*)
ClosedStaysClosed == user.pc = "closed" /\ ~user.late => ~channel

Ended == {"done", "raised", "failed", "abandoned"}

(* With the same exception, close() ends the generator.                    *)
CloseEndsGenerator ==
  user.pc = "closed" /\ ~user.late ~> gen.pc \in Ended \cup {"idle"}

Reconnecting ==
  gen.pc \in {"request", "backoff"} \/ (Generating /\ stream.status \in {"unavailable", "notfound"})

(* If the daemon comes back for good, a generator that lost its connection *)
(* streams again or ends with an error: it does not try for ever.          *)
ReconnectSettles == <>[]up => (Reconnecting ~> ~Reconnecting)

(* Automatic reconnection: with reconnection enabled and attempts without  *)
(* limit, a lost connection does not end a subscription with an error.     *)
LossSurvived == config.enabled /\ config.attempts = 0 => gen.pc # "raised"
=============================================================================
