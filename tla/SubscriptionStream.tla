--------------------------- MODULE SubscriptionStream ---------------------------
(***************************************************************************)
(* One subscriber's stream in src/services/sidecar_service.cpp: the        *)
(* SubscriptionStream record, the SubscribeReactor that writes to gRPC and *)
(* the threads of deliverFromRemote() that feed it.                        *)
(*                                                                         *)
(* gRPC allows one write at a time: StartWrite() may be called again only  *)
(* after OnWriteDone().  The reactor keeps to this with the flag writing,  *)
(* which a delivery thread exchanges outside the mutex.  A critical        *)
(* section of writeMutex that does not wait is one action; a publisher     *)
(* blocked by the BLOCK policy waits while it holds the mutex.             *)
(*                                                                         *)
(* gRPC gives a second concurrent write no meaning, so the model stops     *)
(* there.  The queue is SubscriberQueue seen through its mutex: close() is *)
(* never called on a stream's queue.  The reactor can be reached by        *)
(* deliveries as soon as its constructor stores it in the stream, so the   *)
(* rest of the constructor is a process of its own.                        *)
(***************************************************************************)
EXTENDS Integers, Sequences, FiniteSetsExt

CONSTANTS
  Deliverers,   \* the threads that run deliverFromRemote()
  Limit,        \* subscriberQueueLimit_ (0 = unlimited)
  Policies,     \* the values backpressurePolicy_ may be configured to
  Setups        \* where a behaviour begins, see SetupType

SetupType ==
  [crew : SUBSET Deliverers, \* the delivery threads that take part
   opening : BOOLEAN,        \* start inside the constructor, or after its write?
   retained : Nat,           \* retained messages the constructor enqueues
   expiring : BOOLEAN,       \* do messages have a time to live?
   messages : Nat]           \* bound: messages delivered to the stream

ASSUME StreamAssumption ==
  /\ Limit \in Nat
  /\ Policies \subseteq {"DROP_OLDEST", "DROP_NEWEST", "BLOCK"}
  /\ \A s \in Setups : s \in SetupType

VARIABLES
  setup,        \* what was chosen of Setups
  policy,       \* backpressurePolicy_, fixed when the daemon starts
  active,       \* stream->active
  listed,       \* the stream is in activeStreams_
  writing,      \* stream->writing
  queue,        \* stream->messageQueue: message numbers, front first
  expired,      \* the queued messages whose time to live is over
  outstanding,  \* writes started and not completed
  current,      \* currentEvent_ (0: the subscription info)
  callback,     \* where OnWriteDone() is: "none", "called", "failed", "proceed"
  cancelled,    \* the client cancelled the call
  finished,     \* Finish() was called
  deleted,      \* OnDone() deleted the reactor
  constructing, \* steps the constructor still has to take
  pc,           \* where each delivery thread is
  accepted,     \* history: messages pushed onto the queue
  dropped,      \* history: messages evicted or expired
  failed,       \* history: messages whose write failed
  written,      \* history: messages written, in order
  misused,      \* history: a thread entered the reactor after it was deleted
  stuck,        \* history: a thread found only expired messages and left writing set
  raced         \* history: a thread won the exchange the constructor's writes should have

stream == <<setup, policy, active, listed, writing>>
call == <<outstanding, current, callback, cancelled, finished, deleted>>
items == <<queue, expired, accepted, dropped>>
log == <<failed, written>>
vars == <<stream, call, items, log, constructing, pc, misused, stuck, raced>>

Steps == {"idle", "chosen", "admitted", "blocked", "queued", "start"}

Init ==
  /\ setup \in Setups /\ policy \in Policies
  /\ active = TRUE /\ listed = TRUE /\ writing = FALSE
  /\ queue = <<>> /\ accepted = 0 /\ expired = {}
  /\ outstanding = 0 /\ current = 0
  /\ constructing = IF setup.opening THEN setup.retained + 1 ELSE 0
  /\ callback = "none"
  /\ cancelled = FALSE /\ finished = FALSE /\ deleted = FALSE
  /\ pc = [d \in Deliverers |-> "idle"]
  /\ dropped = 0 /\ failed = 0 /\ written = <<>>
  /\ misused = FALSE /\ stuck = FALSE /\ raced = FALSE

-----------------------------------------------------------------------------
(* The queue, under its own mutex *)

MutexFree == \A d \in Deliverers : pc[d] # "blocked"

Full == Limit > 0 /\ Len(queue) >= Limit

Queued == {queue[i] : i \in DOMAIN queue}

ExpiredPrefix(n) ==
  /\ \A i \in 1..n : queue[i] \in expired
  /\ n < Len(queue) => queue[n + 1] \notin expired

Without(n) == SubSeq(queue, n + 1, Len(queue))

PushBack(kept) ==
  /\ queue' = Append(kept, accepted + 1)
  /\ accepted' = accepted + 1
  /\ UNCHANGED expired

PushOverOldest ==
  /\ PushBack(Tail(queue))
  /\ dropped' = dropped + 1

\* Variant: the newest message is taken.
StartNewestWrite ==
  /\ queue # <<>>
  /\ current' = queue[Len(queue)]
  /\ outstanding' = outstanding + 1
  /\ queue' = SubSeq(queue, 1, Len(queue) - 1)
  /\ UNCHANGED <<expired, accepted, dropped>>

\* dequeue() and StartWrite() with what it returned.
StartNextWrite ==
  \E n \in 0..(Len(queue) - 1) :
    /\ ExpiredPrefix(n)
    /\ current' = queue[n + 1]
    /\ outstanding' = outstanding + 1
    /\ queue' = Without(n + 1)
    /\ dropped' = dropped + n
    /\ UNCHANGED <<expired, accepted>>

\* dequeue() finds only expired messages, or none.
NothingToWrite ==
  /\ ExpiredPrefix(Len(queue))
  /\ queue' = <<>>
  /\ dropped' = dropped + Len(queue)
  /\ UNCHANGED <<expired, accepted, current, outstanding>>

-----------------------------------------------------------------------------
(* The constructor of SubscribeReactor, from stream_->reactor = this on *)

\* A retained message goes to the queue without writeMutex.
ConstructorEnqueue ==
  /\ constructing > 1
  /\ \/ ~Full /\ PushBack(queue) /\ UNCHANGED dropped
     \/ Full /\ IF policy = "DROP_NEWEST" THEN UNCHANGED items ELSE PushOverOldest
  /\ constructing' = constructing - 1
  /\ UNCHANGED <<stream, call, log, pc, misused, stuck, raced>>

\* The subscription info is written without setting the flag writing.
ConstructorStart ==
  /\ constructing = 1
  /\ current' = 0
  /\ outstanding' = outstanding + 1
  /\ constructing' = 0
  /\ UNCHANGED <<stream, items, log, callback, cancelled, finished, deleted, pc, misused, stuck, raced>>

-----------------------------------------------------------------------------
(* deliverFromRemote() and SubscribeReactor::enqueueMessage() *)

Arriving == {d \in Deliverers : pc[d] \in {"chosen", "admitted", "blocked"}}

\* The stream is found active under streamsMutex_ and remembered.
Choose(d) ==
  /\ d \in setup.crew /\ pc[d] = "idle" /\ listed /\ active
  /\ accepted + Cardinality(Arriving) < setup.messages
  /\ pc' = [pc EXCEPT ![d] = "chosen"]
  /\ UNCHANGED <<stream, call, items, log, constructing, misused, stuck, raced>>

Enter(d) ==
  /\ pc[d] = "chosen"
  /\ misused' = (misused \/ deleted)
  /\ pc' = [pc EXCEPT ![d] = IF active THEN "admitted" ELSE "idle"]
  /\ UNCHANGED <<stream, call, items, log, constructing, stuck, raced>>

Enqueue(d) ==
  /\ pc[d] = "admitted" /\ MutexFree
  /\ \/ /\ ~Full
        /\ PushBack(queue)
        /\ UNCHANGED dropped
        /\ pc' = [pc EXCEPT ![d] = "queued"]
     \/ /\ Full /\ policy = "DROP_OLDEST"
        /\ PushOverOldest
        /\ pc' = [pc EXCEPT ![d] = "queued"]
     \/ /\ Full /\ policy = "DROP_NEWEST"
        /\ UNCHANGED items
        /\ pc' = [pc EXCEPT ![d] = "idle"]
     \/ /\ Full /\ policy = "BLOCK"
        /\ UNCHANGED items
        /\ pc' = [pc EXCEPT ![d] = "blocked"]
  /\ UNCHANGED <<stream, call, log, constructing, misused, stuck, raced>>

\* The reaper made room, or block_timeout_ms passed: then drop the oldest.
Unblock(d) ==
  /\ pc[d] = "blocked"
  /\ IF Full THEN PushOverOldest ELSE PushBack(queue) /\ UNCHANGED dropped
  /\ pc' = [pc EXCEPT ![d] = "queued"]
  /\ UNCHANGED <<stream, call, log, constructing, misused, stuck, raced>>

Writes == outstanding > 0 \/ callback # "none" \/ constructing > 0 \/ finished

\* Variant: the result of the exchange is ignored.
ExchangeIgnored(d) ==
  /\ pc[d] = "queued"
  /\ writing' = TRUE
  /\ pc' = [pc EXCEPT ![d] = "start"]
  /\ UNCHANGED <<setup, policy, active, listed, call, items, log, constructing, misused, stuck, raced>>

\* !stream_->writing.exchange(true), outside the mutex.
Exchange(d) ==
  /\ pc[d] = "queued"
  /\ writing' = TRUE
  /\ pc' = [pc EXCEPT ![d] = IF writing THEN "idle" ELSE "start"]
  /\ raced' = (raced \/ (setup.opening /\ ~writing /\ Writes))
  /\ UNCHANGED <<setup, policy, active, listed, call, items, log, constructing, misused, stuck>>

Start(d) ==
  /\ pc[d] = "start" /\ MutexFree
  /\ \/ queue # <<>> /\ StartNextWrite /\ UNCHANGED <<writing, stuck>>
     \/ queue # <<>> /\ NothingToWrite /\ UNCHANGED writing /\ stuck' = TRUE
     \/ queue = <<>> /\ NothingToWrite /\ writing' = FALSE /\ UNCHANGED stuck
  /\ pc' = [pc EXCEPT ![d] = "idle"]
  /\ UNCHANGED <<setup, policy, active, listed, callback, cancelled, finished, deleted, log, constructing, misused, raced>>

-----------------------------------------------------------------------------
(* The calls gRPC makes: OnWriteDone(), OnCancel(), OnDone() *)

WriteCompletes ==
  /\ outstanding > 0 /\ callback = "none"
  /\ outstanding' = outstanding - 1
  /\ \/ /\ callback' = "called"
        /\ written' = IF current = 0 THEN written ELSE Append(written, current)
        /\ UNCHANGED failed
     \/ /\ cancelled
        /\ callback' = "failed"
        /\ failed' = IF current = 0 THEN failed ELSE failed + 1
        /\ UNCHANGED written
  /\ UNCHANGED <<stream, items, current, cancelled, finished, deleted, pc, constructing, misused, stuck, raced>>

\* Variant: only a failed write finishes the stream.
OnWriteDoneFinishFailed ==
  /\ callback = "failed"
  /\ callback' = "none"
  /\ finished' = TRUE
  /\ UNCHANGED <<stream, items, log, outstanding, current, cancelled, deleted, pc, constructing, misused, stuck, raced>>

\* !ok || !stream_->active
OnWriteDoneFinish ==
  /\ callback = "failed" \/ (callback = "called" /\ ~active)
  /\ callback' = "none"
  /\ finished' = TRUE
  /\ UNCHANGED <<stream, items, log, outstanding, current, cancelled, deleted, pc, constructing, misused, stuck, raced>>

OnWriteDoneProceed ==
  /\ callback = "called" /\ active
  /\ callback' = "proceed"
  /\ UNCHANGED <<stream, items, log, outstanding, current, cancelled, finished, deleted, pc, constructing, misused, stuck, raced>>

\* Variant: one write per delivery, the rest of the queue is left.
OnWriteDoneIdle ==
  /\ callback = "proceed" /\ MutexFree
  /\ writing' = FALSE
  /\ callback' = "none"
  /\ UNCHANGED <<setup, policy, active, listed, items, log, outstanding, current, cancelled, finished, deleted, pc, constructing, misused, stuck, raced>>

OnWriteDoneNext ==
  /\ callback = "proceed" /\ MutexFree
  /\ \/ StartNextWrite /\ UNCHANGED writing
     \/ NothingToWrite /\ writing' = FALSE
  /\ callback' = "none"
  /\ UNCHANGED <<setup, policy, active, listed, log, cancelled, finished, deleted, pc, constructing, misused, stuck, raced>>

OnCancel ==
  /\ ~cancelled /\ ~deleted
  /\ cancelled' = TRUE
  /\ active' = FALSE
  /\ UNCHANGED <<setup, policy, listed, writing, items, log, outstanding, current, callback, finished, deleted, pc, constructing, misused, stuck, raced>>

OnDone ==
  /\ finished /\ outstanding = 0 /\ callback = "none" /\ ~deleted
  /\ deleted' = TRUE
  /\ UNCHANGED <<stream, items, log, outstanding, current, callback, cancelled, finished, pc, constructing, misused, stuck, raced>>

-----------------------------------------------------------------------------
(* The other threads of the daemon *)

\* UnsubscribeReactor, once the registry entry is gone.
Unsubscribe ==
  /\ listed
  /\ listed' = FALSE
  /\ active' = FALSE
  /\ UNCHANGED <<setup, policy, writing, call, items, log, pc, constructing, misused, stuck, raced>>

\* Variant: one message more than counted.
ReapOneMore ==
  /\ listed
  /\ \E n \in 1..(Len(queue) - 1) :
       /\ ExpiredPrefix(n)
       /\ queue' = Without(n + 1)
       /\ dropped' = dropped + n
  /\ UNCHANGED <<stream, call, log, expired, accepted, pc, constructing, misused, stuck, raced>>

ReapExpired ==
  /\ listed
  /\ \E n \in 1..Len(queue) :
       /\ ExpiredPrefix(n)
       /\ queue' = Without(n)
       /\ dropped' = dropped + n
  /\ UNCHANGED <<stream, call, log, expired, accepted, pc, constructing, misused, stuck, raced>>

Expire ==
  /\ setup.expiring
  /\ \E m \in Queued \ expired : expired' = expired \cup {m}
  /\ UNCHANGED <<stream, call, log, queue, accepted, dropped, pc, constructing, misused, stuck, raced>>

-----------------------------------------------------------------------------
DeliveryStep(d) ==
  Choose(d) \/ Enter(d) \/ Enqueue(d) \/ Unblock(d) \/ Exchange(d) \/ Start(d)

Constructor == ConstructorEnqueue \/ ConstructorStart

OnWriteDone == OnWriteDoneFinish \/ OnWriteDoneProceed \/ OnWriteDoneNext

\* gRPC aborts the daemon at a second concurrent write.
Next ==
  /\ outstanding <= 1
  /\ \/ \E d \in Deliverers : DeliveryStep(d)
     \/ Constructor
     \/ WriteCompletes
     \/ OnWriteDone
     \/ OnCancel
     \/ OnDone
     \/ Unsubscribe
     \/ ReapExpired
     \/ Expire

Spec == Init /\ [][Next]_vars

(***************************************************************************)
(* A delivery that has begun goes on, BLOCK's wait is bounded, gRPC        *)
(* completes writes (the subscriber keeps reading, or the call fails) and  *)
(* makes its callbacks.  Nothing is assumed of new deliveries, the client, *)
(* the reaper or time.                                                     *)
(***************************************************************************)
FairSpec ==
  /\ Spec
  /\ \A d \in Deliverers :
       WF_vars(outstanding <= 1 /\ pc[d] # "idle" /\ DeliveryStep(d))
  /\ WF_vars(outstanding <= 1 /\ Constructor)
  /\ WF_vars(outstanding <= 1 /\ WriteCompletes)
  /\ WF_vars(outstanding <= 1 /\ OnWriteDone)
  /\ WF_vars(outstanding <= 1 /\ OnDone)

-----------------------------------------------------------------------------
(* Properties *)

\* The type of every variable; only pushed messages are queued or written.
TypeOK ==
  /\ policy \in Policies
  /\ active \in BOOLEAN /\ listed \in BOOLEAN /\ writing \in BOOLEAN
  /\ cancelled \in BOOLEAN /\ finished \in BOOLEAN /\ deleted \in BOOLEAN
  /\ misused \in BOOLEAN /\ stuck \in BOOLEAN /\ raced \in BOOLEAN
  /\ accepted \in Nat /\ dropped \in Nat /\ failed \in Nat
  /\ queue \in Seq(1..accepted) /\ written \in Seq(1..accepted)
  /\ expired \subseteq 1..accepted
  /\ current \in 0..accepted /\ outstanding \in 0..2
  /\ callback \in {"none", "called", "failed", "proceed"}
  /\ constructing \in 0..(setup.retained + 1)
  /\ pc \in [Deliverers -> Steps]

(* StartWrite() is called only when no write is outstanding and never      *)
(* after Finish(): what writing.exchange(true) is there to guarantee.  The *)
(* exception: the constructor's write, and those that OnWriteDone() chains *)
(* to it, do not set the flag, so a delivery may win the exchange then, or *)
(* after one of them has finished the stream.                              *)
SingleWrite == raced \/ (outstanding <= 1 /\ (finished => outstanding = 0))

OnTheWay == IF outstanding > 0 /\ current # 0 THEN <<current>> ELSE <<>>

(* A subscriber sees messages in the order they were enqueued and none     *)
(* twice, whichever thread starts the write.                               *)
WireOrder ==
  LET line == written \o OnTheWay \o queue
  IN  \A i, j \in DOMAIN line : i < j => line[i] < line[j]

(* Every message pushed by enqueueMessage() is written, being written,     *)
(* queued, dropped by policy or age, or failed with the call.  A second    *)
(* write at once overwrites currentEvent_.                                 *)
Conserved ==
  outstanding <= 1 => accepted = Len(queue) + Len(OnTheWay) + Len(written) + dropped + failed

(* While the stream is active, queued messages have somebody who will      *)
(* write them: an outstanding write, OnWriteDone(), the constructor or a   *)
(* thread on its way to the exchange or past it.  The exception: a thread  *)
(* that won the exchange found only expired messages.                      *)
PumpAlive ==
  active /\ queue # <<>> /\ ~stuck =>
    \/ outstanding > 0 \/ callback # "none" \/ constructing > 0
    \/ \E d \in Deliverers : pc[d] \in {"queued", "start"}

(* A message queued on an active stream leaves the queue in the end: it is *)
(* "queued if writing_ == true, delivered when safe", unless the stream    *)
(* got stuck on expired messages, or a second write was started.           *)
NoStall ==
  \A m \in 1..(Max({s.messages + s.retained : s \in Setups})) :
    m \in Queued ~> (m \notin Queued \/ ~active \/ stuck \/ outstanding > 1)

(* A stream that is unsubscribed or cancelled while a write is out is      *)
(* finished in the end.  An idle one is not: only OnWriteDone() calls      *)
(* Finish().                                                               *)
StreamEnds == ~active /\ outstanding > 0 ~> finished \/ outstanding > 1

(* OnWriteDone(), which would make room, never waits for the writeMutex of *)
(* a publisher that is itself waiting for room.                            *)
NoCircularWait == ~(callback = "proceed" /\ ~MutexFree)

(* enqueueMessage() is never entered after OnDone() deleted the reactor.   *)
ReactorAlive == ~misused
=============================================================================
