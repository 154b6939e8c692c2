---------------------------- MODULE SubscriberQueue ----------------------------
(***************************************************************************)
(* The per-subscriber message queue of include/nexusd/core/                *)
(* subscriber_queue.hpp: a deque behind one mutex and one condition        *)
(* variable, with a size limit, a backpressure policy and a time to live   *)
(* per message.                                                            *)
(*                                                                         *)
(* Any number of publisher threads call enqueue(); one writer calls        *)
(* dequeue(); the TTL reaper calls reapExpired(); any thread may call      *)
(* close().  A critical section that never waits is one action.  The wait  *)
(* of the BLOCK policy is split where the mutex is released, and every     *)
(* notification is a step of its own because the code notifies after it    *)
(* has unlocked.  close() takes no mutex, so it can also run between a     *)
(* waiter's last look at the predicate and the moment it is asleep.        *)
(***************************************************************************)
EXTENDS Integers, Sequences, FiniteSets

CONSTANTS
  Producers,    \* the threads that call enqueue()
  Policy,       \* policy_
  Limit,        \* limit_ (0 = unlimited)
  DefaultTtl,   \* default_ttl_ms_ (0 = infinite)
  Ttls,         \* the values callers pass as message_ttl_ms (0 = default)
  MaxAttempts,  \* bound: calls of enqueue()
  MaxTime       \* bound: ticks of the steady clock

Policies == {"DROP_OLDEST", "DROP_NEWEST", "BLOCK"}

ASSUME QueueAssumption ==
  /\ Policy \in Policies
  /\ Limit \in Nat
  /\ DefaultTtl \in Nat
  /\ Ttls \subseteq Nat
  /\ MaxAttempts \in Nat
  /\ MaxTime \in Nat

VARIABLES
  messages,   \* messages_: front first
  closed,     \* closed_
  stats,      \* stats_
  pc,         \* where each producer is inside enqueue()
  expiry,     \* the expiry_time each producer stamped on its message
  notifyOne,  \* the writer has dequeued and not yet called notify_one
  notifyAll,  \* the threads that still have to call notify_all
  clock,      \* steady_clock
  attempts,   \* history: calls of enqueue()
  refused,    \* history: calls answered DROPPED_DISCONNECTED
  delivered   \* history: tickets of the messages dequeue() returned

env == <<clock, attempts, refused>>

vars == <<messages, closed, stats, pc, expiry, notifyOne, notifyAll, clock,
          attempts, refused, delivered>>

(***************************************************************************)
(* A queued message is its expiry time and a ticket: the value that        *)
(* total_enqueued takes when it is pushed.  The ticket only serves to name *)
(* the message; the code never reads it.                                   *)
(***************************************************************************)
Never == -1

Expiries == Nat \cup {Never}

Message == [ticket : Nat, expiry : Expiries]

Stats == [total_enqueued : Nat, total_delivered : Nat, dropped_oldest : Nat,
          dropped_newest : Nat, dropped_ttl : Nat, block_timeouts : Nat,
          high_watermark : Nat]

Steps == {"idle", "stamped", "presleep", "asleep", "woken", "signal"}

\* A producer that has stamped its message and not yet pushed or dropped it.
InFlight == {p \in Producers : pc[p] \in {"stamped", "presleep", "asleep", "woken"}}

Asleep(pcs) == {p \in Producers : pcs[p] = "asleep"}

\* A producer about to sleep on the condition variable still holds the mutex.
MutexFree == \A p \in Producers : pc[p] # "presleep"

Full == Limit > 0 /\ Len(messages) >= Limit

HasRoom == Len(messages) < Limit

EffectiveTtl(ttl) == IF ttl > 0 THEN ttl ELSE DefaultTtl

ExpiryOf(ttl) == IF EffectiveTtl(ttl) > 0 THEN clock + EffectiveTtl(ttl) ELSE Never

Expired(m) == m.expiry # Never /\ m.expiry <= clock

\* The first n messages are what a loop that pops expired fronts removes.
ExpiredPrefix(n) ==
  /\ \A i \in 1..n : Expired(messages[i])
  /\ n < Len(messages) => ~Expired(messages[n + 1])

Without(n) == SubSeq(messages, n + 1, Len(messages))

\* The outcomes of notify_one: some waiter, if there is one, is woken.
WakeOne(pcs) ==
  IF Asleep(pcs) = {} THEN {pcs} ELSE {[pcs EXCEPT ![w] = "woken"] : w \in Asleep(pcs)}

WakeAll(pcs) == [p \in Producers |-> IF pcs[p] = "asleep" THEN "woken" ELSE pcs[p]]

Init ==
  /\ messages = <<>>
  /\ closed = FALSE
  /\ stats = [total_enqueued |-> 0, total_delivered |-> 0, dropped_oldest |-> 0,
              dropped_newest |-> 0, dropped_ttl |-> 0, block_timeouts |-> 0,
              high_watermark |-> 0]
  /\ pc = [p \in Producers |-> "idle"]
  /\ expiry = [p \in Producers |-> Never]
  /\ notifyOne = FALSE
  /\ notifyAll = {}
  /\ clock = 0
  /\ attempts = 0
  /\ refused = 0
  /\ delivered = <<>>

-----------------------------------------------------------------------------
(* enqueue() *)

\* The closed_ test and the expiry stamp come before the mutex is taken.
EnqueueRefused(p) ==
  /\ pc[p] = "idle" /\ attempts < MaxAttempts
  /\ closed
  /\ attempts' = attempts + 1
  /\ refused' = refused + 1
  /\ UNCHANGED <<messages, closed, stats, pc, expiry, notifyOne, notifyAll, clock, delivered>>

EnqueueStamp(p, ttl) ==
  /\ pc[p] = "idle" /\ attempts < MaxAttempts
  /\ ~closed
  /\ attempts' = attempts + 1
  /\ expiry' = [expiry EXCEPT ![p] = ExpiryOf(ttl)]
  /\ pc' = [pc EXCEPT ![p] = "stamped"]
  /\ UNCHANGED <<messages, closed, stats, notifyOne, notifyAll, clock, refused, delivered>>

\* push_back onto what is kept, count, raise the high watermark, unlock.
Push(p, kept, st) ==
  /\ messages' = Append(kept, [ticket |-> st.total_enqueued + 1, expiry |-> expiry[p]])
  /\ stats' = [st EXCEPT !.total_enqueued = @ + 1,
                         !.high_watermark = IF Len(kept) + 1 > @ THEN Len(kept) + 1 ELSE @]
  /\ pc' = [pc EXCEPT ![p] = "signal"]
  /\ UNCHANGED <<closed, expiry, notifyOne, notifyAll, env, delivered>>

\* Variants: an eviction that is not counted; one that clears the deque.
PushOverOldestUncounted(p, st) ==
  IF messages = <<>> THEN Push(p, messages, st) ELSE Push(p, Tail(messages), st)

PushOverAll(p, st) ==
  IF messages = <<>>
  THEN Push(p, messages, st)
  ELSE Push(p, <<>>, [st EXCEPT !.dropped_oldest = @ + Len(messages)])

\* Evict the front, if any, and push.
PushOverOldest(p, st) ==
  IF messages = <<>>
  THEN Push(p, messages, st)
  ELSE Push(p, Tail(messages), [st EXCEPT !.dropped_oldest = @ + 1])

EnqueueWithRoom(p) ==
  /\ pc[p] = "stamped" /\ MutexFree
  /\ ~Full
  /\ Push(p, messages, stats)

EnqueueDropOldest(p) ==
  /\ pc[p] = "stamped" /\ MutexFree
  /\ Full /\ Policy = "DROP_OLDEST"
  /\ PushOverOldest(p, stats)

\* Variants: a rejection that is not counted; an eviction instead of a rejection.
EnqueueDropNewestUncounted(p) ==
  /\ pc[p] = "stamped" /\ MutexFree
  /\ Full /\ Policy = "DROP_NEWEST"
  /\ pc' = [pc EXCEPT ![p] = "idle"]
  /\ UNCHANGED <<messages, closed, stats, expiry, notifyOne, notifyAll, env, delivered>>

EnqueueDropNewestEvicts(p) ==
  /\ pc[p] = "stamped" /\ MutexFree
  /\ Full /\ Policy = "DROP_NEWEST"
  /\ PushOverOldest(p, stats)

EnqueueDropNewest(p) ==
  /\ pc[p] = "stamped" /\ MutexFree
  /\ Full /\ Policy = "DROP_NEWEST"
  /\ stats' = [stats EXCEPT !.dropped_newest = @ + 1]
  /\ pc' = [pc EXCEPT ![p] = "idle"]
  /\ UNCHANGED <<messages, closed, expiry, notifyOne, notifyAll, env, delivered>>

\* wait_for finds its predicate false; the mutex is still held.
PrepareToSleep(p) ==
  /\ MutexFree
  /\ ~closed /\ ~HasRoom
  /\ pc' = [pc EXCEPT ![p] = "presleep"]
  /\ UNCHANGED <<messages, closed, stats, expiry, notifyOne, notifyAll, env, delivered>>

EnqueueBlock(p) ==
  /\ pc[p] = "stamped" /\ Full /\ Policy = "BLOCK"
  /\ PrepareToSleep(p)

Sleep(p) ==
  /\ pc[p] = "presleep"
  /\ pc' = [pc EXCEPT ![p] = "asleep"]
  /\ UNCHANGED <<messages, closed, stats, expiry, notifyOne, notifyAll, env, delivered>>

\* A waiter that was notified finds the predicate false and waits again.
SleepAgain(p) ==
  /\ pc[p] = "woken"
  /\ PrepareToSleep(p)

\* Variant: a wait without a predicate, so a stolen slot goes unnoticed.
TakeRoomUnchecked(p) ==
  /\ pc[p] \in {"asleep", "woken"} /\ MutexFree
  /\ ~closed
  /\ Push(p, messages, stats)

\* A waiter holds the mutex again: notified, or (asleep or woken) timed out.
TakeRoom(p) ==
  /\ pc[p] \in {"asleep", "woken"} /\ MutexFree
  /\ ~closed /\ HasRoom
  /\ Push(p, messages, stats)

\* Variants: a fallback that is not counted; a wait without a timeout.
FallBackUncounted(p) ==
  /\ \/ pc[p] \in {"asleep", "woken"}
     \/ pc[p] = "stamped" /\ Full /\ Policy = "BLOCK" /\ closed
  /\ MutexFree
  /\ closed \/ ~HasRoom
  /\ PushOverOldest(p, stats)

FallBackWhenClosed(p) ==
  /\ \/ pc[p] \in {"asleep", "woken"}
     \/ pc[p] = "stamped" /\ Full /\ Policy = "BLOCK"
  /\ MutexFree
  /\ closed
  /\ PushOverOldest(p, [stats EXCEPT !.block_timeouts = @ + 1])

\* !got_space || closed_: a timeout, or close(); fall back to drop oldest.
FallBack(p) ==
  /\ \/ pc[p] \in {"asleep", "woken"}
     \/ pc[p] = "stamped" /\ Full /\ Policy = "BLOCK" /\ closed
  /\ MutexFree
  /\ closed \/ ~HasRoom
  /\ PushOverOldest(p, [stats EXCEPT !.block_timeouts = @ + 1])

\* cv_.notify_one() after the unlock, then return ENQUEUED.
Signal(p) ==
  /\ pc[p] = "signal"
  /\ pc' \in WakeOne([pc EXCEPT ![p] = "idle"])
  /\ UNCHANGED <<messages, closed, stats, expiry, notifyOne, notifyAll, env, delivered>>

-----------------------------------------------------------------------------
(* dequeue(), reapExpired(), close() *)

\* Everything queued had expired: nullopt, and nobody is notified.
DequeueNothing ==
  /\ MutexFree /\ ~notifyOne
  /\ ExpiredPrefix(Len(messages))
  /\ messages' = <<>>
  /\ stats' = [stats EXCEPT !.dropped_ttl = @ + Len(messages)]
  /\ UNCHANGED <<closed, pc, expiry, notifyOne, notifyAll, env, delivered>>

DequeueUnchecked ==
  /\ MutexFree /\ ~notifyOne
  /\ messages # <<>>
  /\ messages' = Without(1)
  /\ delivered' = Append(delivered, messages[1].ticket)
  /\ stats' = [stats EXCEPT !.total_delivered = @ + 1]
  /\ notifyOne' = (Policy = "BLOCK")
  /\ UNCHANGED <<closed, pc, expiry, notifyAll, env>>

DequeueSilently ==
  /\ MutexFree /\ ~notifyOne
  /\ \E n \in 0..(Len(messages) - 1) :
       /\ ExpiredPrefix(n)
       /\ messages' = Without(n + 1)
       /\ delivered' = Append(delivered, messages[n + 1].ticket)
       /\ stats' = [stats EXCEPT !.dropped_ttl = @ + n, !.total_delivered = @ + 1]
  /\ UNCHANGED <<closed, pc, expiry, notifyOne, notifyAll, env>>

DequeueMessage ==
  /\ MutexFree /\ ~notifyOne
  /\ \E n \in 0..(Len(messages) - 1) :
       /\ ExpiredPrefix(n)
       /\ messages' = Without(n + 1)
       /\ delivered' = Append(delivered, messages[n + 1].ticket)
       /\ stats' = [stats EXCEPT !.dropped_ttl = @ + n, !.total_delivered = @ + 1]
  /\ notifyOne' = (Policy = "BLOCK")
  /\ UNCHANGED <<closed, pc, expiry, notifyAll, env>>

DequeueNotify ==
  /\ notifyOne
  /\ notifyOne' = FALSE
  /\ pc' \in WakeOne(pc)
  /\ UNCHANGED <<messages, closed, stats, expiry, notifyAll, env, delivered>>

ReapExpired ==
  /\ MutexFree /\ "reaper" \notin notifyAll
  /\ \E n \in 0..Len(messages) :
       /\ ExpiredPrefix(n)
       /\ messages' = Without(n)
       /\ stats' = [stats EXCEPT !.dropped_ttl = @ + n]
       /\ notifyAll' = IF n > 0 /\ Policy = "BLOCK" THEN notifyAll \cup {"reaper"} ELSE notifyAll
  /\ UNCHANGED <<closed, pc, expiry, notifyOne, env, delivered>>

Close ==
  /\ ~closed
  /\ closed' = TRUE
  /\ notifyAll' = notifyAll \cup {"closer"}
  /\ UNCHANGED <<messages, stats, pc, expiry, notifyOne, env, delivered>>

NotifyAll(t) ==
  /\ t \in notifyAll
  /\ notifyAll' = notifyAll \ {t}
  /\ pc' = WakeAll(pc)
  /\ UNCHANGED <<messages, closed, stats, expiry, notifyOne, env, delivered>>

Tick ==
  /\ clock < MaxTime
  /\ clock' = clock + 1
  /\ UNCHANGED <<messages, closed, stats, pc, expiry, notifyOne, notifyAll, attempts, refused, delivered>>

-----------------------------------------------------------------------------
\* What a producer inside enqueue() does next.
EnqueueStep(p) ==
  \/ EnqueueWithRoom(p)
  \/ EnqueueDropOldest(p)
  \/ EnqueueDropNewest(p)
  \/ EnqueueBlock(p)
  \/ Sleep(p)
  \/ SleepAgain(p)
  \/ TakeRoom(p)
  \/ FallBack(p)
  \/ Signal(p)

Next ==
  \/ \E p \in Producers : EnqueueRefused(p)
  \/ \E p \in Producers, ttl \in Ttls : EnqueueStamp(p, ttl)
  \/ \E p \in Producers : EnqueueStep(p)
  \/ DequeueNothing
  \/ DequeueMessage
  \/ DequeueNotify
  \/ ReapExpired
  \/ Close
  \/ \E t \in {"reaper", "closer"} : NotifyAll(t)
  \/ Tick

Spec == Init /\ [][Next]_vars

(***************************************************************************)
(* A publisher inside enqueue() keeps running: the mutex is held for short *)
(* sections only, and wait_for returns at its deadline even when nobody    *)
(* notifies.  Nothing is assumed of the writer, the reaper, the closer or  *)
(* of callers starting new calls.                                          *)
(***************************************************************************)
FairSpec ==
  /\ Spec
  /\ \A p \in Producers :
       /\ WF_vars(EnqueueStep(p))
       /\ WF_vars(TakeRoom(p) \/ FallBack(p))

-----------------------------------------------------------------------------
\* The type of every variable of the queue.
TypeOK ==
  /\ messages \in Seq(Message)
  /\ closed \in BOOLEAN
  /\ stats \in Stats
  /\ pc \in [Producers -> Steps]
  /\ expiry \in [Producers -> Expiries]
  /\ notifyOne \in BOOLEAN
  /\ notifyAll \in SUBSET {"reaper", "closer"}
  /\ clock \in Nat
  /\ attempts \in Nat
  /\ refused \in Nat
  /\ delivered \in Seq(Nat)

\* Every message ever pushed is still queued or is counted under exactly one of
\* delivered, evicted as the oldest, or expired: what getStats() reports adds up
\* whatever the interleaving of enqueue(), dequeue() and reapExpired().
Conservation ==
  stats.total_enqueued
    = Len(messages) + stats.total_delivered + stats.dropped_oldest + stats.dropped_ttl

\* A limited queue never holds more than limit_ messages, although a BLOCKed
\* publisher gives the mutex up while it waits and pushes after a timeout or a
\* close(), and the high watermark never reports more than the limit either.
CapacityBound ==
  Limit > 0 => Len(messages) <= Limit /\ stats.high_watermark <= Limit

\* Every call of enqueue() is accounted for: pushed, rejected as the newest,
\* answered DROPPED_DISCONNECTED, or still inside the call.
AttemptsAccounted ==
  attempts = stats.total_enqueued + stats.dropped_newest + refused + Cardinality(InFlight)

\* A message leaves an unlimited queue, or one that drops the newest, only by
\* delivery or expiry; under BLOCK every eviction is the fallback of a wait
\* that ended without room.
EvictionsJustified ==
  /\ Limit = 0 \/ Policy = "DROP_NEWEST" => stats.dropped_oldest = 0
  /\ Policy = "BLOCK" => stats.dropped_oldest <= stats.block_timeouts

\* A producer asleep while an open queue has room has a wake-up on the way:
\* some thread still has to notify, or a notified producer has not run yet
\* (and will notify the next one when it has pushed).
NoLostWakeup ==
  Asleep(pc) # {} /\ HasRoom /\ ~closed =>
    \/ notifyOne
    \/ notifyAll # {}
    \/ \E p \in Producers : pc[p] \in {"woken", "signal"}

\* dequeue() never hands out a message whose time to live is over, even one
\* that expired while its publisher was blocked or while it waited in the queue.
NoExpiredDelivery ==
  [][\A m \in {messages[i] : i \in DOMAIN messages} :
       delivered' = Append(delivered, m.ticket) => ~Expired(m)]_vars

\* Every call of enqueue() returns, even when nothing is ever dequeued again
\* and a notification is lost: the wait of the BLOCK policy is bounded.
EveryEnqueueReturns ==
  \A p \in Producers : pc[p] # "idle" ~> pc[p] = "idle"

\* reapExpired() is documented to "Remove expired messages from queue": no
\* message that has expired is left in the queue when it returns.
ReapRemovesExpired ==
  [][ReapExpired => \A i \in DOMAIN messages' : ~Expired(messages'[i])]_vars

\* The unit test ConcurrentProducerConsumer asserts, once its producer is done,
\* that pushed, evicted and rejected messages add up to the calls of enqueue().
TestedAccounting ==
  InFlight = {} =>
    stats.total_enqueued + stats.dropped_oldest + stats.dropped_newest + refused = attempts

-----------------------------------------------------------------------------
(* The inductive invariant behind Conservation, CapacityBound, *)
(* EvictionsJustified and DeliveryInOrder.                     *)

\* The queue holds the latest pushes, in order: only the front is ever removed.
QueueIsSuffix ==
  \A i \in DOMAIN messages : messages[i].ticket = stats.total_enqueued - Len(messages) + i

\* Whatever was delivered was pushed before everything still queued.
DeliveredBeforeQueued ==
  /\ \A i \in DOMAIN delivered : delivered[i] <= stats.total_enqueued - Len(messages)
  /\ \A i, j \in DOMAIN delivered : i < j => delivered[i] < delivered[j]

\* Only a limited queue with the BLOCK policy makes a producer wait.
WaitersBlock ==
  \A p \in Producers :
    pc[p] \in {"presleep", "asleep", "woken"} => Limit > 0 /\ Policy = "BLOCK"

QueueInv ==
  /\ TypeOK
  /\ Conservation
  /\ CapacityBound
  /\ EvictionsJustified
  /\ QueueIsSuffix
  /\ DeliveredBeforeQueued
  /\ WaitersBlock

-----------------------------------------------------------------------------
\* The queue implements the lossy FIFO channel of SubscriberChannel.
Tickets == [i \in DOMAIN messages |-> messages[i].ticket]

Channel == INSTANCE SubscriberChannel
             WITH pending <- Tickets, accepted <- stats.total_enqueued

ChannelSpec == Channel!Spec

\* What dequeue() has returned, followed by what is still queued, is in the
\* order of the pushes and has no message twice.
DeliveryInOrder == Channel!InOrder
=============================================================================
