--------------------------- MODULE TopicMessageBuffer ---------------------------
(***************************************************************************)
(* The replay buffer of include/nexusd/core/topic_message_buffer.hpp and   *)
(* src/core/topic_message_buffer.cpp: one ring of messages per topic with  *)
(* its own sequence numbers (TopicBuffers), and one memory limit across    *)
(* all topics.                                                             *)
(* Every operation runs under one mutex, so each is one action.            *)
(*                                                                         *)
(* A payload is its size and the number of the call that stored it.  The   *)
(* order in which the loop of evictForSpace() meets the topics is that of  *)
(* an unordered_map, which nothing specifies: any order may happen.        *)
(***************************************************************************)
EXTENDS TopicBuffers, FiniteSetsExt, Functions

CONSTANTS
  Topics,
  Sizes,        \* the payload sizes publishers use
  MaxBytes,     \* max_total_memory_bytes_ (0 = unlimited)
  Word,         \* the number of values of size_t
  MaxMessages   \* bound: calls of bufferMessage()

\* A ring of size 0 would make push() read the front of an empty deque.
ASSUME BufferAssumption ==
  /\ Sizes \subseteq Nat
  /\ PerTopic \in Nat \ {0}
  /\ MaxBytes \in Nat
  /\ Word \in Nat /\ MaxBytes < Word /\ \A s \in Sizes : s + MaxBytes < Word
  /\ MaxMessages \in Nat

VARIABLES
  total,      \* current_total_bytes_
  returned,   \* what the last bufferMessage() returned
  calls,      \* history: calls of bufferMessage()
  history,    \* history: the payloads stored in a topic's present buffer
  assigned    \* history: the sequence numbers ever given out for a topic

vars == <<buffers, total, returned, calls, history, assigned>>

Init ==
  /\ buffers = << >>
  /\ total = 0
  /\ returned = 0
  /\ calls = 0
  /\ history = [t \in Topics |-> <<>>]
  /\ assigned = [t \in Topics |-> <<>>]

-----------------------------------------------------------------------------
(* bufferMessage() *)

BytesOf(ts) == MapThenSumSet(LAMBDA t : buffers[t].bytes, ts)

\* Variant: the new payload is left out of the test.
OverLimitBefore(size) == MaxBytes > 0 /\ total > MaxBytes

OverLimit(size) == MaxBytes > 0 /\ total + size > MaxBytes

\* Variant: signed arithmetic.
TargetSigned(size) == MaxBytes - size

\* size_t arithmetic: a payload larger than the limit wraps around.
Target(size) == (MaxBytes - size) % Word

\* The sets of topics the loop of evictForSpace() may erase: it stops as soon as
\* it is at the target, or when no topic is left.
EvictionsFor(size) ==
  {E \in SUBSET DOMAIN buffers :
     /\ total - BytesOf(E) <= Target(size) \/ E = DOMAIN buffers
     /\ E = {} \/ \E last \in E : total - BytesOf(E \ {last}) > Target(size)}

Fits(size, E) == total - BytesOf(E) + size <= MaxBytes

Without(E) == Restrict(buffers, DOMAIN buffers \ E)

Forget(E) == [t \in Topics |-> IF t \in E THEN <<>> ELSE history[t]]

Store(t, size, E) ==
  LET b   == IF t \in DOMAIN Without(E) THEN Without(E)[t] ELSE NewBuffer
      new == Pushed(b, size, calls)
  IN  /\ buffers' = [u \in DOMAIN Without(E) \cup {t} |-> IF u = t THEN new ELSE Without(E)[u]]
      /\ total' = total - BytesOf(E) - b.bytes + new.bytes
      /\ returned' = b.next
      /\ history' = [Forget(E) EXCEPT ![t] = Append(@, calls)]
      /\ assigned' = [assigned EXCEPT ![t] = Append(@, b.next)]

BufferWithRoom(t, size) ==
  /\ ~OverLimit(size)
  /\ Store(t, size, {})

BufferAfterEviction(t, size) ==
  /\ OverLimit(size)
  /\ \E E \in EvictionsFor(size) : Fits(size, E) /\ Store(t, size, E)

\* Not even an empty buffer has room: 0, with whatever the loop erased gone.
BufferRefused(t, size) ==
  /\ OverLimit(size)
  /\ \E E \in EvictionsFor(size) :
       /\ ~Fits(size, E)
       /\ buffers' = Without(E)
       /\ total' = total - BytesOf(E)
       /\ history' = Forget(E)
  /\ returned' = 0
  /\ UNCHANGED assigned

BufferMessage(t, size) ==
  /\ calls < MaxMessages
  /\ calls' = calls + 1
  /\ \/ BufferWithRoom(t, size)
     \/ BufferAfterEviction(t, size)
     \/ BufferRefused(t, size)

-----------------------------------------------------------------------------
(* clear() and clearTopic(), which only the tests call *)

Clear ==
  /\ buffers # << >>
  /\ buffers' = << >>
  /\ total' = 0
  /\ history' = Forget(Topics)
  /\ UNCHANGED <<returned, calls, assigned>>

ClearTopic(t) ==
  /\ t \in DOMAIN buffers
  /\ buffers' = Without({t})
  /\ total' = total - buffers[t].bytes
  /\ history' = Forget({t})
  /\ UNCHANGED <<returned, calls, assigned>>

-----------------------------------------------------------------------------
\* What the daemon does: only deliverFromRemote() changes the buffer.
DaemonNext == \E t \in Topics, size \in Sizes : BufferMessage(t, size)

Next ==
  \/ DaemonNext
  \/ Clear
  \/ \E t \in Topics : ClearTopic(t)

DaemonSpec == Init /\ [][DaemonNext]_vars

Spec == Init /\ [][Next]_vars

-----------------------------------------------------------------------------
\* The type of every variable; no byte count ever wraps below zero.
TypeOK ==
  /\ DOMAIN buffers \subseteq Topics
  /\ \A t \in DOMAIN buffers : buffers[t] \in TopicBuffer /\ buffers[t].bytes \in Nat
  /\ total \in Nat
  /\ returned \in Nat
  /\ calls \in 0..MaxMessages
  /\ history \in [Topics -> Seq(Nat)]
  /\ assigned \in [Topics -> Seq(Nat)]

\* The global byte count that bufferMessage() keeps by differences is the size of
\* what is buffered, through ring evictions, topic evictions and clears.
BytesExact ==
  /\ total = BytesOf(DOMAIN buffers)
  /\ \A t \in DOMAIN buffers :
       buffers[t].bytes
         = MapThenSumSet(LAMBDA i : buffers[t].messages[i].size, DOMAIN buffers[t].messages)

\* The memory limit is kept after every call of bufferMessage().
MemoryBound == MaxBytes > 0 => total <= MaxBytes

Payloads(ms) == [i \in DOMAIN ms |-> ms[i].payload]

Last(s) == s[Len(s)]

\* What a subscriber that has seen everything up to a sequence number of the
\* present buffer is sent on resume is exactly what was stored since, in order,
\* except for the messages that are reported as missed; a missing message is
\* always reported as a gap, and only a full ring may have lost one.  A
\* subscriber that has seen nothing is sent the latest message, the retained one.
ReplayExact ==
  \A t \in DOMAIN buffers :
    /\ Payloads(MessagesForReplay(t, 0).messages) = <<Last(history[t])>>
    /\ RetainedMessage(t) = MessagesForReplay(t, 0).messages
    /\ \A after \in 1..Len(history[t]) :
         LET r == MessagesForReplay(t, after) IN
         /\ Payloads(r.messages)
              = SubSeq(history[t], after + r.missed + 1, Len(history[t]))
         /\ r.missed > 0 => r.gap /\ Len(r.messages) = PerTopic

\* out_gap_detected is documented as "Set to true if there's a gap (missed
\* messages)": a replay that returns everything reports no gap.
GapOnlyIfMissed ==
  \A t \in DOMAIN buffers :
    \A after \in 1..Len(history[t]) :
      LET r == MessagesForReplay(t, after) IN r.gap => r.missed > 0

\* bufferMessage() refuses a payload only if it alone exceeds the limit, and then
\* erases no topic: the wrapped target keeps the eviction loop from starting.
RefusesOnlyTooLarge ==
  [][\A t \in Topics, size \in Sizes :
       BufferMessage(t, size) =>
         /\ (returned' = 0) <=> (MaxBytes > 0 /\ size > MaxBytes)
         /\ returned' = 0 => UNCHANGED <<buffers, total>>]_vars

Increasing(s) == \A i, j \in DOMAIN s : i < j => s[i] < s[j]

\* A sequence number is documented as "Monotonically increasing per-topic
\* sequence": no topic is given the same or a smaller number again.
SequencesMonotonic == \A t \in Topics : Increasing(assigned[t])

Held(bs) == UNION {{bs[t].messages[i].payload : i \in DOMAIN bs[t].messages} : t \in DOMAIN bs}

\* evictForSpace() is documented to "Evict oldest messages to make room (LRU
\* across topics)": when it erases topics, all it erases is older than what stays.
EvictsOldestFirst ==
  [][\A t \in Topics, size \in Sizes :
       calls' # calls /\ OverLimit(size) /\ BufferAfterEviction(t, size) =>
         \A gone \in Held(buffers) \ Held(buffers'), kept \in Held(buffers) \cap Held(buffers') :
           gone < kept]_vars

\* isSequenceAvailable() is documented to return "true if the sequence can be
\* replayed": some request for a replay would return that message.
AvailableCanBeReplayed ==
  \A t \in DOMAIN buffers :
    \A seq \in 1..CurrentSequence(buffers[t]) :
      IsSequenceAvailable(t, seq) =>
        \E after \in 0..CurrentSequence(buffers[t]) :
          LET r == MessagesForReplay(t, after).messages
          IN  \E i \in DOMAIN r : r[i].seq = seq
=============================================================================
