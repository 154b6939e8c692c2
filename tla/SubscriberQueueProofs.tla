------------------------- MODULE SubscriberQueueProofs -------------------------
(***************************************************************************)
(* Proofs about SubscriberQueue for every set of producers, every limit,   *)
(* policy and time to live, and without the bounds of the TLC instances    *)
(* mattering: QueueInv is inductive, and each property below follows from  *)
(* it.                                                                     *)
(***************************************************************************)
EXTENDS SubscriberQueue, SequenceTheorems, TLAPS

\* Steps that need arithmetic cite SMT.
USE Zenon

\* The sum of getStats() when j messages leave the queue and one enters it.
LEMMA CountsAddUp ==
  ASSUME NEW t \in Nat, NEW n \in Nat, NEW d \in Nat, NEW o \in Nat, NEW x \in Nat,
         NEW j \in Nat, t = n + d + o + x
  PROVE  t + 1 = (n - j + 1) + d + (o + j) + x
BY SMT

\* The same when j messages leave it, delivered or expired.
LEMMA RemovalsAddUp ==
  ASSUME NEW t \in Nat, NEW n \in Nat, NEW d \in Nat, NEW o \in Nat, NEW x \in Nat,
         NEW dd \in Nat, NEW xx \in Nat, NEW j \in Nat,
         t = n + d + o + x, dd + xx = d + x + j
  PROVE  t = (n - j) + dd + o + xx
BY SMT

\* What is left of the queue when its first k messages are gone.
LEMMA WithoutProperties ==
  ASSUME messages \in Seq(Message), NEW k \in 0..Len(messages)
  PROVE  /\ Without(k) \in Seq(Message)
         /\ Len(Without(k)) = Len(messages) - k
         /\ \A i \in 1..(Len(messages) - k) : Without(k)[i] = messages[k + i]
<1>1. \A i \in (k + 1)..Len(messages) : messages[i] \in Message
  BY SMT, ElementOfSeq
<1>2. Len(messages) \in Nat
  BY LenProperties
<1>3. /\ SubSeq(messages, k + 1, Len(messages)) \in Seq(Message)
      /\ Len(SubSeq(messages, k + 1, Len(messages)))
           = IF k + 1 <= Len(messages) THEN Len(messages) - (k + 1) + 1 ELSE 0
      /\ \A i \in 1..(Len(messages) - (k + 1) + 1) :
           SubSeq(messages, k + 1, Len(messages))[i] = messages[(k + 1) + i - 1]
  <2> DEFINE m == k + 1
             n == Len(messages)
  <2>1. m \in Int /\ n \in Int /\ \A i \in m..n : messages[i] \in Message
    BY SMT, <1>1, <1>2
  <2> HIDE DEF m, n
  <2>2. /\ SubSeq(messages, m, n) \in Seq(Message)
        /\ Len(SubSeq(messages, m, n)) = IF m <= n THEN n - m + 1 ELSE 0
        /\ \A i \in 1..(n - m + 1) : SubSeq(messages, m, n)[i] = messages[m + i - 1]
    BY SMT, <2>1, SubSeqProperties
  <2> QED BY <2>2 DEF m, n
<1> QED BY SMT, <1>2, <1>3 DEF Without

\* Taking nothing away, or the front, written as Without.
LEMMA KeptIsWithout ==
  ASSUME messages \in Seq(Message)
  PROVE  /\ messages = Without(0)
         /\ messages # <<>> => Tail(messages) = Without(1) /\ 1 <= Len(messages)
<1>1. SubSeq(messages, 1, Len(messages)) = messages
  BY SubSeqFull
<1>2. messages # <<>> => Tail(messages) = SubSeq(messages, 2, Len(messages))
  BY TailIsSubSeq
<1>3. messages # <<>> => Len(messages) \in Nat \ {0}
  BY EmptySeq
<1> QED BY SMT, <1>1, <1>2, <1>3 DEF Without

\* The ticket of the message at a place does not change when k messages leave
\* the front and one is pushed behind.
LEMMA TicketsShift ==
  ASSUME NEW t \in Nat, NEW n \in Nat, NEW k \in Nat
  PROVE  /\ (t + 1) - (n - k + 1) = t - n + k
         /\ t - n <= t - n + k
         /\ \A i \in Nat : t - n + (k + i) = (t + 1) - (n - k + 1) + i
BY SMT

\* Counting a push changes total_enqueued only.
LEMMA EnqueuedCounted ==
  ASSUME NEW st \in Stats
  PROVE  LET counted == [st EXCEPT !.total_enqueued = st.total_enqueued + 1]
         IN  /\ counted \in Stats
             /\ counted.total_enqueued = st.total_enqueued + 1
             /\ counted.total_delivered = st.total_delivered
             /\ counted.dropped_oldest = st.dropped_oldest
             /\ counted.dropped_ttl = st.dropped_ttl
             /\ counted.block_timeouts = st.block_timeouts
             /\ counted.high_watermark = st.high_watermark
BY SMT DEF Stats

-----------------------------------------------------------------------------
\* Pushing behind the messages that k evictions leave keeps the invariant,
\* provided the evictions are counted and there is room for the new message.
LEMMA PushKeepsInv ==
  ASSUME QueueInv,
         NEW p \in Producers,
         NEW k \in {0, 1}, k <= Len(messages),
         NEW st \in Stats,
         st.total_enqueued = stats.total_enqueued,
         st.total_delivered = stats.total_delivered,
         st.dropped_ttl = stats.dropped_ttl,
         st.high_watermark = stats.high_watermark,
         st.dropped_oldest = stats.dropped_oldest + k,
         k = 1 => Limit > 0 /\ Policy # "DROP_NEWEST",
         Policy = "BLOCK" => st.dropped_oldest <= st.block_timeouts,
         Limit > 0 => Len(messages) - k + 1 <= Limit,
         Push(p, Without(k), st)
  PROVE  QueueInv'
<1> DEFINE kept == Without(k)
           new == [ticket |-> st.total_enqueued + 1, expiry |-> expiry[p]]
<1>1. TypeOK /\ QueueAssumption
  BY QueueAssumption DEF QueueInv
<1>2. Len(messages) \in Nat /\ DOMAIN messages = 1..Len(messages)
  BY <1>1, LenProperties DEF TypeOK
<1>3. /\ kept \in Seq(Message)
      /\ Len(kept) = Len(messages) - k
      /\ \A i \in 1..(Len(messages) - k) : kept[i] = messages[k + i]
  <2>1. messages \in Seq(Message) /\ k \in 0..Len(messages)
    BY SMT, <1>1, <1>2 DEF TypeOK
  <2> QED BY <2>1, WithoutProperties DEF kept
<1>4. new \in Message
  <2>1. st.total_enqueued + 1 \in Nat
    BY SMT DEF Stats
  <2>2. expiry[p] \in Expiries
    BY <1>1 DEF TypeOK
  <2> QED BY <2>1, <2>2 DEF Message
<1> HIDE DEF kept, new
<1>5. messages' = Append(kept, new)
  BY DEF Push, kept, new
<1>6. /\ messages' \in Seq(Message)
      /\ Len(messages') = Len(messages) - k + 1
      /\ DOMAIN messages' = 1..(Len(messages) - k + 1)
      /\ \A i \in 1..(Len(messages) - k) : messages'[i] = messages[k + i]
      /\ messages'[Len(messages) - k + 1] = new
  <2>1. /\ Append(kept, new) \in Seq(Message)
        /\ Len(Append(kept, new)) = Len(kept) + 1
        /\ \A i \in 1..Len(kept) : Append(kept, new)[i] = kept[i]
        /\ Append(kept, new)[Len(kept) + 1] = new
    BY SMT, <1>3, <1>4, AppendProperties
  <2>2. DOMAIN messages' = 1..Len(messages')
    BY <1>5, <2>1, LenProperties
  <2> QED BY <1>3, <1>5, <2>1, <2>2
<1>7. /\ stats' \in Stats
      /\ stats'.total_enqueued = stats.total_enqueued + 1
      /\ stats'.total_delivered = stats.total_delivered
      /\ stats'.dropped_oldest = stats.dropped_oldest + k
      /\ stats'.dropped_ttl = stats.dropped_ttl
      /\ stats'.block_timeouts = st.block_timeouts
      /\ \/ stats'.high_watermark = stats.high_watermark
         \/ stats'.high_watermark = Len(messages) - k + 1
  <2> DEFINE counted == [st EXCEPT !.total_enqueued = st.total_enqueued + 1]
             mark == IF Len(kept) + 1 > st.high_watermark THEN Len(kept) + 1
                     ELSE st.high_watermark
  <2>1. /\ counted \in Stats
        /\ counted.total_enqueued = stats.total_enqueued + 1
        /\ counted.total_delivered = stats.total_delivered
        /\ counted.dropped_oldest = stats.dropped_oldest + k
        /\ counted.dropped_ttl = stats.dropped_ttl
        /\ counted.block_timeouts = st.block_timeouts
        /\ counted.high_watermark = st.high_watermark
    <3>1. /\ counted \in Stats
          /\ counted.total_enqueued = st.total_enqueued + 1
          /\ counted.total_delivered = st.total_delivered
          /\ counted.dropped_oldest = st.dropped_oldest
          /\ counted.dropped_ttl = st.dropped_ttl
          /\ counted.block_timeouts = st.block_timeouts
          /\ counted.high_watermark = st.high_watermark
      BY EnqueuedCounted
    <3> HIDE DEF counted
    <3> QED BY <3>1
  <2>2. mark \in Nat /\ (mark = st.high_watermark \/ mark = Len(messages) - k + 1)
    BY SMT, <1>2, <1>3 DEF Stats
  <2>3. stats' = [counted EXCEPT !.high_watermark = mark]
    BY <2>1 DEF Push, kept
  <2> HIDE DEF counted, mark
  <2> QED BY <2>1, <2>2, <2>3 DEF Stats
<1>8. /\ pc' = [pc EXCEPT ![p] = "signal"]
      /\ UNCHANGED <<closed, expiry, notifyOne, notifyAll, clock, attempts, refused, delivered>>
  BY DEF Push, env
<1>9. TypeOK'
  BY <1>1, <1>6, <1>7, <1>8 DEF TypeOK, Steps
<1>10. /\ stats.total_enqueued \in Nat /\ stats.total_delivered \in Nat
       /\ stats.dropped_oldest \in Nat /\ stats.dropped_ttl \in Nat
       /\ stats.block_timeouts \in Nat /\ stats.high_watermark \in Nat
       /\ st.block_timeouts \in Nat /\ Limit \in Nat
  BY <1>1 DEF TypeOK, Stats, QueueAssumption
<1>11. Conservation'
  <2>1. Conservation
    BY DEF QueueInv
  <2>2. /\ Len(messages') = Len(messages) - k + 1
        /\ stats'.total_enqueued = stats.total_enqueued + 1
        /\ stats'.total_delivered = stats.total_delivered
        /\ stats'.dropped_oldest = stats.dropped_oldest + k
        /\ stats'.dropped_ttl = stats.dropped_ttl
    BY <1>6, <1>7
  <2>3. k \in Int /\ Len(messages) \in Int
    BY SMT, <1>2
  <2>4. stats.total_enqueued + 1 = (Len(messages) - k + 1) + stats.total_delivered
                                   + (stats.dropped_oldest + k) + stats.dropped_ttl
    <3> DEFINE t == stats.total_enqueued
               n == Len(messages)
               d == stats.total_delivered
               o == stats.dropped_oldest
               x == stats.dropped_ttl
    <3>1. t = n + d + o + x
      BY <2>1 DEF Conservation
    <3>2. t \in Nat /\ n \in Nat /\ d \in Nat /\ o \in Nat /\ x \in Nat
      BY <1>2, <1>10
    <3>3. k \in Nat
      BY SMT
    <3> HIDE DEF t, n, d, o, x
    <3>4. t + 1 = (n - k + 1) + d + (o + k) + x
      BY SMT, <3>1, <3>2, <3>3, CountsAddUp
    <3> QED BY <3>4 DEF t, n, d, o, x
  <2> QED BY <2>2, <2>4 DEF Conservation
<1>12. CapacityBound'
  <2>1. CapacityBound
    BY DEF QueueInv
  <2> SUFFICES ASSUME Limit > 0
               PROVE  Len(messages') <= Limit /\ stats'.high_watermark <= Limit
    BY DEF CapacityBound
  <2>2. Len(messages') <= Limit
    BY <1>6
  <2>3. stats.high_watermark <= Limit
    BY <2>1 DEF CapacityBound
  <2> QED BY <1>6, <1>7, <2>2, <2>3
<1>13. EvictionsJustified'
  <2>1. EvictionsJustified
    BY DEF QueueInv
  <2> QED BY SMT, <1>7, <1>10, <2>1 DEF EvictionsJustified
<1>14. QueueIsSuffix'
  <2> SUFFICES ASSUME NEW i \in 1..(Len(messages) - k + 1)
               PROVE  messages'[i].ticket
                        = (stats.total_enqueued + 1) - (Len(messages) - k + 1) + i
    BY <1>6, <1>7 DEF QueueIsSuffix
  <2>1. CASE i \in 1..(Len(messages) - k)
    <3>1. k + i \in DOMAIN messages
      BY SMT, <1>2, <2>1
    <3>2. messages[k + i].ticket = stats.total_enqueued - Len(messages) + (k + i)
      BY <3>1 DEF QueueInv, QueueIsSuffix
    <3>3. messages'[i] = messages[k + i]
      BY <1>6, <2>1
    <3>4. i \in Nat /\ k \in Nat
      BY SMT, <1>2, <2>1
    <3> DEFINE t == stats.total_enqueued
               n == Len(messages)
    <3>5. t \in Nat /\ n \in Nat
      BY <1>2, <1>10
    <3> HIDE DEF t, n
    <3>6. t - n + (k + i) = (t + 1) - (n - k + 1) + i
      BY SMT, <3>4, <3>5, TicketsShift
    <3> QED BY <3>2, <3>3, <3>6 DEF t, n
  <2>2. CASE i = Len(messages) - k + 1
    <3>1. messages'[i].ticket = stats.total_enqueued + 1
      BY SMT, <1>6, <2>2 DEF new
    <3> QED BY SMT, <1>2, <1>10, <2>2, <3>1
  <2> QED BY SMT, <1>2, <2>1, <2>2
<1>15. DeliveredBeforeQueued'
  <2>1. \A i \in DOMAIN delivered : delivered[i] \in Nat
    BY <1>1, ElementOfSeq, LenProperties DEF TypeOK
  <2>2. stats'.total_enqueued - Len(messages') = stats.total_enqueued - Len(messages) + k
    <3> DEFINE t == stats.total_enqueued
               n == Len(messages)
    <3>1. t \in Nat /\ n \in Nat /\ k \in Nat
      BY SMT, <1>2, <1>10
    <3>2. stats'.total_enqueued = t + 1 /\ Len(messages') = n - k + 1
      BY <1>6, <1>7
    <3> HIDE DEF t, n
    <3>3. (t + 1) - (n - k + 1) = t - n + k
      BY SMT, <3>1, TicketsShift
    <3>4. stats'.total_enqueued - Len(messages') = (t + 1) - (n - k + 1)
      BY <3>2
    <3>5. stats'.total_enqueued - Len(messages') = t - n + k
      BY <3>3, <3>4
    <3> QED BY <3>5 DEF t, n
  <2>3. delivered' = delivered /\ DeliveredBeforeQueued
    BY <1>8 DEF QueueInv
  <2>4. \A i \in DOMAIN delivered : delivered[i] <= stats.total_enqueued - Len(messages) + k
    <3> DEFINE b == stats.total_enqueued - Len(messages)
    <3>1. b \in Int /\ k \in Nat
      BY SMT, <1>2, <1>10
    <3>2. \A i \in DOMAIN delivered : delivered[i] <= b
      BY <2>3 DEF DeliveredBeforeQueued
    <3> HIDE DEF b
    <3>3. \A i \in DOMAIN delivered : delivered[i] <= b + k
      BY SMT, <2>1, <3>1, <3>2
    <3> QED BY <3>3 DEF b
  <2>5. \A i \in DOMAIN delivered' : delivered'[i] <= stats'.total_enqueued - Len(messages')
    BY <2>2, <2>3, <2>4
  <2> QED BY <2>3, <2>5 DEF DeliveredBeforeQueued
<1>16. WaitersBlock'
  BY <1>1, <1>8 DEF WaitersBlock, QueueInv, TypeOK
<1> QED BY <1>9, <1>11, <1>12, <1>13, <1>14, <1>15, <1>16 DEF QueueInv

\* A step that removes the first k messages, as deliveries or expiries; when one
\* of them is delivered it is the last of the k.
Removes(k) ==
  /\ k \in Nat /\ k <= Len(messages)
  /\ messages' = Without(k)
  /\ stats'.total_enqueued = stats.total_enqueued
  /\ stats'.dropped_oldest = stats.dropped_oldest
  /\ stats'.block_timeouts = stats.block_timeouts
  /\ stats'.high_watermark = stats.high_watermark
  /\ stats'.total_delivered + stats'.dropped_ttl
       = stats.total_delivered + stats.dropped_ttl + k
  /\ \/ delivered' = delivered
     \/ k > 0 /\ delivered' = Append(delivered, messages[k].ticket)
  /\ pc' = pc

\* Such a step keeps the invariant.
LEMMA RemovalKeepsInv ==
  ASSUME QueueInv, TypeOK', NEW k, Removes(k)
  PROVE  QueueInv'
<1>1. /\ Len(messages) \in Nat /\ DOMAIN messages = 1..Len(messages)
      /\ messages \in Seq(Message)
  BY LenProperties DEF QueueInv, TypeOK
<1>2. /\ Len(messages') = Len(messages) - k
      /\ DOMAIN messages' = 1..(Len(messages) - k)
      /\ \A i \in 1..(Len(messages) - k) : messages'[i] = messages[k + i]
  <2>1. messages' = Without(k) /\ k \in 0..Len(messages)
    BY SMT, <1>1 DEF Removes
  <2>2. /\ Without(k) \in Seq(Message)
        /\ Len(Without(k)) = Len(messages) - k
        /\ \A i \in 1..(Len(messages) - k) : Without(k)[i] = messages[k + i]
    BY <1>1, <2>1, WithoutProperties
  <2> QED BY <2>1, <2>2, LenProperties
<1>3. /\ stats.total_enqueued \in Nat /\ stats.total_delivered \in Nat
      /\ stats.dropped_oldest \in Nat /\ stats.dropped_ttl \in Nat
      /\ stats'.total_delivered \in Nat /\ stats'.dropped_ttl \in Nat
      /\ k \in Nat /\ k <= Len(messages)
  BY DEF QueueInv, TypeOK, Stats, Removes
<1>4. Conservation'
  <2> DEFINE t == stats.total_enqueued
             n == Len(messages)
             d == stats.total_delivered
             o == stats.dropped_oldest
             x == stats.dropped_ttl
             dd == stats'.total_delivered
             xx == stats'.dropped_ttl
  <2>1. t = n + d + o + x
    BY DEF QueueInv, Conservation
  <2>2. dd + xx = d + x + k
    BY DEF Removes
  <2>3. /\ t \in Nat /\ n \in Nat /\ d \in Nat /\ o \in Nat /\ x \in Nat
        /\ dd \in Nat /\ xx \in Nat
    BY <1>1, <1>3
  <2> HIDE DEF t, n, d, o, x, dd, xx
  <2>4. t = (n - k) + dd + o + xx
    BY SMT, <1>3, <2>1, <2>2, <2>3, RemovalsAddUp
  <2> QED BY <1>2, <2>4 DEF Conservation, Removes, t, n, o, dd, xx
<1>5. CapacityBound'
  <2>1. CapacityBound /\ Limit \in Nat
    BY QueueAssumption DEF QueueInv, QueueAssumption
  <2>2. stats'.high_watermark = stats.high_watermark
    BY DEF Removes
  <2> QED BY SMT, <1>1, <1>2, <1>3, <2>1, <2>2 DEF CapacityBound
<1>6. EvictionsJustified'
  BY DEF QueueInv, EvictionsJustified, Removes
<1>7. QueueIsSuffix'
  <2> SUFFICES ASSUME NEW i \in 1..(Len(messages) - k)
               PROVE  messages'[i].ticket = stats.total_enqueued - (Len(messages) - k) + i
    BY <1>2 DEF QueueIsSuffix, Removes
  <2>1. k + i \in DOMAIN messages
    BY SMT, <1>1, <1>3
  <2>2. messages[k + i].ticket = stats.total_enqueued - Len(messages) + (k + i)
    BY <2>1 DEF QueueInv, QueueIsSuffix
  <2> QED BY SMT, <1>1, <1>2, <1>3, <2>2
<1>8. DeliveredBeforeQueued'
  <2> DEFINE gone == stats.total_enqueued - Len(messages)
  <2>1. /\ DOMAIN delivered = 1..Len(delivered) /\ Len(delivered) \in Nat
        /\ delivered \in Seq(Nat)
        /\ \A i \in DOMAIN delivered : delivered[i] \in Nat
    BY LenProperties, ElementOfSeq DEF QueueInv, TypeOK
  <2>2. /\ \A i \in DOMAIN delivered : delivered[i] <= gone
        /\ \A i, j \in DOMAIN delivered : i < j => delivered[i] < delivered[j]
    BY DEF QueueInv, DeliveredBeforeQueued
  <2>3. gone \in Int /\ stats'.total_enqueued - Len(messages') = gone + k
    BY SMT, <1>1, <1>2, <1>3 DEF Removes
  <2> HIDE DEF gone
  <2>4. CASE delivered' = delivered
    BY SMT, <1>3, <2>1, <2>2, <2>3, <2>4 DEF DeliveredBeforeQueued
  <2>5. CASE k > 0 /\ delivered' = Append(delivered, messages[k].ticket)
    <3>1. messages[k].ticket = gone + k
      <4>1. k \in DOMAIN messages
        BY SMT, <1>1, <1>3, <2>5
      <4> QED BY <4>1 DEF QueueInv, QueueIsSuffix, gone
    <3>2. gone + k \in Nat
      <4>1. messages[k] \in Message
        BY SMT, <1>1, <1>3, <2>5, ElementOfSeq
      <4> QED BY <3>1, <4>1 DEF Message
    <3> DEFINE m == gone + k
    <3>3. /\ DOMAIN delivered' = 1..(Len(delivered) + 1)
          /\ \A i \in 1..Len(delivered) : delivered'[i] = delivered[i]
          /\ delivered'[Len(delivered) + 1] = m
      BY SMT, <2>1, <2>5, <3>1, <3>2, AppendProperties, LenProperties
    <3>4. \A i \in DOMAIN delivered : delivered[i] < m
      BY SMT, <1>3, <2>1, <2>2, <2>3, <2>5
    <3> HIDE DEF m
    <3>5. \A i \in DOMAIN delivered' : delivered'[i] <= m
      BY SMT, <2>1, <3>2, <3>3, <3>4 DEF m
    <3>6. \A i, j \in DOMAIN delivered' : i < j => delivered'[i] < delivered'[j]
      <4> SUFFICES ASSUME NEW i \in 1..(Len(delivered) + 1),
                          NEW j \in 1..(Len(delivered) + 1), i < j
                   PROVE  delivered'[i] < delivered'[j]
        BY <3>3
      <4>1. i \in 1..Len(delivered)
        BY SMT, <2>1
      <4>2. CASE j = Len(delivered) + 1
        BY <2>1, <3>3, <3>4, <4>1, <4>2
      <4>3. CASE j \in 1..Len(delivered)
        BY <2>1, <2>2, <3>3, <4>1, <4>3
      <4> QED BY SMT, <2>1, <4>2, <4>3
    <3> QED BY <2>3, <3>5, <3>6 DEF DeliveredBeforeQueued, m
  <2> QED BY <2>4, <2>5 DEF Removes
<1>9. WaitersBlock'
  BY DEF QueueInv, WaitersBlock, Removes
<1> QED BY <1>4, <1>5, <1>6, <1>7, <1>8, <1>9 DEF QueueInv

\* A push after the front, if there is one, was evicted keeps the invariant.
LEMMA PushOverOldestKeepsInv ==
  ASSUME QueueInv,
         NEW p \in Producers,
         NEW st \in Stats,
         st.total_enqueued = stats.total_enqueued,
         st.total_delivered = stats.total_delivered,
         st.dropped_ttl = stats.dropped_ttl,
         st.high_watermark = stats.high_watermark,
         st.dropped_oldest = stats.dropped_oldest,
         Limit > 0, Policy # "DROP_NEWEST",
         Policy = "BLOCK" => st.dropped_oldest + 1 <= st.block_timeouts,
         PushOverOldest(p, st)
  PROVE  QueueInv'
<1>1. /\ messages \in Seq(Message) /\ Len(messages) \in Nat
      /\ Limit \in Nat /\ Len(messages) <= Limit
  BY QueueAssumption, LenProperties DEF QueueInv, TypeOK, CapacityBound, QueueAssumption
<1>2. st.dropped_oldest \in Nat /\ st.block_timeouts \in Nat
  BY DEF Stats
<1>3. CASE messages = <<>>
  <2>1. Push(p, Without(0), st)
    BY <1>1, <1>3, KeptIsWithout DEF PushOverOldest
  <2>2. Len(messages) = 0
    BY <1>3
  <2>3. st.dropped_oldest = stats.dropped_oldest + 0
    BY SMT, <1>2
  <2>4. Policy = "BLOCK" => st.dropped_oldest <= st.block_timeouts
    BY SMT, <1>2
  <2>5. Limit > 0 => Len(messages) - 0 + 1 <= Limit
    BY SMT, <1>1, <2>2
  <2> QED BY SMT, <1>1, <2>1, <2>3, <2>4, <2>5, PushKeepsInv
<1>4. CASE messages # <<>>
  <2> DEFINE new == [st EXCEPT !.dropped_oldest = st.dropped_oldest + 1]
  <2>1. /\ new \in Stats
        /\ new.total_enqueued = st.total_enqueued
        /\ new.total_delivered = st.total_delivered
        /\ new.dropped_ttl = st.dropped_ttl
        /\ new.high_watermark = st.high_watermark
        /\ new.block_timeouts = st.block_timeouts
        /\ new.dropped_oldest = st.dropped_oldest + 1
    BY SMT DEF Stats
  <2>2. Push(p, Tail(messages), new)
    BY <1>4 DEF PushOverOldest
  <2> HIDE DEF new
  <2>3. Push(p, Without(1), new) /\ 1 <= Len(messages)
    BY <1>1, <1>4, <2>2, KeptIsWithout
  <2>4. Limit > 0 => Len(messages) - 1 + 1 <= Limit
    BY SMT, <1>1
  <2> QED BY <2>1, <2>3, <2>4, PushKeepsInv
<1> QED BY <1>3, <1>4

\* A step that leaves the messages, the deliveries and the counters behind the
\* invariant alone keeps it, if it keeps the types and makes nobody wait who may not.
LEMMA FrameKeepsInv ==
  ASSUME QueueInv, TypeOK', WaitersBlock',
         messages' = messages, delivered' = delivered,
         stats'.total_enqueued = stats.total_enqueued,
         stats'.total_delivered = stats.total_delivered,
         stats'.dropped_oldest = stats.dropped_oldest,
         stats'.dropped_ttl = stats.dropped_ttl,
         stats'.block_timeouts = stats.block_timeouts,
         stats'.high_watermark = stats.high_watermark
  PROVE  QueueInv'
<1>1. Conservation'
  BY DEF QueueInv, Conservation
<1>2. CapacityBound'
  BY DEF QueueInv, CapacityBound
<1>3. EvictionsJustified'
  BY DEF QueueInv, EvictionsJustified
<1>4. QueueIsSuffix'
  BY DEF QueueInv, QueueIsSuffix
<1>5. DeliveredBeforeQueued'
  BY DEF QueueInv, DeliveredBeforeQueued
<1> QED BY <1>1, <1>2, <1>3, <1>4, <1>5 DEF QueueInv

\* Waking threads changes nothing but who waits.
LEMMA WakeKeepsTypes ==
  ASSUME NEW pcs \in [Producers -> Steps]
  PROVE  /\ \A woken \in WakeOne(pcs) :
              /\ woken \in [Producers -> Steps]
              /\ \A p \in Producers : woken[p] = pcs[p] \/ pcs[p] = "asleep"
         /\ WakeAll(pcs) \in [Producers -> Steps]
         /\ \A p \in Producers : WakeAll(pcs)[p] = pcs[p] \/ pcs[p] = "asleep"
BY DEF WakeOne, WakeAll, Asleep, Steps

-----------------------------------------------------------------------------
\* The initial state satisfies the invariant.
LEMMA InitInv == Init => QueueInv
<1> SUFFICES ASSUME Init PROVE QueueInv
  OBVIOUS
<1>1. messages = <<>> /\ delivered = <<>> /\ DOMAIN messages = {} /\ DOMAIN delivered = {}
  BY SMT DEF Init
<1>2. TypeOK
  <2>1. stats \in Stats
    BY DEF Init, Stats
  <2>2. pc \in [Producers -> Steps] /\ expiry \in [Producers -> Expiries]
    BY DEF Init, Steps, Expiries, Never
  <2>3. messages \in Seq(Message) /\ delivered \in Seq(Nat)
    BY SMT, <1>1
  <2> QED BY <2>1, <2>2, <2>3 DEF Init, TypeOK
<1>3. Conservation
  BY SMT DEF Init, Conservation
<1>4. CapacityBound
  BY SMT, QueueAssumption DEF Init, CapacityBound, QueueAssumption
<1>5. EvictionsJustified
  BY SMT DEF Init, EvictionsJustified
<1>6. QueueIsSuffix /\ DeliveredBeforeQueued
  BY <1>1 DEF QueueIsSuffix, DeliveredBeforeQueued
<1>7. WaitersBlock
  BY DEF Init, WaitersBlock
<1> QED BY <1>2, <1>3, <1>4, <1>5, <1>6, <1>7 DEF QueueInv

\* Every step of a producer inside enqueue() keeps the invariant.
LEMMA EnqueueStepInv ==
  ASSUME QueueInv, NEW p \in Producers, EnqueueStep(p)
  PROVE  QueueInv'
<1>1. TypeOK /\ QueueAssumption /\ WaitersBlock
  BY QueueAssumption DEF QueueInv
<1>2. /\ messages \in Seq(Message) /\ Len(messages) \in Nat /\ Limit \in Nat
      /\ messages = Without(0)
      /\ stats \in Stats
      /\ stats.dropped_oldest \in Nat /\ stats.block_timeouts \in Nat
  BY <1>1, LenProperties, KeptIsWithout DEF TypeOK, Stats, QueueAssumption
<1>3. ASSUME Push(p, messages, stats), Limit > 0 => Len(messages) + 1 <= Limit
      PROVE  QueueInv'
  <2>1. Push(p, Without(0), stats)
    BY <1>2, <1>3
  <2>2. stats.dropped_oldest = stats.dropped_oldest + 0 /\ 0 <= Len(messages)
    BY SMT, <1>2
  <2>3. Policy = "BLOCK" => stats.dropped_oldest <= stats.block_timeouts
    BY DEF QueueInv, EvictionsJustified
  <2>4. Limit > 0 => Len(messages) - 0 + 1 <= Limit
    BY SMT, <1>2, <1>3
  <2> QED BY SMT, <1>2, <2>1, <2>2, <2>3, <2>4, PushKeepsInv
<1>4. ASSUME messages' = messages, delivered' = delivered, stats' = stats,
             TypeOK', WaitersBlock'
      PROVE  QueueInv'
  BY <1>4, FrameKeepsInv
<1>5. CASE EnqueueWithRoom(p)
  BY SMT, <1>2, <1>3, <1>5 DEF EnqueueWithRoom, Full
<1>6. CASE EnqueueDropOldest(p)
  BY <1>2, <1>6, PushOverOldestKeepsInv DEF EnqueueDropOldest, Full
<1>7. CASE EnqueueDropNewest(p)
  <2>1. /\ stats' \in Stats
        /\ stats'.total_enqueued = stats.total_enqueued
        /\ stats'.total_delivered = stats.total_delivered
        /\ stats'.dropped_oldest = stats.dropped_oldest
        /\ stats'.dropped_ttl = stats.dropped_ttl
        /\ stats'.block_timeouts = stats.block_timeouts
        /\ stats'.high_watermark = stats.high_watermark
    <3>1. stats \in Stats /\ stats' = [stats EXCEPT !.dropped_newest = stats.dropped_newest + 1]
      BY <1>2, <1>7 DEF EnqueueDropNewest
    <3> QED BY SMT, <3>1 DEF Stats
  <2>2. TypeOK'
    BY <1>1, <1>7, <2>1 DEF EnqueueDropNewest, TypeOK, env, Steps
  <2>3. WaitersBlock'
    BY <1>1, <1>7 DEF EnqueueDropNewest, TypeOK, WaitersBlock
  <2>4. messages' = messages /\ delivered' = delivered
    BY <1>7 DEF EnqueueDropNewest
  <2> QED BY <2>1, <2>2, <2>3, <2>4, FrameKeepsInv
<1>8. CASE EnqueueBlock(p) \/ SleepAgain(p)
  <2>1. PrepareToSleep(p) /\ Limit > 0 /\ Policy = "BLOCK"
    BY <1>1, <1>8 DEF EnqueueBlock, SleepAgain, Full, WaitersBlock
  <2>2. TypeOK'
    BY <1>1, <2>1 DEF PrepareToSleep, TypeOK, env, Steps
  <2>3. WaitersBlock'
    BY <1>1, <2>1 DEF PrepareToSleep, TypeOK, WaitersBlock
  <2> QED BY <1>4, <2>1, <2>2, <2>3 DEF PrepareToSleep
<1>9. CASE Sleep(p)
  <2>1. TypeOK'
    BY <1>1, <1>9 DEF Sleep, TypeOK, env, Steps
  <2>2. WaitersBlock'
    BY <1>1, <1>9 DEF Sleep, TypeOK, WaitersBlock
  <2> QED BY <1>4, <1>9, <2>1, <2>2 DEF Sleep
<1>10. CASE TakeRoom(p)
  BY SMT, <1>2, <1>3, <1>10 DEF TakeRoom, HasRoom
<1>11. CASE FallBack(p)
  <2> DEFINE st == [stats EXCEPT !.block_timeouts = stats.block_timeouts + 1]
  <2>1. /\ st \in Stats
        /\ st.total_enqueued = stats.total_enqueued
        /\ st.total_delivered = stats.total_delivered
        /\ st.dropped_oldest = stats.dropped_oldest
        /\ st.dropped_ttl = stats.dropped_ttl
        /\ st.high_watermark = stats.high_watermark
        /\ st.block_timeouts = stats.block_timeouts + 1
    <3>1. stats \in Stats
      BY <1>2
    <3> QED BY SMT, <3>1 DEF Stats
  <2>2. Limit > 0 /\ Policy = "BLOCK"
    BY <1>1, <1>11 DEF FallBack, Full, WaitersBlock
  <2>3. PushOverOldest(p, st)
    BY <1>11 DEF FallBack
  <2> HIDE DEF st
  <2>4. st.dropped_oldest + 1 <= st.block_timeouts
    BY SMT, <1>2, <2>1, <2>2 DEF QueueInv, EvictionsJustified
  <2> QED BY <2>1, <2>2, <2>3, <2>4, PushOverOldestKeepsInv
<1>12. CASE Signal(p)
  <2> DEFINE pcs == [pc EXCEPT ![p] = "idle"]
  <2>1. pcs \in [Producers -> Steps] /\ pc' \in WakeOne(pcs)
    BY <1>1, <1>12 DEF TypeOK, Steps, Signal
  <2>2. \A q \in Producers : pcs[q] = pc[q] \/ pcs[q] = "idle"
    BY <1>1 DEF TypeOK
  <2> HIDE DEF pcs
  <2>3. /\ pc' \in [Producers -> Steps]
        /\ \A q \in Producers : pc'[q] = pcs[q] \/ pcs[q] = "asleep"
    BY <2>1, WakeKeepsTypes
  <2>4. TypeOK'
    BY <1>1, <1>12, <2>3 DEF Signal, TypeOK, env
  <2>5. WaitersBlock'
    BY <1>1, <2>2, <2>3 DEF WaitersBlock
  <2> QED BY <1>4, <1>12, <2>4, <2>5 DEF Signal
<1> QED BY <1>5, <1>6, <1>7, <1>8, <1>9, <1>10, <1>11, <1>12 DEF EnqueueStep

\* A step that changes only the counters of deliveries and expiries.
LEMMA RemovalCounts ==
  ASSUME stats \in Stats, NEW a \in Nat, NEW b \in Nat,
         stats' = [stats EXCEPT !.dropped_ttl = stats.dropped_ttl + a,
                                !.total_delivered = stats.total_delivered + b]
  PROVE  /\ stats' \in Stats
         /\ stats'.total_enqueued = stats.total_enqueued
         /\ stats'.dropped_oldest = stats.dropped_oldest
         /\ stats'.block_timeouts = stats.block_timeouts
         /\ stats'.high_watermark = stats.high_watermark
         /\ stats'.total_delivered + stats'.dropped_ttl
              = stats.total_delivered + stats.dropped_ttl + (a + b)
<1> DEFINE st == [stats EXCEPT !.dropped_ttl = stats.dropped_ttl + a]
<1>1. /\ st \in Stats
      /\ st.total_enqueued = stats.total_enqueued
      /\ st.dropped_oldest = stats.dropped_oldest
      /\ st.block_timeouts = stats.block_timeouts
      /\ st.high_watermark = stats.high_watermark
      /\ st.dropped_ttl = stats.dropped_ttl + a
      /\ stats.dropped_ttl \in Nat
  BY SMT DEF Stats
<1>2. stats' = [st EXCEPT !.total_delivered = stats.total_delivered + b]
  OBVIOUS
<1> HIDE DEF st
<1>3. stats.total_delivered \in Nat
  BY DEF Stats
<1>4. /\ stats' \in Stats
      /\ stats'.total_enqueued = st.total_enqueued
      /\ stats'.dropped_oldest = st.dropped_oldest
      /\ stats'.block_timeouts = st.block_timeouts
      /\ stats'.high_watermark = st.high_watermark
      /\ stats'.dropped_ttl = st.dropped_ttl
      /\ stats'.total_delivered = stats.total_delivered + b
  BY SMT, <1>1, <1>2, <1>3 DEF Stats
<1> QED BY SMT, <1>1, <1>3, <1>4

\* dequeue() and reapExpired() only ever remove messages from the front.
LEMMA RemovalSteps ==
  ASSUME QueueInv, DequeueNothing \/ DequeueMessage \/ ReapExpired
  PROVE  TypeOK' /\ \E k : Removes(k)
<1>1. TypeOK
  BY DEF QueueInv
<1>2. messages \in Seq(Message) /\ Len(messages) \in Nat /\ stats \in Stats
  BY <1>1, LenProperties DEF TypeOK
<1>3. CASE DequeueNothing
  <2> DEFINE n == Len(messages)
  <2>1. messages' = Without(n)
    <3>1. Without(n) \in Seq(Message) /\ Len(Without(n)) = 0
      BY SMT, <1>2, WithoutProperties
    <3> QED BY <1>3, <3>1, EmptySeq DEF DequeueNothing
  <2>2. stats' = [stats EXCEPT !.dropped_ttl = stats.dropped_ttl + n]
    BY <1>3 DEF DequeueNothing
  <2>3. n \in Nat
    BY <1>2
  <2> HIDE DEF n
  <2>4. /\ stats' \in Stats
        /\ stats'.total_enqueued = stats.total_enqueued
        /\ stats'.dropped_oldest = stats.dropped_oldest
        /\ stats'.block_timeouts = stats.block_timeouts
        /\ stats'.high_watermark = stats.high_watermark
        /\ stats'.total_delivered = stats.total_delivered
        /\ stats'.dropped_ttl = stats.dropped_ttl + n
        /\ stats.total_delivered \in Nat /\ stats.dropped_ttl \in Nat
    <3>1. stats \in Stats
      BY <1>2
    <3> QED BY SMT, <2>2, <2>3, <3>1 DEF Stats
  <2>5. stats'.total_delivered + stats'.dropped_ttl
          = stats.total_delivered + stats.dropped_ttl + n
    BY SMT, <2>3, <2>4
  <2>6. Removes(n)
    <3>1. n <= Len(messages)
      BY SMT, <1>2 DEF n
    <3> QED BY <1>3, <2>1, <2>3, <2>4, <2>5, <3>1 DEF Removes, DequeueNothing
  <2>7. TypeOK'
    BY SMT, <1>1, <1>3, <2>4 DEF DequeueNothing, TypeOK, env
  <2> QED BY <2>6, <2>7
<1>4. CASE DequeueMessage
  <2>1. PICK n \in 0..(Len(messages) - 1) :
          /\ messages' = Without(n + 1)
          /\ delivered' = Append(delivered, messages[n + 1].ticket)
          /\ stats' = [stats EXCEPT !.dropped_ttl = stats.dropped_ttl + n,
                                    !.total_delivered = stats.total_delivered + 1]
    BY <1>4 DEF DequeueMessage
  <2>2. n \in Nat /\ n + 1 \in Nat /\ n + 1 > 0 /\ n + 1 <= Len(messages)
    BY SMT, <1>2
  <2>3. /\ stats' \in Stats
        /\ stats'.total_enqueued = stats.total_enqueued
        /\ stats'.dropped_oldest = stats.dropped_oldest
        /\ stats'.block_timeouts = stats.block_timeouts
        /\ stats'.high_watermark = stats.high_watermark
        /\ stats'.total_delivered + stats'.dropped_ttl
             = stats.total_delivered + stats.dropped_ttl + (n + 1)
    <3>1. n \in Nat /\ 1 \in Nat /\ stats \in Stats
      BY <1>2, <2>2
    <3> QED BY <2>1, <3>1, RemovalCounts
  <2>4. pc' = pc
    BY <1>4 DEF DequeueMessage
  <2>5. Removes(n + 1)
    BY <2>1, <2>2, <2>3, <2>4 DEF Removes
  <2>6. messages' \in Seq(Message)
    BY SMT, <1>2, <2>1, <2>2, WithoutProperties
  <2>7. delivered' \in Seq(Nat)
    <3>1. messages[n + 1].ticket \in Nat
      <4>1. messages[n + 1] \in Message
        BY SMT, <1>2, <2>2, ElementOfSeq
      <4> QED BY <4>1 DEF Message
    <3>2. delivered \in Seq(Nat)
      BY <1>1 DEF TypeOK
    <3> QED BY <2>1, <3>1, <3>2, AppendProperties
  <2>8. TypeOK'
    BY <1>1, <1>4, <2>3, <2>6, <2>7 DEF DequeueMessage, TypeOK, env
  <2> QED BY <2>5, <2>8
<1>5. CASE ReapExpired
  <2>1. PICK n \in 0..Len(messages) :
          /\ messages' = Without(n)
          /\ stats' = [stats EXCEPT !.dropped_ttl = stats.dropped_ttl + n]
          /\ notifyAll' \in {notifyAll, notifyAll \cup {"reaper"}}
    BY <1>5 DEF ReapExpired
  <2>2. n \in Nat /\ n <= Len(messages)
    BY SMT, <1>2
  <2>3. /\ stats' \in Stats
        /\ stats'.total_enqueued = stats.total_enqueued
        /\ stats'.dropped_oldest = stats.dropped_oldest
        /\ stats'.block_timeouts = stats.block_timeouts
        /\ stats'.high_watermark = stats.high_watermark
        /\ stats'.total_delivered = stats.total_delivered
        /\ stats'.dropped_ttl = stats.dropped_ttl + n
        /\ stats.total_delivered \in Nat /\ stats.dropped_ttl \in Nat
    <3>1. stats \in Stats
      BY <1>2
    <3> QED BY SMT, <2>1, <2>2, <3>1 DEF Stats
  <2>4. stats'.total_delivered + stats'.dropped_ttl
          = stats.total_delivered + stats.dropped_ttl + n
    BY SMT, <2>2, <2>3
  <2>5. pc' = pc /\ delivered' = delivered
    BY <1>5 DEF ReapExpired
  <2>6. Removes(n)
    BY <2>1, <2>2, <2>3, <2>4, <2>5 DEF Removes
  <2>7. messages' \in Seq(Message)
    BY <1>2, <2>1, <2>2, WithoutProperties
  <2>8. TypeOK'
    BY <1>1, <1>5, <2>1, <2>3, <2>7 DEF ReapExpired, TypeOK, env
  <2> QED BY <2>6, <2>8
<1> QED BY <1>3, <1>4, <1>5

\* The invariant is inductive.
LEMMA NextInv == QueueInv /\ [Next]_vars => QueueInv'
<1> SUFFICES ASSUME QueueInv, [Next]_vars
             PROVE  QueueInv'
  OBVIOUS
<1>1. TypeOK /\ QueueAssumption /\ WaitersBlock
  BY QueueAssumption DEF QueueInv
<1>2. messages \in Seq(Message) /\ Len(messages) \in Nat /\ stats \in Stats
  BY <1>1, LenProperties DEF TypeOK
<1>3. ASSUME messages' = messages, delivered' = delivered, stats' = stats,
             TypeOK', WaitersBlock'
      PROVE  QueueInv'
  BY <1>3, FrameKeepsInv
<1>4. ASSUME NEW p \in Producers, EnqueueRefused(p)
      PROVE  QueueInv'
  <2>1. TypeOK'
    BY SMT, <1>1, <1>4 DEF EnqueueRefused, TypeOK
  <2>2. WaitersBlock'
    BY <1>1, <1>4 DEF EnqueueRefused, WaitersBlock
  <2> QED BY <1>3, <1>4, <2>1, <2>2 DEF EnqueueRefused
<1>5. ASSUME NEW p \in Producers, NEW ttl \in Ttls, EnqueueStamp(p, ttl)
      PROVE  QueueInv'
  <2>1. ExpiryOf(ttl) \in Expiries
    BY SMT, <1>1 DEF ExpiryOf, EffectiveTtl, Expiries, Never, TypeOK, QueueAssumption
  <2>2. TypeOK'
    BY SMT, <1>1, <1>5, <2>1 DEF EnqueueStamp, TypeOK, Steps
  <2>3. WaitersBlock'
    BY <1>1, <1>5 DEF EnqueueStamp, TypeOK, WaitersBlock
  <2> QED BY <1>3, <1>5, <2>2, <2>3 DEF EnqueueStamp
<1>6. CASE DequeueNothing \/ DequeueMessage \/ ReapExpired
  <2>1. TypeOK' /\ \E k : Removes(k)
    BY <1>6, RemovalSteps
  <2>2. PICK k : Removes(k)
    BY <2>1
  <2> QED BY <2>1, <2>2, RemovalKeepsInv
<1>7. CASE DequeueNotify
  <2>1. /\ pc' \in [Producers -> Steps]
        /\ \A q \in Producers : pc'[q] = pc[q] \/ pc[q] = "asleep"
    BY <1>1, <1>7, WakeKeepsTypes DEF DequeueNotify, TypeOK
  <2>2. TypeOK'
    BY <1>1, <1>7, <2>1 DEF DequeueNotify, TypeOK, env
  <2>3. WaitersBlock'
    BY <1>1, <2>1 DEF WaitersBlock
  <2> QED BY <1>3, <1>7, <2>2, <2>3 DEF DequeueNotify
<1>8. CASE Close
  <2>1. TypeOK'
    BY <1>1, <1>8 DEF Close, TypeOK, env
  <2>2. WaitersBlock'
    BY <1>1, <1>8 DEF Close, WaitersBlock
  <2> QED BY <1>3, <1>8, <2>1, <2>2 DEF Close
<1>9. ASSUME NEW t \in {"reaper", "closer"}, NotifyAll(t)
       PROVE  QueueInv'
  <2>1. /\ pc' \in [Producers -> Steps]
        /\ \A q \in Producers : pc'[q] = pc[q] \/ pc[q] = "asleep"
    BY <1>1, <1>9, WakeKeepsTypes DEF NotifyAll, TypeOK
  <2>2. TypeOK'
    BY <1>1, <1>9, <2>1 DEF NotifyAll, TypeOK, env
  <2>3. WaitersBlock'
    BY <1>1, <2>1 DEF WaitersBlock
  <2> QED BY <1>3, <1>9, <2>2, <2>3 DEF NotifyAll
<1>10. CASE Tick
  <2>1. TypeOK'
    BY SMT, <1>1, <1>10 DEF Tick, TypeOK
  <2>2. WaitersBlock'
    BY <1>1, <1>10 DEF Tick, WaitersBlock
  <2> QED BY <1>3, <1>10, <2>1, <2>2 DEF Tick
<1>11. CASE UNCHANGED vars
  <2>1. TypeOK'
    BY <1>1, <1>11 DEF vars, TypeOK
  <2>2. WaitersBlock'
    BY <1>1, <1>11 DEF vars, WaitersBlock
  <2> QED BY <1>3, <1>11, <2>1, <2>2 DEF vars
<1> QED BY <1>4, <1>5, <1>6, <1>7, <1>8, <1>9, <1>10, <1>11, EnqueueStepInv
        DEF Next

-----------------------------------------------------------------------------
\* The invariant holds in every reachable state.
THEOREM QueueInvariant == Spec => []QueueInv
BY InitInv, NextInv, PTL DEF Spec

\* Every variable of the queue keeps its type.
THEOREM TypeCorrect == Spec => []TypeOK
<1>1. QueueInv => TypeOK
  BY DEF QueueInv
<1> QED BY <1>1, QueueInvariant, PTL

\* The counters that getStats() reports account for every message ever pushed.
THEOREM CountsConserved == Spec => []Conservation
<1>1. QueueInv => Conservation
  BY DEF QueueInv
<1> QED BY <1>1, QueueInvariant, PTL

\* enqueue() never takes a limited queue beyond its limit, whatever the policy.
THEOREM CapacityRespected == Spec => []CapacityBound
<1>1. QueueInv => CapacityBound
  BY DEF QueueInv
<1> QED BY <1>1, QueueInvariant, PTL

\* A message is evicted only where the policy of enqueue() allows it.
THEOREM EvictionsAreJustified == Spec => []EvictionsJustified
<1>1. QueueInv => EvictionsJustified
  BY DEF QueueInv
<1> QED BY <1>1, QueueInvariant, PTL

\* The tickets of the queue, as a sequence of numbers.
LEMMA TicketsProperties ==
  ASSUME QueueInv
  PROVE  /\ Tickets \in Seq(Nat)
         /\ Len(Tickets) = Len(messages)
         /\ DOMAIN Tickets = 1..Len(messages)
         /\ \A i \in 1..Len(messages) :
              Tickets[i] = stats.total_enqueued - Len(messages) + i
<1>1. /\ messages \in Seq(Message) /\ Len(messages) \in Nat
      /\ DOMAIN messages = 1..Len(messages)
  BY LenProperties DEF QueueInv, TypeOK
<1>2. \A i \in DOMAIN messages : messages[i].ticket \in Nat
  <2> SUFFICES ASSUME NEW i \in DOMAIN messages PROVE messages[i].ticket \in Nat
    OBVIOUS
  <2>1. messages[i] \in Message
    BY <1>1, ElementOfSeq
  <2> QED BY <2>1 DEF Message
<1>3. Tickets \in Seq(Nat)
  BY SMT, <1>1, <1>2, IsASeq DEF Tickets
<1>4. DOMAIN Tickets = 1..Len(messages) /\ Len(Tickets) = Len(messages)
  BY SMT, <1>1, <1>3, LenProperties DEF Tickets
<1>5. \A i \in 1..Len(messages) : Tickets[i] = stats.total_enqueued - Len(messages) + i
  BY <1>1 DEF Tickets, QueueInv, QueueIsSuffix
<1> QED BY <1>3, <1>4, <1>5

\* dequeue() hands messages out in the order enqueue() pushed them, never twice.
THEOREM DeliveriesInOrder == Spec => []DeliveryInOrder
<1>1. QueueInv => DeliveryInOrder
  <2> SUFFICES ASSUME QueueInv PROVE DeliveryInOrder
    OBVIOUS
  <2> DEFINE gone == stats.total_enqueued - Len(messages)
  <2>1. gone \in Int /\ Len(messages) \in Nat
    <3>1. stats.total_enqueued \in Nat /\ Len(messages) \in Nat
      BY LenProperties DEF QueueInv, TypeOK, Stats
    <3> QED BY SMT, <3>1
  <2>2. \A i \in DOMAIN delivered : delivered[i] \in Nat /\ delivered[i] <= gone
    <3>1. \A i \in DOMAIN delivered : delivered[i] \in Nat
      BY ElementOfSeq, LenProperties DEF QueueInv, TypeOK
    <3> QED BY <3>1 DEF QueueInv, DeliveredBeforeQueued
  <2>3. \A i, j \in DOMAIN delivered : i < j => delivered[i] < delivered[j]
    BY DEF QueueInv, DeliveredBeforeQueued
  <2>4. /\ DOMAIN Tickets = 1..Len(messages)
        /\ \A i \in 1..Len(messages) : Tickets[i] = gone + i
    BY TicketsProperties
  <2> HIDE DEF gone
  <2>5. \A i, j \in DOMAIN Tickets : i < j => Tickets[i] < Tickets[j]
    BY SMT, <2>1, <2>4
  <2>6. \A i \in DOMAIN delivered, j \in DOMAIN Tickets : delivered[i] < Tickets[j]
    BY SMT, <2>1, <2>2, <2>4
  <2> QED BY <2>3, <2>5, <2>6 DEF DeliveryInOrder, Channel!InOrder, Channel!Increasing
<1> QED BY <1>1, QueueInvariant, PTL

-----------------------------------------------------------------------------
(* The queue implements the lossy FIFO channel. *)

\* The tickets in the queue are the latest ones handed out.
TicketsFollow ==
  /\ Tickets \in Seq(Nat)
  /\ Len(Tickets) = Len(messages)
  /\ \A i \in 1..Len(messages) : Tickets[i] = stats.total_enqueued - Len(messages) + i

\* They are so after a step whenever the invariant holds after it.
LEMMA TicketsAfterStep == QueueInv' => TicketsFollow'
<1>1. QueueInv => TicketsFollow
  BY TicketsProperties DEF TicketsFollow
<1> QED BY <1>1, PTL

\* What the channel holds once its first k messages are gone.
LEMMA AfterProperties ==
  ASSUME QueueInv, NEW k \in Nat, k <= Len(messages)
  PROVE  /\ Channel!After(k) \in Seq(Nat)
         /\ Len(Channel!After(k)) = Len(messages) - k
         /\ \A i \in 1..(Len(messages) - k) :
              Channel!After(k)[i] = stats.total_enqueued - Len(messages) + (k + i)
<1> DEFINE m == k + 1
           n == Len(messages)
<1>1. /\ Tickets \in Seq(Nat) /\ Len(Tickets) = n /\ n \in Nat
      /\ \A i \in 1..n : Tickets[i] = stats.total_enqueued - n + i
  BY TicketsProperties, LenProperties
<1>2. m \in Int /\ n \in Int /\ \A i \in m..n : Tickets[i] \in Nat
  <2>1. \A i \in 1..n : Tickets[i] \in Nat
    BY <1>1, ElementOfSeq
  <2> QED BY SMT, <1>1, <2>1
<1> HIDE DEF m, n
<1>3. /\ SubSeq(Tickets, m, n) \in Seq(Nat)
      /\ Len(SubSeq(Tickets, m, n)) = IF m <= n THEN n - m + 1 ELSE 0
      /\ \A i \in 1..(n - m + 1) : SubSeq(Tickets, m, n)[i] = Tickets[m + i - 1]
  BY SMT, <1>2, SubSeqProperties
<1>4. Channel!After(k) = SubSeq(Tickets, m, n)
  BY <1>1 DEF Channel!After, m
<1>5. Len(Channel!After(k)) = n - k
  BY SMT, <1>1, <1>3, <1>4 DEF m, n
<1>6. ASSUME NEW i \in 1..(n - k)
      PROVE  Channel!After(k)[i] = stats.total_enqueued - n + (k + i)
  <2>1. i \in 1..(n - m + 1) /\ m + i - 1 = k + i /\ k + i \in 1..n
    BY SMT, <1>1 DEF m
  <2> QED BY <1>1, <1>3, <1>4, <2>1
<1> QED BY <1>3, <1>4, <1>5, <1>6 DEF n

\* A push is a step of the channel that accepts a message.
LEMMA PushAccepts ==
  ASSUME QueueInv, QueueInv', NEW p \in Producers,
         NEW k \in Channel!Evictable, NEW st, k \in {0, 1}, k <= Len(messages),
         st.total_enqueued = stats.total_enqueued,
         stats'.total_enqueued = stats.total_enqueued + 1,
         Push(p, Without(k), st)
  PROVE  Channel!Accept
<1> DEFINE te == stats.total_enqueued
           n == Len(messages)
           new == Append(Channel!After(k), te + 1)
<1>1. te \in Nat /\ n \in Nat /\ te + 1 \in Nat /\ k \in Nat
  <2>1. te \in Nat
    BY DEF QueueInv, TypeOK, Stats
  <2>2. n \in Nat
    BY LenProperties DEF QueueInv, TypeOK
  <2> QED BY SMT, <2>1, <2>2
<1>2. Len(messages') = n - k + 1
  <2>1. /\ Without(k) \in Seq(Message) /\ Len(Without(k)) = n - k
    <3>1. k \in 0..Len(messages) /\ messages \in Seq(Message)
      BY SMT, <1>1 DEF QueueInv, TypeOK
    <3> QED BY <3>1, WithoutProperties
  <2>2. [ticket |-> st.total_enqueued + 1, expiry |-> expiry[p]] \in Message
    <3>1. expiry[p] \in Expiries
      BY DEF QueueInv, TypeOK
    <3> QED BY <1>1, <3>1 DEF Message
  <2> QED BY SMT, <2>1, <2>2, AppendProperties DEF Push
<1>3. /\ Channel!After(k) \in Seq(Nat)
      /\ Len(Channel!After(k)) = n - k
      /\ \A i \in 1..(n - k) : Channel!After(k)[i] = te - n + (k + i)
  BY <1>1, AfterProperties
<1>4. /\ new \in Seq(Nat) /\ Len(new) = n - k + 1
      /\ \A i \in 1..(n - k) : new[i] = te - n + (k + i)
      /\ new[n - k + 1] = te + 1
  BY SMT, <1>1, <1>3, AppendProperties
<1>5. /\ Tickets' \in Seq(Nat) /\ Len(Tickets') = n - k + 1
      /\ \A i \in 1..(n - k + 1) : Tickets'[i] = (te + 1) - (n - k + 1) + i
  BY <1>2, TicketsAfterStep DEF TicketsFollow
<1> HIDE DEF new, te, n
<1>6. Tickets' = new
  <2>1. \A i \in 1..(n - k + 1) : Tickets'[i] = new[i]
    <3> SUFFICES ASSUME NEW i \in 1..(n - k + 1) PROVE Tickets'[i] = new[i]
      OBVIOUS
    <3>1. CASE i \in 1..(n - k)
      <4>1. te - n + (k + i) = (te + 1) - (n - k + 1) + i
        BY SMT, <1>1
      <4> QED BY <1>4, <1>5, <3>1, <4>1
    <3>2. CASE i = n - k + 1
      <4>1. (te + 1) - (n - k + 1) + i = te + 1
        BY SMT, <1>1, <3>2
      <4> QED BY <1>4, <1>5, <3>2, <4>1
    <3> QED BY SMT, <1>1, <3>1, <3>2
  <2> QED BY <1>4, <1>5, <2>1, SeqEqual
<1>7. Limit > 0 => Len(Tickets') <= Limit
  BY <1>2, <1>5 DEF QueueInv, CapacityBound
<1>8. k <= Len(Tickets)
  BY TicketsProperties
<1>9. delivered' = delivered
  BY DEF Push
<1> QED BY <1>6, <1>7, <1>8, <1>9 DEF Channel!Accept, new, te

\* Removing messages from the front is a delivery or a loss of the channel.
LEMMA RemovalRefines ==
  ASSUME QueueInv, QueueInv', NEW k, Removes(k)
  PROVE  Channel!Deliver \/ Channel!Lose \/ UNCHANGED <<Tickets, stats.total_enqueued, delivered>>
<1> DEFINE te == stats.total_enqueued
           n == Len(messages)
<1>1. te \in Nat /\ n \in Nat /\ k \in Nat /\ k <= n /\ stats'.total_enqueued = te
  <2>1. te \in Nat
    BY DEF QueueInv, TypeOK, Stats
  <2>2. n \in Nat
    BY LenProperties DEF QueueInv, TypeOK
  <2> QED BY <2>1, <2>2 DEF Removes
<1>2. Len(messages') = n - k
  <2>1. messages \in Seq(Message) /\ k \in 0..n
    BY SMT, <1>1 DEF QueueInv, TypeOK
  <2> QED BY <2>1, WithoutProperties DEF Removes
<1>3. /\ Channel!After(k) \in Seq(Nat) /\ Len(Channel!After(k)) = n - k
      /\ \A i \in 1..(n - k) : Channel!After(k)[i] = te - n + (k + i)
  BY <1>1, AfterProperties
<1>4. /\ Tickets' \in Seq(Nat) /\ Len(Tickets') = n - k
      /\ \A i \in 1..(n - k) : Tickets'[i] = te - (n - k) + i
  BY <1>1, <1>2, TicketsAfterStep DEF TicketsFollow
<1>5. /\ Tickets \in Seq(Nat) /\ Len(Tickets) = n
      /\ \A i \in 1..n : Tickets[i] = te - n + i
  BY TicketsProperties
<1>6. k > 0 => messages[k].ticket = Tickets[k] /\ k \in 1..n
  <2>1. DOMAIN messages = 1..n
    BY LenProperties DEF QueueInv, TypeOK
  <2> QED BY SMT, <1>1, <2>1 DEF Tickets
<1> HIDE DEF te, n
<1>7. Tickets' = Channel!After(k)
  <2>1. \A i \in 1..(n - k) : te - n + (k + i) = te - (n - k) + i
    BY SMT, <1>1
  <2>2. \A i \in 1..(n - k) : Tickets'[i] = Channel!After(k)[i]
    BY <1>3, <1>4, <2>1
  <2> QED BY <1>3, <1>4, <2>2, SeqEqual
<1>8. CASE k > 0 /\ delivered' = Append(delivered, messages[k].ticket)
  <2>1. /\ k - 1 \in 0..(Len(Tickets) - 1)
        /\ Tickets' = Channel!After((k - 1) + 1)
        /\ delivered' = Append(delivered, Tickets[(k - 1) + 1])
    <3>1. (k - 1) + 1 = k
      BY SMT, <1>1
    <3> QED BY SMT, <1>1, <1>5, <1>6, <1>7, <1>8, <3>1
  <2> QED BY <1>1, <2>1 DEF Channel!Deliver, te
<1>9. CASE delivered' = delivered
  <2>1. CASE k = 0
    <3>1. n - k = n
      BY SMT, <1>1, <2>1
    <3>2. Tickets' = Tickets
      <4>1. Len(Tickets') = Len(Tickets)
        BY <1>4, <1>5, <3>1
      <4>2. \A i \in 1..Len(Tickets') : Tickets'[i] = Tickets[i]
        BY <1>4, <1>5, <3>1
      <4> QED BY <1>4, <1>5, <4>1, <4>2, SeqEqual
    <3> QED BY <1>1, <1>9, <3>2 DEF te
  <2>2. CASE k > 0
    <3>1. k \in 1..Len(Tickets)
      BY <1>5, <1>6, <2>2
    <3> QED BY <1>1, <1>7, <1>9, <3>1 DEF Channel!Lose, te
  <2> QED BY SMT, <1>1, <2>1, <2>2
<1> QED BY <1>8, <1>9 DEF Removes

\* Every step of a producer inside enqueue() accepts a message or is invisible.
LEMMA EnqueueRefines ==
  ASSUME QueueInv, QueueInv', NEW p \in Producers, EnqueueStep(p)
  PROVE  Channel!Accept \/ UNCHANGED <<Tickets, stats.total_enqueued, delivered>>
<1>1. TypeOK /\ WaitersBlock
  BY DEF QueueInv
<1>2. /\ messages \in Seq(Message) /\ Len(messages) \in Nat /\ stats \in Stats
      /\ messages = Without(0)
      /\ messages # <<>> => Tail(messages) = Without(1) /\ 1 <= Len(messages)
  BY <1>1, LenProperties, KeptIsWithout DEF TypeOK
<1>3. ASSUME NEW k \in {0, 1}, NEW st \in Stats, k <= Len(messages),
             st.total_enqueued = stats.total_enqueued,
             k = 1 => Limit # 0 /\ Policy # "DROP_NEWEST",
             Push(p, Without(k), st)
      PROVE  Channel!Accept
  <2>1. k \in Channel!Evictable
    BY <1>3 DEF Channel!Evictable
  <2>2. stats'.total_enqueued = stats.total_enqueued + 1
    <3> DEFINE counted == [st EXCEPT !.total_enqueued = st.total_enqueued + 1]
               mark == IF Len(Without(k)) + 1 > st.high_watermark THEN Len(Without(k)) + 1
                       ELSE st.high_watermark
    <3>1. counted \in Stats /\ counted.total_enqueued = st.total_enqueued + 1
      BY SMT, <1>3 DEF Stats
    <3>2. stats' = [counted EXCEPT !.high_watermark = mark]
      BY <1>3 DEF Push
    <3> HIDE DEF counted, mark
    <3>3. stats'.total_enqueued = counted.total_enqueued
      BY <3>1, <3>2 DEF Stats
    <3> QED BY <1>3, <3>1, <3>3
  <2> QED BY SMT, <1>3, <2>1, <2>2, PushAccepts
<1>4. ASSUME Push(p, messages, stats)
      PROVE  Channel!Accept
  BY SMT, <1>2, <1>3, <1>4
<1>5. ASSUME NEW st \in Stats, st.total_enqueued = stats.total_enqueued,
             Limit # 0, Policy # "DROP_NEWEST", PushOverOldest(p, st)
      PROVE  Channel!Accept
  <2>1. CASE messages = <<>>
    <3>1. Push(p, Without(0), st)
      BY <1>2, <1>5, <2>1 DEF PushOverOldest
    <3> QED BY SMT, <1>2, <1>3, <1>5, <3>1
  <2>2. CASE messages # <<>>
    <3> DEFINE new == [st EXCEPT !.dropped_oldest = st.dropped_oldest + 1]
    <3>1. new \in Stats /\ new.total_enqueued = st.total_enqueued
      BY SMT, <1>5 DEF Stats
    <3>2. Push(p, Tail(messages), new)
      BY <1>5, <2>2 DEF PushOverOldest
    <3> HIDE DEF new
    <3> QED BY <1>2, <1>3, <1>5, <2>2, <3>1, <3>2
  <2> QED BY <2>1, <2>2
<1>6. CASE EnqueueWithRoom(p)
  BY <1>4, <1>6 DEF EnqueueWithRoom
<1>7. CASE EnqueueDropOldest(p)
  <2>1. Limit # 0 /\ Policy # "DROP_NEWEST" /\ PushOverOldest(p, stats)
    BY SMT, <1>7 DEF EnqueueDropOldest, Full
  <2> QED BY <1>2, <1>5, <2>1
<1>8. CASE EnqueueDropNewest(p)
  <2>1. stats'.total_enqueued = stats.total_enqueued
    <3>1. stats \in Stats /\ stats' = [stats EXCEPT !.dropped_newest = stats.dropped_newest + 1]
      BY <1>2, <1>8 DEF EnqueueDropNewest
    <3> QED BY <3>1 DEF Stats
  <2> QED BY <1>8, <2>1 DEF EnqueueDropNewest, Tickets
<1>9. CASE EnqueueBlock(p) \/ SleepAgain(p)
  BY <1>9 DEF EnqueueBlock, SleepAgain, PrepareToSleep, Tickets
<1>10. CASE Sleep(p)
  BY <1>10 DEF Sleep, Tickets
<1>11. CASE TakeRoom(p)
  BY <1>4, <1>11 DEF TakeRoom
<1>12. CASE FallBack(p)
  <2> DEFINE st == [stats EXCEPT !.block_timeouts = stats.block_timeouts + 1]
  <2>1. st \in Stats /\ st.total_enqueued = stats.total_enqueued
    <3>1. stats \in Stats
      BY <1>2
    <3> QED BY SMT, <3>1 DEF Stats
  <2>2. Limit # 0 /\ Policy # "DROP_NEWEST"
    BY SMT, <1>1, <1>12 DEF FallBack, Full, WaitersBlock
  <2>3. PushOverOldest(p, st)
    BY <1>12 DEF FallBack
  <2> HIDE DEF st
  <2> QED BY <1>5, <2>1, <2>2, <2>3
<1>13. CASE Signal(p)
  BY <1>13 DEF Signal, Tickets
<1> QED BY <1>6, <1>7, <1>8, <1>9, <1>10, <1>11, <1>12, <1>13 DEF EnqueueStep

\* The daemon's queue is a lossy FIFO channel: what dequeue() returns is what
\* enqueue() accepted, in order, without repetition, within the limit, and with
\* an eviction only to make place for the one message accepted.
THEOREM QueueImplementsChannel == Spec => ChannelSpec
<1>1. Init => Channel!ChanInit
  <2> SUFFICES ASSUME Init PROVE Channel!ChanInit
    OBVIOUS
  <2>1. messages = <<>> /\ delivered = <<>> /\ stats.total_enqueued = 0
    BY DEF Init
  <2>2. Tickets = <<>>
    BY SMT, <2>1 DEF Tickets
  <2> QED BY <2>1, <2>2 DEF Channel!ChanInit
<1>2. QueueInv /\ QueueInv' /\ [Next]_vars => [Channel!ChanNext]_Channel!chanVars
  <2> SUFFICES ASSUME QueueInv, QueueInv', [Next]_vars
               PROVE  Channel!ChanNext \/ UNCHANGED <<Tickets, stats.total_enqueued, delivered>>
    BY DEF Channel!chanVars
  <2>1. CASE \E p \in Producers : EnqueueRefused(p)
    BY <2>1 DEF EnqueueRefused, Tickets
  <2>2. CASE \E p \in Producers, ttl \in Ttls : EnqueueStamp(p, ttl)
    BY <2>2 DEF EnqueueStamp, Tickets
  <2>3. CASE \E p \in Producers : EnqueueStep(p)
    BY <2>3, EnqueueRefines DEF Channel!ChanNext
  <2>4. CASE DequeueNothing \/ DequeueMessage \/ ReapExpired
    <3>1. PICK k : Removes(k)
      BY <2>4, RemovalSteps
    <3> QED BY <3>1, RemovalRefines DEF Channel!ChanNext
  <2>5. CASE DequeueNotify \/ Close \/ \E t \in {"reaper", "closer"} : NotifyAll(t)
    BY <2>5 DEF DequeueNotify, Close, NotifyAll, Tickets
  <2>6. CASE Tick \/ UNCHANGED vars
    BY <2>6 DEF Tick, vars, Tickets
  <2> QED BY <2>1, <2>2, <2>3, <2>4, <2>5, <2>6 DEF Next
<1> QED BY <1>1, <1>2, QueueInvariant, PTL DEF Spec, ChannelSpec, Channel!Spec

-----------------------------------------------------------------------------
(* The calls of the queue, for which the facts about finite sets are needed *)

INSTANCE FiniteSetTheorems

-----------------------------------------------------------------------------
(* No lost wake-up, while messages do not expire *)

\* A producer that found no room keeps the mutex until it sleeps.
PresleepFull == (\E p \in Producers : pc[p] = "presleep") => ~HasRoom

\* No message ever gets an expiry time.
NothingExpires ==
  /\ \A p \in Producers : expiry[p] = Never
  /\ \A i \in DOMAIN messages : messages[i].expiry = Never

WakeInv == NothingExpires /\ PresleepFull /\ NoLostWakeup

\* notify_one wakes somebody if anybody sleeps, and changes nobody else.
LEMMA WakeOneWakes ==
  ASSUME NEW pcs \in [Producers -> Steps], NEW woken \in WakeOne(pcs)
  PROVE  /\ woken \in [Producers -> Steps]
         /\ \A p \in Producers : woken[p] = "presleep" => pcs[p] = "presleep"
         /\ Asleep(woken) # {} => \E p \in Producers : woken[p] = "woken"
<1>1. CASE Asleep(pcs) = {}
  BY <1>1 DEF WakeOne
<1>2. CASE Asleep(pcs) # {}
  <2>1. PICK w \in Asleep(pcs) : woken = [pcs EXCEPT ![w] = "woken"]
    BY <1>2 DEF WakeOne
  <2>2. w \in Producers
    BY DEF Asleep
  <2> QED BY <2>1, <2>2 DEF Steps
<1> QED BY <1>1, <1>2

\* Without a time to live, a push keeps every message without an expiry time.
LEMMA PushNeverExpires ==
  ASSUME QueueInv, NothingExpires, NEW p \in Producers, NEW k \in {0, 1}, k <= Len(messages),
         NEW st, Push(p, Without(k), st)
  PROVE  NothingExpires'
<1>1. messages \in Seq(Message) /\ Len(messages) \in Nat /\ k \in 0..Len(messages)
  BY SMT, LenProperties DEF QueueInv, TypeOK
<1>2. /\ Without(k) \in Seq(Message) /\ Len(Without(k)) = Len(messages) - k
      /\ \A i \in 1..(Len(messages) - k) : Without(k)[i] = messages[k + i]
  BY <1>1, WithoutProperties
<1> DEFINE kept == Without(k)
           m == [ticket |-> st.total_enqueued + 1, expiry |-> expiry[p]]
<1>3. messages' = Append(kept, m) /\ expiry' = expiry
  BY DEF Push
<1>4. m.expiry = Never
  BY DEF NothingExpires
<1>5. \A i \in 1..Len(kept) : kept[i].expiry = Never
  <2> SUFFICES ASSUME NEW i \in 1..Len(kept) PROVE kept[i].expiry = Never
    OBVIOUS
  <2>1. i \in 1..(Len(messages) - k) /\ kept[i] = messages[k + i]
    BY <1>2
  <2>2. k + i \in DOMAIN messages
    BY SMT, <1>1, <2>1
  <2>3. messages[k + i].expiry = Never
    BY <2>2 DEF NothingExpires
  <2> HIDE DEF kept
  <2> QED BY <2>1, <2>3
<1> HIDE DEF kept, m
<1>6. /\ DOMAIN messages' = 1..(Len(kept) + 1) /\ messages'[Len(kept) + 1] = m
      /\ \A i \in 1..Len(kept) : messages'[i] = kept[i]
  BY SMT, <1>2, <1>3 DEF kept
<1>7. \A i \in DOMAIN messages' : messages'[i].expiry = Never
  <2>1. \A i \in 1..(Len(kept) + 1) : i \in 1..Len(kept) \/ i = Len(kept) + 1
    BY SMT, <1>2 DEF kept
  <2> QED BY <1>4, <1>5, <1>6, <2>1
<1> QED BY <1>3, <1>7 DEF NothingExpires

\* The actions of enqueue() that push, under the mutex.
LEMMA PushingSteps ==
  ASSUME QueueInv, NEW p \in Producers,
         EnqueueWithRoom(p) \/ EnqueueDropOldest(p) \/ TakeRoom(p) \/ FallBack(p)
  PROVE  /\ MutexFree /\ pc[p] \in {"stamped", "asleep", "woken"}
         /\ \E k \in {0, 1}, st \in Stats :
              /\ k <= Len(messages) /\ Push(p, Without(k), st)
              /\ st.total_enqueued = stats.total_enqueued
              /\ st.dropped_newest = stats.dropped_newest
<1>1. messages \in Seq(Message) /\ Len(messages) \in Nat /\ stats \in Stats
  BY LenProperties DEF QueueInv, TypeOK
<1>2. /\ messages = Without(0)
      /\ messages # <<>> => Tail(messages) = Without(1) /\ 1 <= Len(messages)
  BY <1>1, KeptIsWithout
<1>3. MutexFree /\ pc[p] \in {"stamped", "asleep", "woken"}
  BY DEF EnqueueWithRoom, EnqueueDropOldest, TakeRoom, FallBack
<1> DEFINE Pushes(k, st) == /\ k <= Len(messages) /\ Push(p, Without(k), st)
                            /\ st.total_enqueued = stats.total_enqueued
                            /\ st.dropped_newest = stats.dropped_newest
<1>4. CASE EnqueueWithRoom(p) \/ TakeRoom(p)
  <2>1. Push(p, messages, stats)
    BY <1>4 DEF EnqueueWithRoom, TakeRoom
  <2>2. Pushes(0, stats)
    BY SMT, <1>1, <1>2, <2>1
  <2> QED BY <1>1, <1>3, <2>2
<1>5. ASSUME NEW st \in Stats, PushOverOldest(p, st),
             st.total_enqueued = stats.total_enqueued, st.dropped_newest = stats.dropped_newest
      PROVE  \E k \in {0, 1}, s \in Stats : Pushes(k, s)
  <2>1. CASE messages = <<>>
    <3>1. Pushes(0, st)
      BY SMT, <1>1, <1>2, <1>5, <2>1 DEF PushOverOldest
    <3> QED BY <3>1
  <2>2. CASE messages # <<>>
    <3> DEFINE dt == [st EXCEPT !.dropped_oldest = @ + 1]
    <3>1. /\ dt \in Stats /\ dt.total_enqueued = st.total_enqueued
          /\ dt.dropped_newest = st.dropped_newest
      BY SMT DEF Stats
    <3>2. Push(p, Tail(messages), dt)
      BY <1>5, <2>2 DEF PushOverOldest
    <3> HIDE DEF dt
    <3>3. Pushes(1, dt)
      BY <1>2, <1>5, <2>2, <3>1, <3>2
    <3> QED BY <3>1, <3>3
  <2> QED BY <2>1, <2>2
<1>6. CASE EnqueueDropOldest(p)
  BY <1>1, <1>3, <1>5, <1>6 DEF EnqueueDropOldest
<1>7. CASE FallBack(p)
  <2> DEFINE st == [stats EXCEPT !.block_timeouts = @ + 1]
  <2>1. /\ st \in Stats /\ st.total_enqueued = stats.total_enqueued
        /\ st.dropped_newest = stats.dropped_newest
    BY SMT, <1>1 DEF Stats
  <2>2. PushOverOldest(p, st)
    BY <1>7 DEF FallBack
  <2> HIDE DEF st
  <2> QED BY <1>3, <1>5, <2>1, <2>2
<1> QED BY <1>4, <1>6, <1>7

\* Whoever pushes still has to notify.
LEMMA PushKeepsWake ==
  ASSUME QueueInv, WakeInv, NEW p \in Producers,
         EnqueueWithRoom(p) \/ EnqueueDropOldest(p) \/ TakeRoom(p) \/ FallBack(p)
  PROVE  WakeInv'
<1>1. pc \in [Producers -> Steps]
  BY DEF QueueInv, TypeOK
<1>2. PICK k \in {0, 1}, st \in Stats : k <= Len(messages) /\ Push(p, Without(k), st)
  BY PushingSteps
<1>3. pc' = [pc EXCEPT ![p] = "signal"]
  BY <1>2 DEF Push
<1>4. NothingExpires'
  BY <1>2, PushNeverExpires DEF WakeInv
<1>5. PresleepFull'
  <2>1. MutexFree
    BY PushingSteps
  <2> QED BY <1>1, <1>3, <2>1 DEF MutexFree, PresleepFull
<1>6. NoLostWakeup'
  BY <1>1, <1>3 DEF NoLostWakeup
<1> QED BY <1>4, <1>5, <1>6 DEF WakeInv

\* Every other step of a producer.
LEMMA EnqueueKeepsWake ==
  ASSUME QueueInv, WakeInv, NEW p \in Producers, EnqueueStep(p)
  PROVE  WakeInv'
<1>1. pc \in [Producers -> Steps]
  BY DEF QueueInv, TypeOK
<1>2. CASE EnqueueWithRoom(p) \/ EnqueueDropOldest(p) \/ TakeRoom(p) \/ FallBack(p)
  BY <1>2, PushKeepsWake
<1>3. CASE EnqueueDropNewest(p)
  <2>1. /\ pc[p] = "stamped" /\ pc' = [pc EXCEPT ![p] = "idle"]
        /\ UNCHANGED <<messages, closed, expiry, notifyOne, notifyAll>>
    BY <1>3 DEF EnqueueDropNewest
  <2>2. Asleep(pc') = Asleep(pc)
    BY <1>1, <2>1 DEF Asleep
  <2> QED
    BY <1>1, <2>1, <2>2 DEF WakeInv, NothingExpires, PresleepFull, NoLostWakeup, HasRoom
<1>4. CASE PrepareToSleep(p)
  BY <1>4 DEF PrepareToSleep, WakeInv, NothingExpires, PresleepFull, NoLostWakeup, HasRoom
<1>5. CASE Sleep(p)
  <2>1. /\ pc[p] = "presleep" /\ pc' = [pc EXCEPT ![p] = "asleep"]
        /\ UNCHANGED <<messages, closed, expiry, notifyOne, notifyAll>>
    BY <1>5 DEF Sleep
  <2>2. ~HasRoom'
    BY <2>1 DEF WakeInv, PresleepFull, HasRoom
  <2> QED BY <2>1, <2>2 DEF WakeInv, NothingExpires, PresleepFull, NoLostWakeup
<1>6. CASE Signal(p)
  <2> DEFINE pcs == [pc EXCEPT ![p] = "idle"]
  <2>1. pcs \in [Producers -> Steps] /\ \A q \in Producers : pcs[q] = "presleep" => pc[q] = "presleep"
    BY <1>1 DEF Steps
  <2>2. pc' \in WakeOne(pcs) /\ UNCHANGED <<messages, closed, expiry, notifyOne, notifyAll>>
    BY <1>6 DEF Signal
  <2> HIDE DEF pcs
  <2>3. /\ \A q \in Producers : pc'[q] = "presleep" => pcs[q] = "presleep"
        /\ Asleep(pc') # {} => \E q \in Producers : pc'[q] = "woken"
    BY SMT, <2>1, <2>2, WakeOneWakes
  <2> QED
    BY <2>1, <2>2, <2>3 DEF WakeInv, NothingExpires, PresleepFull, NoLostWakeup, HasRoom
<1> QED BY <1>2, <1>3, <1>4, <1>5, <1>6 DEF EnqueueStep, EnqueueBlock, SleepAgain

\* Messages that leave the queue leave it without expiry times, too.
LEMMA RemovalNeverExpires ==
  ASSUME QueueInv, NothingExpires, NEW k \in 0..Len(messages),
         messages' = Without(k), expiry' = expiry
  PROVE  NothingExpires'
<1>1. messages \in Seq(Message) /\ Len(messages) \in Nat
  BY LenProperties DEF QueueInv, TypeOK
<1>2. /\ messages' \in Seq(Message) /\ Len(messages') = Len(messages) - k
      /\ \A i \in 1..(Len(messages) - k) : messages'[i] = messages[k + i]
  BY <1>1, WithoutProperties
<1>3. DOMAIN messages' = 1..(Len(messages) - k)
  BY SMT, <1>2
<1>4. \A i \in 1..(Len(messages) - k) : k + i \in DOMAIN messages
  BY SMT, <1>1
<1>5. ASSUME NEW i \in DOMAIN messages' PROVE messages'[i].expiry = Never
  <2>1. i \in 1..(Len(messages) - k)
    BY <1>3
  <2>2. messages'[i] = messages[k + i] /\ k + i \in DOMAIN messages
    BY <1>2, <1>4, <2>1
  <2> QED BY <2>2 DEF NothingExpires
<1>6. \A p \in Producers : expiry'[p] = Never
  BY DEF NothingExpires
<1> QED BY <1>5, <1>6 DEF NothingExpires

\* While nothing expires, only a dequeue() that returns a message makes room.
LEMMA ExpiredIsEmpty ==
  ASSUME NothingExpires, messages \in Seq(Message), NEW n \in 0..Len(messages), ExpiredPrefix(n)
  PROVE  n = 0
BY SMT DEF NothingExpires, ExpiredPrefix, Expired

NoTtl == DefaultTtl = 0 /\ Ttls \subseteq {0}

\* Every step keeps the wake-ups, if no message has a time to live.
LEMMA WakeStep == NoTtl /\ QueueInv /\ WakeInv /\ [Next]_vars => WakeInv'
<1> SUFFICES ASSUME NoTtl, QueueInv, WakeInv, [Next]_vars PROVE WakeInv'
  OBVIOUS
<1>1. /\ pc \in [Producers -> Steps] /\ messages \in Seq(Message) /\ Len(messages) \in Nat
      /\ expiry \in [Producers -> Expiries]
  BY LenProperties DEF QueueInv, TypeOK
<1>2. ASSUME NEW p \in Producers, EnqueueRefused(p) PROVE WakeInv'
  BY <1>2 DEF EnqueueRefused, WakeInv, NothingExpires, PresleepFull, NoLostWakeup, HasRoom
<1>3. ASSUME NEW p \in Producers, NEW ttl \in Ttls, EnqueueStamp(p, ttl) PROVE WakeInv'
  <2>1. ExpiryOf(ttl) = Never
    BY SMT DEF NoTtl, ExpiryOf, EffectiveTtl
  <2>2. /\ pc[p] = "idle" /\ pc' = [pc EXCEPT ![p] = "stamped"]
        /\ expiry' = [expiry EXCEPT ![p] = Never]
        /\ UNCHANGED <<messages, closed, notifyOne, notifyAll>>
    BY <1>3, <2>1 DEF EnqueueStamp
  <2>3. NothingExpires'
    BY <1>1, <2>2 DEF WakeInv, NothingExpires
  <2>4. Asleep(pc') = Asleep(pc)
    BY <1>1, <2>2 DEF Asleep
  <2> QED BY <1>1, <2>2, <2>3, <2>4 DEF WakeInv, PresleepFull, NoLostWakeup, HasRoom
<1>4. ASSUME NEW p \in Producers, EnqueueStep(p) PROVE WakeInv'
  BY <1>4, EnqueueKeepsWake
<1>5. ASSUME UNCHANGED <<messages, pc, expiry, closed, notifyOne>>, notifyAll \subseteq notifyAll'
      PROVE  WakeInv'
  BY <1>5 DEF WakeInv, NothingExpires, PresleepFull, NoLostWakeup, HasRoom
<1>6. CASE DequeueNothing
  <2>1. Len(messages) = 0
    BY SMT, <1>1, <1>6, ExpiredIsEmpty DEF DequeueNothing, WakeInv
  <2>2. messages' = messages
    BY SMT, <1>1, <1>6, <2>1 DEF DequeueNothing
  <2> QED BY <1>5, <1>6, <2>2 DEF DequeueNothing
<1>7. CASE DequeueMessage
  <2>1. PICK n \in 0..(Len(messages) - 1) : messages' = Without(n + 1)
    BY <1>7 DEF DequeueMessage
  <2>2. UNCHANGED <<pc, expiry, closed, notifyAll>> /\ MutexFree /\ notifyOne' = (Policy = "BLOCK")
    BY <1>7 DEF DequeueMessage
  <2>3. n + 1 \in 0..Len(messages)
    BY SMT, <1>1
  <2>4. NothingExpires'
    BY <2>1, <2>2, <2>3, RemovalNeverExpires DEF WakeInv
  <2>5. PresleepFull'
    BY <2>2 DEF MutexFree, PresleepFull
  <2>6. Asleep(pc') # {} => Policy = "BLOCK"
    BY <2>2 DEF Asleep, QueueInv, WaitersBlock
  <2>7. NoLostWakeup'
    BY <2>2, <2>6 DEF NoLostWakeup
  <2> QED BY <2>4, <2>5, <2>7 DEF WakeInv
<1>8. CASE ReapExpired
  <2>1. PICK n \in 0..Len(messages) : ExpiredPrefix(n) /\ messages' = Without(n)
    BY <1>8 DEF ReapExpired
  <2>2. n = 0
    BY <1>1, <2>1, ExpiredIsEmpty DEF WakeInv
  <2>3. messages' = messages
    BY <1>1, <2>1, <2>2, KeptIsWithout
  <2>4. notifyAll \subseteq notifyAll' /\ UNCHANGED <<pc, expiry, closed, notifyOne>>
    BY <1>8 DEF ReapExpired
  <2> QED BY <1>5, <2>3, <2>4
<1>9. CASE Close
  BY <1>9 DEF Close, WakeInv, NothingExpires, PresleepFull, NoLostWakeup, HasRoom
<1>10. CASE DequeueNotify
  <2>1. pc' \in WakeOne(pc) /\ UNCHANGED <<messages, expiry>>
    BY <1>10 DEF DequeueNotify
  <2>2. /\ \A q \in Producers : pc'[q] = "presleep" => pc[q] = "presleep"
        /\ Asleep(pc') # {} => \E q \in Producers : pc'[q] = "woken"
    BY <1>1, <2>1, WakeOneWakes
  <2> QED BY <2>1, <2>2 DEF WakeInv, NothingExpires, PresleepFull, NoLostWakeup, HasRoom
<1>11. ASSUME NEW t \in {"reaper", "closer"}, NotifyAll(t) PROVE WakeInv'
  <2>1. pc' = WakeAll(pc) /\ UNCHANGED <<messages, expiry>>
    BY <1>11 DEF NotifyAll
  <2>2. /\ \A q \in Producers : pc'[q] = "presleep" => pc[q] = "presleep"
        /\ Asleep(pc') = {}
    BY <1>1, <2>1 DEF WakeAll, Asleep
  <2> QED BY <2>1, <2>2 DEF WakeInv, NothingExpires, PresleepFull, NoLostWakeup, HasRoom
<1>12. CASE Tick \/ UNCHANGED vars
  BY <1>5, <1>12 DEF Tick, vars
<1> QED
  BY <1>2, <1>3, <1>4, <1>6, <1>7, <1>8, <1>9, <1>10, <1>11, <1>12 DEF Next

(* Without times to live, no publisher that waits under BLOCK is forgotten *)
(* while there is room: a notification is due, or a publisher that was     *)
(* woken or has pushed will pass it on.  With times to live it is false,   *)
(* since dequeue() discards expired messages without notifying.            *)
THEOREM NoWakeupIsLost == NoTtl => (Spec => []NoLostWakeup)
<1> SUFFICES ASSUME NoTtl PROVE Spec => []NoLostWakeup
  OBVIOUS
<1>1. Init => WakeInv
  BY SMT DEF Init, WakeInv, NothingExpires, PresleepFull, NoLostWakeup, Asleep
<1>2. QueueInv /\ WakeInv /\ [Next]_vars => WakeInv'
  BY WakeStep
<1>3. WakeInv => NoLostWakeup
  BY DEF WakeInv
<1> QED BY <1>1, <1>2, <1>3, InitInv, NextInv, PTL DEF Spec

-----------------------------------------------------------------------------
(* Every call is accounted for *)

Flying == {"stamped", "presleep", "asleep", "woken"}

\* The counts of calls once a producer has entered or left enqueue().
LEMMA InFlightChanges ==
  ASSUME IsFiniteSet(Producers), pc \in [Producers -> Steps], NEW p \in Producers,
         NEW step \in Steps, pc' = [pc EXCEPT ![p] = step]
  PROVE  /\ Cardinality(InFlight) \in Nat
         /\ (pc[p] \in Flying <=> step \in Flying) => InFlight' = InFlight
         /\ pc[p] \in Flying /\ step \notin Flying => Cardinality(InFlight') = Cardinality(InFlight) - 1
         /\ pc[p] \notin Flying /\ step \in Flying => Cardinality(InFlight') = Cardinality(InFlight) + 1
<1>1. InFlight \subseteq Producers
  BY DEF InFlight
<1>2. IsFiniteSet(InFlight)
  BY <1>1, FS_Subset
<1>3. Cardinality(InFlight) \in Nat
  BY <1>2, FS_CardinalityType
<1>4. (pc[p] \in Flying <=> step \in Flying) => InFlight' = InFlight
  BY DEF InFlight, Flying
<1>5. ASSUME pc[p] \in Flying, step \notin Flying
      PROVE  Cardinality(InFlight') = Cardinality(InFlight) - 1
  <2>1. InFlight' = InFlight \ {p} /\ p \in InFlight
    BY <1>5 DEF InFlight, Flying
  <2> QED BY <1>2, <2>1, FS_RemoveElement
<1>6. ASSUME pc[p] \notin Flying, step \in Flying
      PROVE  Cardinality(InFlight') = Cardinality(InFlight) + 1
  <2>1. InFlight' = InFlight \cup {p} /\ p \notin InFlight
    BY <1>6 DEF InFlight, Flying
  <2> QED BY <1>2, <2>1, FS_AddElement
<1> QED BY <1>3, <1>4, <1>5, <1>6

\* Waking up takes nobody out of enqueue().
LEMMA WakingStaysInFlight ==
  ASSUME NEW pcs \in [Producers -> Steps], NEW woken,
         woken \in WakeOne(pcs) \/ woken = WakeAll(pcs)
  PROVE  \A p \in Producers : woken[p] \in Flying <=> pcs[p] \in Flying
<1>1. CASE woken = WakeAll(pcs)
  BY <1>1 DEF WakeAll, Flying
<1>2. CASE woken \in WakeOne(pcs)
  <2>1. CASE Asleep(pcs) = {}
    BY <1>2, <2>1 DEF WakeOne
  <2>2. CASE Asleep(pcs) # {}
    <3>1. PICK w \in Asleep(pcs) : woken = [pcs EXCEPT ![w] = "woken"]
      BY <1>2, <2>2 DEF WakeOne
    <3> QED BY <3>1 DEF Asleep, Flying
  <2> QED BY <2>1, <2>2
<1> QED BY <1>1, <1>2

\* One call fewer in flight and one more pushed or rejected leave the sum alone.
LEMMA MovedOut ==
  ASSUME NEW e \in Nat, NEW n \in Nat, NEW f \in Nat, NEW c \in Nat
  PROVE  /\ (e + 1) + n + f + (c - 1) = e + n + f + c
         /\ e + (n + 1) + f + (c - 1) = e + n + f + c
BY SMT

\* Every step keeps the account of the calls.
LEMMA AccountStep ==
  IsFiniteSet(Producers) /\ QueueInv /\ AttemptsAccounted /\ [Next]_vars => AttemptsAccounted'
<1> SUFFICES ASSUME IsFiniteSet(Producers), QueueInv, AttemptsAccounted, [Next]_vars
             PROVE  AttemptsAccounted'
  OBVIOUS
<1>1. /\ pc \in [Producers -> Steps] /\ messages \in Seq(Message) /\ Len(messages) \in Nat
      /\ stats \in Stats /\ attempts \in Nat /\ refused \in Nat
  BY LenProperties DEF QueueInv, TypeOK
<1>2. stats.total_enqueued \in Nat /\ stats.dropped_newest \in Nat
  BY <1>1 DEF Stats
<1>14. refused \in Nat
  BY <1>1
<1>3. Cardinality(InFlight) \in Nat
  <2>1. InFlight \subseteq Producers
    BY DEF InFlight
  <2> QED BY <2>1, FS_Subset, FS_CardinalityType
<1>4. ASSUME stats'.total_enqueued = stats.total_enqueued,
             stats'.dropped_newest = stats.dropped_newest,
             InFlight' = InFlight, UNCHANGED <<attempts, refused>>
      PROVE  AttemptsAccounted'
  BY <1>4 DEF AttemptsAccounted
<1>5. ASSUME NEW p \in Producers, EnqueueRefused(p) PROVE AttemptsAccounted'
  <2>1. /\ attempts' = attempts + 1 /\ refused' = refused + 1 /\ stats' = stats
        /\ InFlight' = InFlight
    BY <1>5 DEF EnqueueRefused, InFlight
  <2> QED BY SMT, <1>1, <1>2, <1>3, <2>1 DEF AttemptsAccounted
<1>6. ASSUME NEW p \in Producers, NEW ttl \in Ttls, EnqueueStamp(p, ttl) PROVE AttemptsAccounted'
  <2>1. /\ attempts' = attempts + 1 /\ refused' = refused /\ stats' = stats
        /\ pc[p] = "idle" /\ pc' = [pc EXCEPT ![p] = "stamped"]
    BY <1>6 DEF EnqueueStamp
  <2>2. Cardinality(InFlight') = Cardinality(InFlight) + 1
    BY <1>1, <2>1, InFlightChanges DEF Steps, Flying
  <2> QED BY SMT, <1>1, <1>2, <1>3, <2>1, <2>2 DEF AttemptsAccounted
<1>7. ASSUME NEW p \in Producers,
             EnqueueWithRoom(p) \/ EnqueueDropOldest(p) \/ TakeRoom(p) \/ FallBack(p)
      PROVE  AttemptsAccounted'
  <2>1. pc[p] \in Flying
    BY <1>7, PushingSteps DEF Flying
  <2>2. PICK k \in {0, 1}, st \in Stats :
          /\ Push(p, Without(k), st) /\ st.total_enqueued = stats.total_enqueued
          /\ st.dropped_newest = stats.dropped_newest
    BY <1>7, PushingSteps
  <2>3. /\ pc' = [pc EXCEPT ![p] = "signal"] /\ UNCHANGED <<attempts, refused>>
        /\ stats'.total_enqueued = stats.total_enqueued + 1
        /\ stats'.dropped_newest = stats.dropped_newest
    BY <2>2 DEF Push, env, Stats
  <2>4. Cardinality(InFlight') = Cardinality(InFlight) - 1
    BY <1>1, <2>1, <2>3, InFlightChanges DEF Steps, Flying
  <2>5. attempts = stats.total_enqueued + stats.dropped_newest + refused + Cardinality(InFlight)
    BY DEF AttemptsAccounted
  <2>6. attempts = (stats.total_enqueued + 1) + stats.dropped_newest + refused + (Cardinality(InFlight) - 1)
    BY <1>2, <1>3, <1>14, <2>5, MovedOut, SMT
  <2> QED BY <2>3, <2>4, <2>6 DEF AttemptsAccounted
<1>8. ASSUME NEW p \in Producers, EnqueueDropNewest(p) PROVE AttemptsAccounted'
  <2>1. /\ pc[p] = "stamped" /\ pc' = [pc EXCEPT ![p] = "idle"] /\ UNCHANGED <<attempts, refused>>
        /\ stats'.total_enqueued = stats.total_enqueued
        /\ stats'.dropped_newest = stats.dropped_newest + 1
    BY <1>1, <1>8 DEF EnqueueDropNewest, env, Stats
  <2>2. Cardinality(InFlight') = Cardinality(InFlight) - 1
    BY <1>1, <2>1, InFlightChanges DEF Steps, Flying
  <2>3. attempts = stats.total_enqueued + stats.dropped_newest + refused + Cardinality(InFlight)
    BY DEF AttemptsAccounted
  <2>4. attempts = stats.total_enqueued + (stats.dropped_newest + 1) + refused + (Cardinality(InFlight) - 1)
    BY <1>2, <1>3, <1>14, <2>3, MovedOut, SMT
  <2> QED BY <2>1, <2>2, <2>4 DEF AttemptsAccounted
<1>9. ASSUME NEW p \in Producers, EnqueueBlock(p) \/ Sleep(p) \/ SleepAgain(p)
      PROVE  AttemptsAccounted'
  <2>1. PICK step \in {"presleep", "asleep"} : pc' = [pc EXCEPT ![p] = step]
    BY <1>9 DEF EnqueueBlock, Sleep, SleepAgain, PrepareToSleep
  <2>2. pc[p] \in Flying /\ UNCHANGED <<stats, attempts, refused>>
    BY <1>9 DEF EnqueueBlock, Sleep, SleepAgain, PrepareToSleep, Flying, env
  <2>3. InFlight' = InFlight
    BY <1>1, <2>1, <2>2, InFlightChanges DEF Steps, Flying
  <2> QED BY <1>4, <2>2, <2>3
<1>10. ASSUME NEW p \in Producers, Signal(p) PROVE AttemptsAccounted'
  <2> DEFINE pcs == [pc EXCEPT ![p] = "idle"]
  <2>1. pcs \in [Producers -> Steps] /\ \A q \in Producers : pcs[q] \in Flying <=> pc[q] \in Flying
    BY <1>1, <1>10 DEF Signal, Steps, Flying
  <2>2. pc' \in WakeOne(pcs) /\ UNCHANGED <<stats, attempts, refused>>
    BY <1>10 DEF Signal, env
  <2> HIDE DEF pcs
  <2>3. \A q \in Producers : pc'[q] \in Flying <=> pc[q] \in Flying
    BY <2>1, <2>2, WakingStaysInFlight
  <2>4. InFlight' = InFlight
    BY <2>3 DEF InFlight, Flying
  <2> QED BY <1>4, <2>2, <2>4
<1>11. CASE DequeueNotify \/ \E t \in {"reaper", "closer"} : NotifyAll(t)
  <2>1. (pc' \in WakeOne(pc) \/ pc' = WakeAll(pc)) /\ UNCHANGED <<stats, attempts, refused>>
    BY <1>11 DEF DequeueNotify, NotifyAll, env
  <2>2. \A q \in Producers : pc'[q] \in Flying <=> pc[q] \in Flying
    BY <1>1, <2>1, WakingStaysInFlight
  <2>3. InFlight' = InFlight
    BY <2>2 DEF InFlight, Flying
  <2> QED BY <1>4, <2>1, <2>3
<1>12. CASE DequeueNothing \/ DequeueMessage \/ ReapExpired
  <2>1. UNCHANGED <<pc, attempts, refused>>
    BY <1>12 DEF DequeueNothing, DequeueMessage, ReapExpired, env
  <2>2. stats'.total_enqueued = stats.total_enqueued /\ stats'.dropped_newest = stats.dropped_newest
    <3>1. CASE DequeueNothing
      BY <1>1, <3>1 DEF DequeueNothing, Stats
    <3>2. CASE DequeueMessage
      BY <1>1, <3>2 DEF DequeueMessage, Stats
    <3>3. CASE ReapExpired
      BY <1>1, <3>3 DEF ReapExpired, Stats
    <3> QED BY <1>12, <3>1, <3>2, <3>3
  <2>3. InFlight' = InFlight
    BY <2>1 DEF InFlight
  <2> QED BY <1>4, <2>1, <2>2, <2>3
<1>13. CASE Close \/ Tick \/ UNCHANGED vars
  BY <1>4, <1>13 DEF Close, Tick, vars, env, InFlight
<1> QED
  BY <1>5, <1>6, <1>7, <1>8, <1>9, <1>10, <1>11, <1>12, <1>13 DEF Next, EnqueueStep

(* Every call of enqueue() ends in a push, a rejection or a refusal that   *)
(* is counted, or is still inside, for any finite number of publishers.    *)
THEOREM CallsAccounted == IsFiniteSet(Producers) => (Spec => []AttemptsAccounted)
<1> SUFFICES ASSUME IsFiniteSet(Producers) PROVE Spec => []AttemptsAccounted
  OBVIOUS
<1>1. Init => AttemptsAccounted
  <2> SUFFICES ASSUME Init PROVE AttemptsAccounted
    OBVIOUS
  <2>1. InFlight = {}
    BY DEF Init, InFlight
  <2> QED BY SMT, <2>1, FS_EmptySet DEF Init, AttemptsAccounted
<1>2. QueueInv /\ AttemptsAccounted /\ [Next]_vars => AttemptsAccounted'
  BY AccountStep
<1> QED BY <1>1, <1>2, InitInv, NextInv, PTL DEF Spec

-----------------------------------------------------------------------------
(* Nothing too old is handed out *)

\* What Append() adds can be read off its result.
LEMMA AppendedLast ==
  ASSUME NEW s \in Seq(Nat), NEW a \in Nat, NEW b \in Nat
  PROVE  Append(s, a) # s /\ (Append(s, a) = Append(s, b) => a = b)
<1>1. Len(s) \in Nat /\ Len(Append(s, a)) = Len(s) + 1
  BY LenProperties, AppendProperties
<1>2. Append(s, a)[Len(s) + 1] = a /\ Append(s, b)[Len(s) + 1] = b
  BY SMT, AppendProperties
<1> QED BY SMT, <1>1, <1>2

(* dequeue() returns only messages whose time to live is not over at that  *)
(* moment, whoever pushed them and however long they waited.               *)
THEOREM NothingExpiredIsDelivered == Spec => NoExpiredDelivery
<1>1. ASSUME QueueInv, [Next]_vars
      PROVE  [\A m \in {messages[i] : i \in DOMAIN messages} :
                delivered' = Append(delivered, m.ticket) => ~Expired(m)]_vars
  <2> SUFFICES ASSUME NEW j \in DOMAIN messages,
                      delivered' = Append(delivered, messages[j].ticket)
               PROVE  ~Expired(messages[j])
    OBVIOUS
  <2>1. /\ messages \in Seq(Message) /\ Len(messages) \in Nat /\ DOMAIN messages = 1..Len(messages)
        /\ delivered \in Seq(Nat) /\ Len(delivered) \in Nat
        /\ stats.total_enqueued \in Nat
    <3>1. messages \in Seq(Message) /\ delivered \in Seq(Nat) /\ stats \in Stats
      BY <1>1 DEF QueueInv, TypeOK
    <3>2. stats.total_enqueued \in Nat
      BY <3>1 DEF Stats
    <3> QED BY <3>1, <3>2, LenProperties
  <2>2. messages[j].ticket \in Nat
    <3>1. messages[j] \in Message
      BY SMT, <2>1
    <3> QED BY <3>1 DEF Message
  <2>4. delivered' # delivered
    BY <2>1, <2>2, AppendedLast
  <2>5. DequeueMessage
    <3>1. ASSUME NEW p \in Producers, EnqueueStep(p) PROVE delivered' = delivered
      BY <3>1 DEF EnqueueStep, EnqueueWithRoom, EnqueueDropOldest, EnqueueDropNewest, EnqueueBlock,
         Sleep, SleepAgain, TakeRoom, FallBack, Signal, PrepareToSleep, PushOverOldest, Push
    <3> QED BY <1>1, <2>4, <3>1 DEF Next, vars, EnqueueRefused, EnqueueStamp, DequeueNothing,
         DequeueNotify, ReapExpired, Close, NotifyAll, Tick
  <2>6. PICK n \in 0..(Len(messages) - 1) :
          ExpiredPrefix(n) /\ delivered' = Append(delivered, messages[n + 1].ticket)
    BY <2>5 DEF DequeueMessage
  <2>7. n + 1 \in DOMAIN messages /\ n < Len(messages)
    BY SMT, <2>1
  <2>8. messages[n + 1].ticket = messages[j].ticket
    <3>1. messages[n + 1].ticket \in Nat
      <4>1. messages[n + 1] \in Message
        BY SMT, <2>1, <2>7
      <4> QED BY <4>1 DEF Message
    <3> QED BY <2>1, <2>2, <2>6, <3>1, AppendedLast
  <2>9. /\ messages[j].ticket = stats.total_enqueued - Len(messages) + j
        /\ messages[n + 1].ticket = stats.total_enqueued - Len(messages) + (n + 1)
    BY <1>1, <2>7 DEF QueueInv, QueueIsSuffix
  <2>10. j = n + 1
    BY SMT, <2>1, <2>8, <2>9
  <2>11. ~Expired(messages[n + 1])
    BY <2>6, <2>7 DEF ExpiredPrefix
  <2> QED BY <2>10, <2>11
<1> QED BY <1>1, InitInv, NextInv, PTL DEF Spec, NoExpiredDelivery
=============================================================================
