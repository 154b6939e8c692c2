------------------------ MODULE SubscriptionStreamProofs ------------------------
(***************************************************************************)
(* Proofs about SubscriptionStream for any number of delivery threads, any *)
(* limit and any mix of policies: at most one write is out at a time, and  *)
(* the subscriber sees the messages in the order of the queue.             *)
(***************************************************************************)
EXTENDS SubscriptionStream, SequenceTheorems, TLAPS

\* Steps that need arithmetic cite SMT.
USE Zenon

-----------------------------------------------------------------------------
(* One write at a time *)

Callbacks == {"none", "called", "failed", "proceed"}

\* The types that the argument about writes needs.
WriteTypes ==
  /\ pc \in [Deliverers -> Steps]
  /\ outstanding \in Nat /\ constructing \in Nat
  /\ callback \in Callbacks
  /\ writing \in BOOLEAN /\ finished \in BOOLEAN /\ raced \in BOOLEAN

(* The right to write is a token.  An outstanding write holds it, or       *)
(* OnWriteDone(), or the constructor, or the one thread that has won the   *)
(* exchange; Finish() takes it away for good.                              *)
TokenHeld ==
  /\ outstanding <= 1
  /\ callback # "none" => outstanding = 0
  /\ constructing > 0 => outstanding = 0 /\ callback = "none" /\ ~finished
  /\ finished => outstanding = 0 /\ callback = "none"

\* A thread that has won the exchange holds the token alone.
StarterAlone ==
  \A d \in Deliverers :
    pc[d] = "start" => writing /\ ~Writes /\ \A e \in Deliverers : pc[e] = "start" => e = d

\* Once the constructor's writes are over, the flag is set while the token is held.
FlagSet == ~setup.opening => constructing = 0 /\ (Writes => writing)

WriteInv == WriteTypes /\ (raced \/ (TokenHeld /\ StarterAlone /\ FlagSet))

\* The invariant holds when a stream is opened, and when its first write is done.
LEMMA WriteInit == Init => WriteInv
<1> SUFFICES ASSUME Init PROVE WriteInv
  OBVIOUS
<1>1. setup \in SetupType
  BY StreamAssumption DEF Init
<1>2. setup.retained \in Nat /\ setup.opening \in BOOLEAN
  BY <1>1 DEF SetupType
<1>3. constructing \in Nat /\ (~setup.opening => constructing = 0)
  BY SMT, <1>2 DEF Init
<1>4. WriteTypes
  BY <1>3 DEF Init, WriteTypes, Steps, Callbacks
<1>5. TokenHeld
  BY SMT DEF Init, TokenHeld
<1>6. StarterAlone
  BY DEF Init, StarterAlone
<1>7. FlagSet
  BY SMT, <1>3 DEF Init, FlagSet, Writes
<1> QED BY <1>4, <1>5, <1>6, <1>7 DEF WriteInv

\* What StartWrite() and a dequeue() without result do to the writes that are out.
LEMMA WritesOut ==
  /\ StartNextWrite => outstanding' = outstanding + 1
  /\ NothingToWrite => outstanding' = outstanding
BY DEF StartNextWrite, NothingToWrite

\* Every step of every thread keeps it.
LEMMA WriteStep == WriteInv /\ [Next]_vars => WriteInv'
<1> SUFFICES ASSUME WriteInv, [Next]_vars PROVE WriteInv'
  OBVIOUS
<1> USE DEF WriteInv, WriteTypes, TokenHeld, StarterAlone, FlagSet, Writes, Steps, Callbacks,
            stream, call, items, log
<1>1. CASE Constructor
  BY SMT, <1>1 DEF Constructor, ConstructorEnqueue, ConstructorStart
<1>2. ASSUME NEW d \in Deliverers, Choose(d) PROVE WriteInv'
  BY <1>2 DEF Choose
<1>3. ASSUME NEW d \in Deliverers, Enter(d) PROVE WriteInv'
  BY <1>3 DEF Enter
<1>4. ASSUME NEW d \in Deliverers, Enqueue(d) PROVE WriteInv'
  BY <1>4 DEF Enqueue
<1>5. ASSUME NEW d \in Deliverers, Unblock(d) PROVE WriteInv'
  BY <1>5 DEF Unblock
<1>6. ASSUME NEW d \in Deliverers, Exchange(d) PROVE WriteInv'
  BY <1>6 DEF Exchange
<1>7. ASSUME NEW d \in Deliverers, Start(d) PROVE WriteInv'
  <2>1. /\ pc[d] = "start" /\ pc' = [pc EXCEPT ![d] = "idle"]
        /\ UNCHANGED <<setup, callback, finished, constructing, raced>>
    BY <1>7 DEF Start
  <2>2. CASE outstanding' = outstanding + 1 /\ writing' = writing
    BY SMT, <2>1, <2>2
  <2>3. CASE outstanding' = outstanding /\ writing' \in {FALSE, writing}
    BY <2>1, <2>3
  <2> QED BY WritesOut, <1>7, <2>2, <2>3 DEF Start
<1>8. CASE WriteCompletes
  BY SMT, <1>8 DEF WriteCompletes
<1>9. CASE OnWriteDoneFinish
  BY <1>9 DEF OnWriteDoneFinish
<1>10. CASE OnWriteDoneProceed
  BY <1>10 DEF OnWriteDoneProceed
<1>11. CASE OnWriteDoneNext
  <2>1. /\ callback = "proceed" /\ callback' = "none"
        /\ UNCHANGED <<setup, finished, constructing, raced, pc>>
    BY <1>11 DEF OnWriteDoneNext
  <2>2. CASE outstanding' = outstanding + 1 /\ writing' = writing
    BY SMT, <2>1, <2>2
  <2>3. CASE outstanding' = outstanding /\ writing' = FALSE
    BY <2>1, <2>3
  <2> QED BY WritesOut, <1>11, <2>2, <2>3 DEF OnWriteDoneNext
<1>12. CASE OnCancel \/ OnDone \/ Unsubscribe
  BY SMT, <1>12 DEF OnCancel, OnDone, Unsubscribe
<1>13. CASE ReapExpired \/ Expire
  BY SMT, <1>13 DEF ReapExpired, Expire
<1>14. CASE UNCHANGED vars
  BY <1>14 DEF vars
<1> QED
  BY <1>1, <1>2, <1>3, <1>4, <1>5, <1>6, <1>7, <1>8, <1>9, <1>10, <1>11, <1>12, <1>13, <1>14
  DEF Next, DeliveryStep, OnWriteDone

(* A second write is never started and nothing is written after Finish(),  *)
(* unless a delivery won the exchange during the constructor's writes: the *)
(* flag writing is enough for any number of threads in deliverFromRemote().*)
THEOREM OneWriteAtATime == Spec => []SingleWrite
<1>1. WriteInv => SingleWrite
  BY DEF WriteInv, WriteTypes, TokenHeld, SingleWrite
<1> QED BY <1>1, WriteInit, WriteStep, PTL DEF Spec

-----------------------------------------------------------------------------
(* Order and accounting *)

Increasing(s) == \A i, j \in 1..Len(s) : i < j => s[i] < s[j]

Below(s, t) == \A i \in 1..Len(s), j \in 1..Len(t) : s[i] < t[j]

\* The messages pushed so far are numbered 1 to a.
Numbered(s, a) == s \in Seq(1..a) /\ Increasing(s)

\* What was written comes before what is queued.
Ordered(w, q, a) == a \in Nat /\ Numbered(w, a) /\ Numbered(q, a) /\ Below(w, q)

\* The message that is being written comes between them.
Between(w, c, q) == (\A i \in 1..Len(w) : w[i] < c) /\ (\A j \in 1..Len(q) : c < q[j])

OrderInv ==
  /\ Ordered(written, queue, accepted)
  /\ current \in 0..accepted /\ outstanding \in Nat
  /\ outstanding > 0 /\ current # 0 => Between(written, current, queue)

\* The elements of a concatenation.
LEMMA ConcatIndex ==
  ASSUME NEW S, NEW s \in Seq(S), NEW t \in Seq(S)
  PROVE  /\ s \o t \in Seq(S) /\ Len(s \o t) = Len(s) + Len(t)
         /\ \A i \in 1..(Len(s) + Len(t)) :
              (s \o t)[i] = IF i <= Len(s) THEN s[i] ELSE t[i - Len(s)]
BY SMT

\* Two increasing sequences, one below the other, make an increasing one.
LEMMA ConcatIncreasing ==
  ASSUME NEW a \in Nat, NEW s \in Seq(1..a), NEW t \in Seq(1..a),
         Increasing(s), Increasing(t), Below(s, t)
  PROVE  Numbered(s \o t, a)
<1> DEFINE c == s \o t
<1>1. c \in Seq(1..a) /\ Len(c) = Len(s) + Len(t)
  BY ConcatIndex
<1>2. \A i \in 1..Len(c) : c[i] = IF i <= Len(s) THEN s[i] ELSE t[i - Len(s)]
  BY <1>1, ConcatIndex
<1>3. Len(s) \in Nat /\ Len(t) \in Nat
  BY LenProperties
<1> HIDE DEF c
<1>4. ASSUME NEW i \in 1..Len(c), NEW j \in 1..Len(c), i < j
      PROVE  c[i] < c[j]
  <2>1. CASE j <= Len(s)
    <3>1. i \in 1..Len(s) /\ j \in 1..Len(s) /\ i <= Len(s)
      BY SMT, <1>3, <1>4, <2>1
    <3>2. c[i] = s[i] /\ c[j] = s[j]
      BY <1>2, <2>1, <3>1
    <3>3. s[i] < s[j]
      BY <1>4, <3>1 DEF Increasing
    <3> QED BY <3>2, <3>3
  <2>2. CASE i <= Len(s) /\ j > Len(s)
    <3>1. i \in 1..Len(s) /\ j - Len(s) \in 1..Len(t) /\ ~(j <= Len(s))
      <4>1. i \in Nat /\ i >= 1 /\ j \in Nat /\ j <= Len(s) + Len(t)
        BY SMT, <1>1, <1>3, <1>4
      <4> QED BY SMT, <1>3, <2>2, <4>1
    <3>2. c[i] = s[i] /\ c[j] = t[j - Len(s)]
      BY <1>2, <2>2, <3>1
    <3>3. s[i] < t[j - Len(s)]
      BY <3>1 DEF Below
    <3> QED BY <3>2, <3>3
  <2>3. CASE i > Len(s)
    <3>1. /\ i - Len(s) \in 1..Len(t) /\ j - Len(s) \in 1..Len(t)
          /\ i - Len(s) < j - Len(s)
      BY SMT, <1>1, <1>3, <1>4, <2>3
    <3>2. c[i] = t[i - Len(s)] /\ c[j] = t[j - Len(s)]
      BY SMT, <1>2, <1>3, <1>4, <2>3
    <3>3. t[i - Len(s)] < t[j - Len(s)]
      BY <3>1 DEF Increasing
    <3> QED BY <3>2, <3>3
  <2> QED BY SMT, <2>1, <2>2, <2>3
<1>5. Numbered(c, a)
  BY <1>1, <1>4 DEF Numbered, Increasing
<1> QED BY <1>5 DEF c

\* What is left of q without its first n messages.
Rest(q, n) == SubSeq(q, n + 1, Len(q))

Suffix(w, q, a, n, r) ==
  /\ Ordered(w, r, a) /\ Len(r) = Len(q) - n
  /\ \A i \in 1..Len(r) : n + i \in 1..Len(q) /\ r[i] = q[n + i]
  /\ \A c : Between(w, c, q) => Between(w, c, r)

\* What is left of the queue when messages are removed from its front.
LEMMA SuffixOrdered ==
  ASSUME NEW a, NEW w, NEW q, Ordered(w, q, a), NEW n \in 0..Len(q)
  PROVE  Suffix(w, q, a, n, Rest(q, n))
<1> DEFINE r == Rest(q, n)
<1>1. a \in Nat /\ q \in Seq(1..a)
  BY DEF Ordered, Numbered
<1>2. Len(q) \in Nat /\ \A i \in (n + 1)..Len(q) : q[i] \in 1..a
  BY SMT, <1>1, LenProperties
<1>3. r \in Seq(1..a) /\ Len(r) = Len(q) - n
      /\ \A i \in 1..Len(r) : r[i] = q[n + i] /\ n + i \in 1..Len(q)
  <2> DEFINE f == n + 1
             l == Len(q)
  <2>1. f \in Int /\ l \in Int /\ \A i \in f..l : q[i] \in 1..a
    BY SMT, <1>2
  <2> HIDE DEF f, l
  <2>2. /\ SubSeq(q, f, l) \in Seq(1..a)
        /\ Len(SubSeq(q, f, l)) = IF f <= l THEN l - f + 1 ELSE 0
        /\ \A i \in 1..(l - f + 1) : SubSeq(q, f, l)[i] = q[f + i - 1]
    BY SMT, <2>1, SubSeqProperties
  <2>3. r = SubSeq(q, f, l)
    BY DEF f, l, Rest
  <2> HIDE DEF r
  <2>4. Len(r) = Len(q) - n
    BY SMT, <1>2, <2>2, <2>3 DEF f, l
  <2>5. ASSUME NEW i \in 1..Len(r) PROVE r[i] = q[n + i] /\ n + i \in 1..Len(q)
    <3>1. i \in 1..(l - f + 1) /\ f + i - 1 = n + i /\ n + i \in 1..Len(q)
      BY SMT, <1>2, <2>4 DEF f, l
    <3> QED BY <2>2, <2>3, <3>1
  <2> QED BY <2>2, <2>3, <2>4, <2>5
<1> HIDE DEF r
<1>4. Increasing(r)
  <2> SUFFICES ASSUME NEW i \in 1..Len(r), NEW j \in 1..Len(r), i < j
               PROVE  r[i] < r[j]
    BY DEF Increasing
  <2>1. n + i \in 1..Len(q) /\ n + j \in 1..Len(q) /\ n + i < n + j
    BY SMT, <1>2, <1>3
  <2>2. q[n + i] < q[n + j]
    BY <2>1 DEF Ordered, Numbered, Increasing
  <2> QED BY <1>3, <2>2
<1>6. Below(w, r)
  BY <1>3 DEF Ordered, Below
<1>5. Ordered(w, r, a)
  BY <1>3, <1>4, <1>6 DEF Ordered, Numbered
<1>7. \A c : Between(w, c, q) => Between(w, c, r)
  BY <1>3 DEF Between
<1>8. Suffix(w, q, a, n, r)
  BY <1>3, <1>5, <1>7 DEF Suffix
<1> QED BY <1>8 DEF r

\* A push at the end of the queue gives the message the next number.
LEMMA PushOrdered ==
  ASSUME NEW a, NEW w, NEW q, Ordered(w, q, a)
  PROVE  /\ Ordered(w, Append(q, a + 1), a + 1) /\ Len(Append(q, a + 1)) = Len(q) + 1
         /\ \A c \in 1..a : Between(w, c, q) => Between(w, c, Append(q, a + 1))
<1> DEFINE r == Append(q, a + 1)
<1>1. a \in Nat /\ q \in Seq(1..a) /\ w \in Seq(1..a)
  BY DEF Ordered, Numbered
<1>2. /\ Len(r) = Len(q) + 1 /\ \A i \in 1..Len(q) : r[i] = q[i]
      /\ r[Len(q) + 1] = a + 1
  BY SMT, <1>1
<1>3. r \in Seq(1..(a + 1)) /\ w \in Seq(1..(a + 1))
  <2>1. q \in Seq(1..(a + 1)) /\ w \in Seq(1..(a + 1))
    BY SMT, <1>1
  <2> QED BY SMT, <1>1, <2>1
<1>4. (\A i \in 1..Len(q) : q[i] <= a) /\ (\A i \in 1..Len(w) : w[i] <= a)
  BY SMT, <1>1
<1> HIDE DEF r
<1>5. Increasing(r) /\ Increasing(w) /\ Below(w, r)
  <2>1. Increasing(q) /\ Increasing(w) /\ Below(w, q)
    BY DEF Ordered, Numbered
  <2>2. \A i \in 1..Len(r) : i \in 1..Len(q) \/ i = Len(q) + 1
    BY SMT, <1>1, <1>2
  <2>3. ASSUME NEW i \in 1..Len(r), NEW j \in 1..Len(r), i < j PROVE r[i] < r[j]
    <3>1. i \in 1..Len(q)
      BY SMT, <1>1, <1>2, <2>3
    <3>2. CASE j \in 1..Len(q)
      BY <1>2, <2>1, <2>3, <3>1, <3>2 DEF Increasing
    <3>3. CASE j = Len(q) + 1
      <4>1. r[i] = q[i] /\ q[i] <= a /\ q[i] \in 1..a /\ r[j] = a + 1
        BY SMT, <1>1, <1>2, <1>4, <3>1, <3>3
      <4> QED BY SMT, <1>1, <4>1
    <3> QED BY <2>2, <3>2, <3>3
  <2>4. ASSUME NEW i \in 1..Len(w), NEW j \in 1..Len(r) PROVE w[i] < r[j]
    <3>1. CASE j \in 1..Len(q)
      BY <1>2, <2>1, <3>1 DEF Below
    <3>2. CASE j = Len(q) + 1
      <4>1. w[i] <= a /\ w[i] \in 1..a /\ r[j] = a + 1
        BY SMT, <1>1, <1>2, <1>4, <3>2
      <4> QED BY SMT, <1>1, <4>1
    <3> QED BY <2>2, <3>1, <3>2
  <2> QED BY <2>1, <2>3, <2>4 DEF Increasing, Below
<1>6. \A c \in 1..a : Between(w, c, q) => Between(w, c, r)
  BY SMT, <1>1, <1>2 DEF Between
<1>7. Ordered(w, r, a + 1)
  BY SMT, <1>1, <1>3, <1>5 DEF Ordered, Numbered
<1> QED BY <1>2, <1>6, <1>7 DEF r

FlowInv == OrderInv /\ dropped \in Nat /\ failed \in Nat /\ Conserved

Riding == IF outstanding > 0 /\ current # 0 THEN 1 ELSE 0

\* Conserved in numbers.
LEMMA ConservedByCount ==
  Conserved <=> (outstanding <= 1 => accepted = Len(queue) + Riding + Len(written) + dropped + failed)
<1>1. Len(OnTheWay) = Riding
  BY DEF OnTheWay, Riding
<1> QED BY <1>1 DEF Conserved

\* The same, after a step.
LEMMA ConservedByCountNext ==
  Conserved' <=> (outstanding' <= 1 => accepted' = Len(queue') + Riding' + Len(written') + dropped' + failed')
<1>1. Len(OnTheWay') = Riding'
  BY DEF OnTheWay, Riding
<1> QED BY <1>1 DEF Conserved

\* Taking messages from the front and counting them as dropped keeps the invariant.
LEMMA RemoveKeepsFlow ==
  ASSUME FlowInv, NEW n \in 0..Len(queue), queue' = Without(n), dropped' = dropped + n,
         UNCHANGED <<accepted, current, outstanding, written, failed>>
  PROVE  FlowInv'
<1>1. /\ Ordered(written, queue', accepted) /\ Len(queue') = Len(queue) - n
      /\ \A c : Between(written, c, queue) => Between(written, c, queue')
  <2>1. Ordered(written, queue, accepted)
    BY DEF FlowInv, OrderInv
  <2>2. queue' = Rest(queue, n)
    BY DEF Without, Rest
  <2>3. Suffix(written, queue, accepted, n, queue')
    BY <2>1, <2>2, SuffixOrdered
  <2> QED BY <2>3 DEF Suffix
<1>2. accepted \in Nat /\ queue \in Seq(1..accepted) /\ written \in Seq(1..accepted)
  BY DEF FlowInv, OrderInv, Ordered, Numbered
<1>4. OrderInv'
  BY <1>1 DEF FlowInv, OrderInv
<1>5. Riding' = Riding /\ Riding \in Nat
  BY DEF Riding
<1>6. Conserved'
  <2>1. Len(queue) \in Nat /\ Len(written) \in Nat /\ dropped \in Nat /\ failed \in Nat
    BY SMT, <1>2 DEF FlowInv
  <2>2. /\ accepted' = accepted /\ dropped' = dropped + n /\ Len(queue') = Len(queue) - n
        /\ Len(written') = Len(written) /\ failed' = failed /\ outstanding' = outstanding
    BY <1>1
  <2>3. outstanding <= 1 => accepted = Len(queue) + Riding + Len(written) + dropped + failed
    BY ConservedByCount DEF FlowInv
  <2>4. outstanding' <= 1 => accepted' = Len(queue') + Riding' + Len(written') + dropped' + failed'
    BY SMT, <1>5, <2>1, <2>2, <2>3
  <2> QED BY <2>4, ConservedByCountNext
<1> QED BY SMT, <1>2, <1>4, <1>6 DEF FlowInv

\* Pushing a message, after dropping the oldest or not, keeps the invariant.
LEMMA PushKeepsFlow ==
  ASSUME FlowInv, UNCHANGED <<current, outstanding, written, failed>>,
         (PushBack(queue) /\ UNCHANGED dropped) \/ (Len(queue) > 0 /\ PushOverOldest)
  PROVE  FlowInv'
<1>1. accepted \in Nat /\ queue \in Seq(1..accepted) /\ written \in Seq(1..accepted)
  BY DEF FlowInv, OrderInv, Ordered, Numbered
<1>2. PICK n \in {0, 1} : /\ n <= Len(queue) /\ dropped' = dropped + n /\ accepted' = accepted + 1
                          /\ queue' = Append(Without(n), accepted + 1)
  <2>1. CASE PushBack(queue) /\ UNCHANGED dropped
    <3>1. Without(0) = queue
      BY SMT, <1>1 DEF Without
    <3> QED BY SMT, <1>1, <2>1, <3>1 DEF PushBack, FlowInv
  <2>2. CASE Len(queue) > 0 /\ PushOverOldest
    <3>1. Without(1) = Tail(queue)
      BY SMT, <1>1, <2>2 DEF Without
    <3> QED BY SMT, <1>1, <2>2, <3>1 DEF PushOverOldest, PushBack
  <2> QED BY <2>1, <2>2
<1>3. /\ Ordered(written, Without(n), accepted) /\ Len(Without(n)) = Len(queue) - n
      /\ \A c : Between(written, c, queue) => Between(written, c, Without(n))
  <2>1. n \in 0..Len(queue)
    BY SMT, <1>1, <1>2
  <2>2. Ordered(written, queue, accepted)
    BY DEF FlowInv, OrderInv
  <2>3. Without(n) = Rest(queue, n)
    BY DEF Without, Rest
  <2>4. Suffix(written, queue, accepted, n, Without(n))
    BY <2>1, <2>2, <2>3, SuffixOrdered
  <2> QED BY <2>4 DEF Suffix
<1>4. /\ Ordered(written, queue', accepted') /\ Len(queue') = Len(queue) - n + 1
      /\ \A c \in 1..accepted : Between(written, c, Without(n)) => Between(written, c, queue')
  BY <1>2, <1>3, PushOrdered
<1>6. OrderInv'
  <2>1. current \in 0..accepted'
    BY SMT, <1>1, <1>2 DEF FlowInv, OrderInv
  <2>2. current # 0 => current \in 1..accepted
    BY SMT, <1>1 DEF FlowInv, OrderInv
  <2> QED BY <1>3, <1>4, <2>1, <2>2 DEF FlowInv, OrderInv
<1>7. Riding' = Riding /\ Riding \in Nat
  BY DEF Riding
<1>8. Conserved'
  BY SMT, <1>1, <1>2, <1>4, <1>7, ConservedByCount, ConservedByCountNext DEF FlowInv
<1> QED BY SMT, <1>1, <1>2, <1>6, <1>8 DEF FlowInv

\* So does the start of a write with the first message that is not expired.
LEMMA StartKeepsFlow ==
  ASSUME FlowInv, outstanding <= 1, StartNextWrite, UNCHANGED <<written, failed>>
  PROVE  FlowInv'
<1>1. PICK n \in 0..(Len(queue) - 1) :
        /\ current' = queue[n + 1] /\ outstanding' = outstanding + 1
        /\ queue' = Without(n + 1) /\ dropped' = dropped + n /\ accepted' = accepted
  BY DEF StartNextWrite
<1>2. /\ accepted \in Nat /\ queue \in Seq(1..accepted) /\ written \in Seq(1..accepted)
      /\ Increasing(queue) /\ Below(written, queue)
  BY DEF FlowInv, OrderInv, Ordered, Numbered
<1>3. n + 1 \in 1..Len(queue) /\ n \in Nat
  BY SMT, <1>2
<1>4. /\ Ordered(written, queue', accepted) /\ Len(queue') = Len(queue) - (n + 1)
      /\ \A i \in 1..Len(queue') : n + 1 + i \in 1..Len(queue) /\ queue'[i] = queue[n + 1 + i]
  <2> DEFINE m == n + 1
  <2>1. Ordered(written, queue, accepted) /\ m \in 0..Len(queue)
    <3>1. Ordered(written, queue, accepted)
      BY DEF FlowInv, OrderInv
    <3>2. m \in 0..Len(queue)
      BY SMT, <1>3
    <3> QED BY <3>1, <3>2
  <2>2. queue' = Rest(queue, m)
    BY <1>1 DEF Without, Rest
  <2> HIDE DEF m
  <2>3. Suffix(written, queue, accepted, m, queue')
    BY <2>1, <2>2, SuffixOrdered
  <2> QED BY <2>3 DEF Suffix, m
<1>5. current' \in 1..accepted
  BY SMT, <1>1, <1>2, <1>3
<1>6. Between(written, current', queue')
  <2>1. \A i \in 1..Len(written) : written[i] < current'
    BY <1>1, <1>2, <1>3 DEF Below
  <2>2. ASSUME NEW j \in 1..Len(queue') PROVE current' < queue'[j]
    <3>1. n + 1 + j \in 1..Len(queue)
      BY <1>4
    <3>2. j \in Nat /\ j > 0
      BY SMT, <1>4 DEF Ordered, Numbered
    <3>3. n + 1 < n + 1 + j
      BY SMT, <1>3, <3>2
    <3> QED BY <1>1, <1>2, <1>3, <1>4, <3>1, <3>3 DEF Increasing
  <2> QED BY <2>1, <2>2 DEF Between
<1>7. OrderInv'
  BY SMT, <1>1, <1>2, <1>4, <1>5, <1>6 DEF FlowInv, OrderInv
<1>8. Riding' = 1 /\ (outstanding = 0 => Riding = 0) /\ (outstanding' <= 1 => outstanding = 0)
  BY SMT, <1>1, <1>2, <1>5 DEF Riding, FlowInv, OrderInv
<1>9. Conserved'
  <2>1. /\ Len(queue) \in Nat /\ Len(written) \in Nat /\ dropped \in Nat /\ failed \in Nat
        /\ outstanding \in Nat
    BY SMT, <1>2 DEF FlowInv, OrderInv
  <2>2. ASSUME outstanding' <= 1
        PROVE  accepted = Len(queue) + 0 + Len(written) + dropped + failed
    BY <1>8, <2>1, <2>2, ConservedByCount DEF FlowInv
  <2>3. ASSUME outstanding' <= 1
        PROVE  accepted' = Len(queue') + 1 + Len(written') + dropped' + failed'
    <3>1. /\ accepted' = accepted /\ dropped' = dropped + n /\ Len(queue') = Len(queue) - (n + 1)
          /\ Len(written') = Len(written) /\ failed' = failed
      BY <1>1, <1>4
    <3> QED BY SMT, <1>3, <2>1, <2>2, <2>3, <3>1
  <2> QED BY <1>8, <2>3, ConservedByCountNext
<1> QED BY SMT, <1>1, <1>3, <1>7, <1>9 DEF FlowInv

\* A dequeue() that finds only expired messages removes all of them.
LEMMA NothingKeepsFlow ==
  ASSUME FlowInv, NothingToWrite, UNCHANGED <<written, failed>>
  PROVE  FlowInv'
<1>1. queue \in Seq(1..accepted)
  BY DEF FlowInv, OrderInv, Ordered, Numbered
<1>2. Len(queue) \in 0..Len(queue) /\ Without(Len(queue)) = <<>>
  BY SMT, <1>1 DEF Without
<1>3. queue' = Without(Len(queue)) /\ dropped' = dropped + Len(queue)
  BY <1>2 DEF NothingToWrite
<1>4. UNCHANGED <<accepted, current, outstanding, written, failed>>
  BY DEF NothingToWrite
<1> QED BY <1>2, <1>3, <1>4, RemoveKeepsFlow

\* A write that is done appends its message to what was written, or loses it.
LEMMA CompleteKeepsFlow ==
  ASSUME FlowInv, outstanding <= 1, WriteCompletes
  PROVE  FlowInv'
<1>1. /\ outstanding = 1 /\ outstanding' = 0
      /\ UNCHANGED <<queue, accepted, dropped, current>>
  BY SMT DEF WriteCompletes, FlowInv, OrderInv, items
<1>2. /\ accepted \in Nat /\ queue \in Seq(1..accepted) /\ written \in Seq(1..accepted)
      /\ Increasing(queue) /\ Increasing(written) /\ Below(written, queue)
      /\ current \in 0..accepted /\ dropped \in Nat /\ failed \in Nat
  BY DEF FlowInv, OrderInv, Ordered, Numbered
<1>3. accepted = Len(queue) + Riding + Len(written) + dropped + failed
  BY <1>1, ConservedByCount DEF FlowInv
<1>4. Riding = (IF current # 0 THEN 1 ELSE 0) /\ Riding' = 0
  BY SMT, <1>1 DEF Riding
<1>5. CASE UNCHANGED <<written, failed>> /\ current = 0
  <2>1. OrderInv'
    BY <1>1, <1>5 DEF FlowInv, OrderInv
  <2>2. accepted' = Len(queue') + Riding' + Len(written') + dropped' + failed'
    BY <1>1, <1>2, <1>3, <1>4, <1>5
  <2> QED BY <1>1, <1>2, <1>5, <2>1, <2>2, ConservedByCountNext DEF FlowInv
<1>6. CASE written' = written /\ failed' = failed + 1 /\ current # 0
  <2>1. OrderInv'
    BY SMT, <1>1, <1>6 DEF FlowInv, OrderInv
  <2>2. accepted' = Len(queue') + Riding' + Len(written') + dropped' + failed'
    BY SMT, <1>1, <1>2, <1>3, <1>4, <1>6
  <2> QED BY SMT, <1>1, <1>2, <1>6, <2>1, <2>2, ConservedByCountNext DEF FlowInv
<1>7. CASE written' = Append(written, current) /\ failed' = failed /\ current # 0
  <2>1. Between(written, current, queue) /\ current \in 1..accepted
    BY SMT, <1>1, <1>2, <1>7 DEF FlowInv, OrderInv
  <2>2. written' \in Seq(1..accepted) /\ Len(written') = Len(written) + 1
    BY SMT, <1>2, <1>7, <2>1
  <2>3. /\ \A i \in 1..Len(written) : written'[i] = written[i]
        /\ written'[Len(written) + 1] = current
    BY SMT, <1>2, <1>7
  <2>4. \A i \in 1..Len(written') : i \in 1..Len(written) \/ i = Len(written) + 1
    BY SMT, <1>2, <2>2
  <2>5. Below(written', queue)
    BY <1>2, <2>1, <2>3, <2>4 DEF Below, Between
  <2>6. ASSUME NEW i \in 1..Len(written'), NEW j \in 1..Len(written'), i < j
        PROVE  written'[i] < written'[j]
    <3>1. i \in 1..Len(written)
      BY SMT, <1>2, <2>2, <2>6
    <3> QED BY <1>2, <2>1, <2>3, <2>4, <2>6, <3>1 DEF Increasing, Between
  <2>7. Increasing(written')
    BY <2>6 DEF Increasing
  <2>8. OrderInv'
    BY SMT, <1>1, <1>2, <2>2, <2>5, <2>7 DEF OrderInv, Ordered, Numbered
  <2>9. accepted' = Len(queue') + Riding' + Len(written') + dropped' + failed'
    <3>1. Len(queue') = Len(queue) /\ Len(written) \in Nat /\ Len(queue) \in Nat
      BY SMT, <1>1, <1>2
    <3> QED BY SMT, <1>1, <1>2, <1>3, <1>4, <1>7, <2>2, <3>1
  <2> QED BY <1>1, <1>2, <1>7, <2>8, <2>9, ConservedByCountNext DEF FlowInv
<1> QED BY <1>5, <1>6, <1>7 DEF WriteCompletes

\* Nothing has been pushed when a stream is opened.
LEMMA FlowInit == Init => FlowInv
<1> SUFFICES ASSUME Init PROVE FlowInv
  OBVIOUS
<1>1. Ordered(written, queue, accepted)
  BY SMT DEF Init, Ordered, Numbered, Increasing, Below
<1>2. Conserved
  BY SMT DEF Init, Conserved, OnTheWay
<1> QED BY SMT, <1>1, <1>2 DEF Init, FlowInv, OrderInv

\* Every step keeps order and counts.
LEMMA FlowStep == FlowInv /\ [Next]_vars => FlowInv'
<1> SUFFICES ASSUME FlowInv, [Next]_vars PROVE FlowInv'
  OBVIOUS
<1>1. queue \in Seq(1..accepted) /\ Len(queue) \in Nat /\ outstanding \in Nat /\ accepted \in Nat
  BY SMT DEF FlowInv, OrderInv, Ordered, Numbered
<1>2. Full => Len(queue) > 0
  BY SMT, <1>1, StreamAssumption DEF Full
<1>3. ASSUME UNCHANGED <<queue, accepted, dropped, outstanding, current, written, failed>>
      PROVE  FlowInv'
  BY <1>3 DEF FlowInv, OrderInv, Conserved, OnTheWay
<1>4. CASE Next
  <2>1. outstanding <= 1
    BY <1>4 DEF Next
  <2>2. CASE ConstructorEnqueue
    <3>1. UNCHANGED <<current, outstanding, written, failed>>
      BY <2>2 DEF ConstructorEnqueue, call, log
    <3> QED BY <1>2, <1>3, <2>2, <3>1, PushKeepsFlow DEF ConstructorEnqueue, items
  <2>3. CASE ConstructorStart
    <3>1. /\ current' = 0 /\ outstanding' = outstanding + 1
          /\ UNCHANGED <<queue, accepted, dropped, written, failed>>
      BY <2>3 DEF ConstructorStart, items, log
    <3>2. OrderInv'
      BY SMT, <1>1, <3>1 DEF FlowInv, OrderInv
    <3>3. Riding' = 0 /\ (outstanding' <= 1 => Riding = 0 /\ outstanding <= 1)
      BY SMT, <1>1, <3>1 DEF Riding
    <3>4. Conserved'
      BY <3>1, <3>3, ConservedByCount, ConservedByCountNext DEF FlowInv
    <3> QED BY <3>1, <3>2, <3>4 DEF FlowInv
  <2>4. ASSUME NEW d \in Deliverers, Enqueue(d) PROVE FlowInv'
    <3>1. UNCHANGED <<current, outstanding, written, failed>>
      BY <2>4 DEF Enqueue, call, log
    <3> QED BY <1>2, <1>3, <2>4, <3>1, PushKeepsFlow DEF Enqueue, items
  <2>5. ASSUME NEW d \in Deliverers, Unblock(d) PROVE FlowInv'
    <3>1. UNCHANGED <<current, outstanding, written, failed>>
      BY <2>5 DEF Unblock, call, log
    <3> QED BY <1>2, <2>5, <3>1, PushKeepsFlow DEF Unblock
  <2>6. ASSUME NEW d \in Deliverers, Start(d) PROVE FlowInv'
    <3>1. UNCHANGED <<written, failed>>
      BY <2>6 DEF Start, log
    <3> QED BY <2>1, <2>6, <3>1, StartKeepsFlow, NothingKeepsFlow DEF Start
  <2>7. CASE OnWriteDoneNext
    <3>1. UNCHANGED <<written, failed>>
      BY <2>7 DEF OnWriteDoneNext, log
    <3> QED BY <2>1, <2>7, <3>1, StartKeepsFlow, NothingKeepsFlow DEF OnWriteDoneNext
  <2>8. CASE WriteCompletes
    BY <2>1, <2>8, CompleteKeepsFlow
  <2>9. CASE ReapExpired
    <3>1. UNCHANGED <<accepted, current, outstanding, written, failed>>
      BY <2>9 DEF ReapExpired, call, log
    <3>2. PICK n \in 1..Len(queue) : queue' = Without(n) /\ dropped' = dropped + n
      BY <2>9 DEF ReapExpired
    <3>3. n \in 0..Len(queue)
      BY SMT, <1>1
    <3> QED BY <3>1, <3>2, <3>3, RemoveKeepsFlow
  <2>10. ASSUME NEW d \in Deliverers, Choose(d) \/ Enter(d) \/ Exchange(d) PROVE FlowInv'
    BY <1>3, <2>10 DEF Choose, Enter, Exchange, call, items, log
  <2>11. CASE OnWriteDoneFinish \/ OnWriteDoneProceed \/ OnDone
    BY <1>3, <2>11 DEF OnWriteDoneFinish, OnWriteDoneProceed, OnDone, items, log
  <2>12. CASE OnCancel \/ Unsubscribe \/ Expire
    BY <1>3, <2>12 DEF OnCancel, Unsubscribe, Expire, call, items, log
  <2> QED
    BY <1>4, <2>2, <2>3, <2>4, <2>5, <2>6, <2>7, <2>8, <2>9, <2>10, <2>11, <2>12
    DEF Next, DeliveryStep, Constructor, OnWriteDone
<1>5. CASE UNCHANGED vars
  BY <1>3, <1>5 DEF vars, call, items, log
<1> QED BY <1>4, <1>5

(* The subscriber sees the messages in the order they were pushed, and     *)
(* none twice, whichever threads start writes and whatever is dropped.     *)
THEOREM WrittenInOrder == Spec => []WireOrder
<1>1. ASSUME FlowInv PROVE WireOrder
  <2>1. /\ accepted \in Nat /\ queue \in Seq(1..accepted) /\ written \in Seq(1..accepted)
        /\ Increasing(queue) /\ Increasing(written) /\ Below(written, queue)
        /\ current \in 0..accepted
    BY <1>1 DEF FlowInv, OrderInv, Ordered, Numbered
  <2>2. CASE OnTheWay = <<>>
    <3>1. written \o OnTheWay = written
      BY <2>1, <2>2, ConcatEmptySeq
    <3> DEFINE line == written \o OnTheWay \o queue
    <3>2. Numbered(line, accepted)
      BY <2>1, <3>1, ConcatIncreasing
    <3> HIDE DEF line
    <3>3. \A i, j \in DOMAIN line : i < j => line[i] < line[j]
      BY SMT, <3>2 DEF Numbered, Increasing
    <3> QED BY <3>3 DEF WireOrder, line
  <2>3. CASE outstanding > 0 /\ current # 0 /\ OnTheWay = <<current>>
    <3> DEFINE way == <<current>>
    <3>1. Between(written, current, queue) /\ current \in 1..accepted
      BY SMT, <1>1, <2>1, <2>3 DEF FlowInv, OrderInv
    <3>2. way \in Seq(1..accepted) /\ Len(way) = 1 /\ way[1] = current
      BY SMT, <2>1, <3>1
    <3> HIDE DEF way
    <3>3. Increasing(way) /\ Below(written, way) /\ Below(way, queue)
      BY SMT, <3>1, <3>2 DEF Increasing, Below, Between
    <3>4. Numbered(way \o queue, accepted)
      BY <2>1, <3>2, <3>3, ConcatIncreasing
    <3>5. Below(written, way \o queue)
      <4>1. /\ Len(way \o queue) = Len(queue) + 1 /\ (way \o queue)[1] = current
            /\ \A k \in 1..Len(queue) : (way \o queue)[k + 1] = queue[k]
        <5>1. /\ Len(way \o queue) = Len(way) + Len(queue)
              /\ \A i \in 1..(Len(way) + Len(queue)) :
                   (way \o queue)[i] = IF i <= Len(way) THEN way[i] ELSE queue[i - Len(way)]
          BY <2>1, <3>2, ConcatIndex
        <5>2. /\ Len(queue) \in Nat /\ 1 \in 1..(1 + Len(queue))
              /\ \A k \in 1..Len(queue) : k + 1 \in 1..(1 + Len(queue)) /\ ~(k + 1 <= 1) /\ (k + 1) - 1 = k
          BY SMT, <2>1
        <5> QED BY SMT, <3>2, <5>1, <5>2
      <4>2. \A j \in 1..Len(way \o queue) : j = 1 \/ \E k \in 1..Len(queue) : j = k + 1
        <5>1. ASSUME NEW j \in 1..(Len(queue) + 1), j # 1
              PROVE  j - 1 \in 1..Len(queue) /\ j = (j - 1) + 1
          BY SMT, <2>1, <5>1
        <5> QED BY <4>1, <5>1
      <4>3. ASSUME NEW i \in 1..Len(written), NEW j \in 1..Len(way \o queue)
            PROVE  written[i] < (way \o queue)[j]
        BY <2>1, <3>1, <4>1, <4>2 DEF Between, Below
      <4> QED BY <4>3 DEF Below
    <3>6. Numbered(written \o (way \o queue), accepted)
      BY <2>1, <3>4, <3>5, ConcatIncreasing DEF Numbered
    <3>7. (written \o way) \o queue = written \o (way \o queue)
      <4> DEFINE S == 1..accepted
      <4>1. written \in Seq(S) /\ way \in Seq(S) /\ queue \in Seq(S)
        BY <2>1, <3>2
      <4> HIDE DEF S
      <4> QED BY <4>1, ConcatAssociative, SMTT(30)
    <3>8. OnTheWay = way
      BY <2>3 DEF way
    <3> DEFINE line == written \o OnTheWay \o queue
    <3>9. Numbered(line, accepted)
      BY <3>6, <3>7, <3>8
    <3> HIDE DEF line
    <3>10. \A i, j \in DOMAIN line : i < j => line[i] < line[j]
      BY SMT, <3>9 DEF Numbered, Increasing
    <3> QED BY <3>10 DEF WireOrder, line
  <2> QED BY <2>2, <2>3 DEF OnTheWay
<1> QED BY <1>1, FlowInit, FlowStep, PTL DEF Spec

(* Every message that was pushed is queued, being written, written, or     *)
(* counted as dropped or failed, as long as there is one write at a time.  *)
THEOREM EveryMessageCounted == Spec => []Conserved
<1>1. FlowInv => Conserved
  BY DEF FlowInv
<1> QED BY <1>1, FlowInit, FlowStep, PTL DEF Spec

-----------------------------------------------------------------------------
(* Somebody writes what is queued *)

Somebody ==
  outstanding > 0 \/ callback # "none" \/ \E d \in Deliverers : pc[d] = "start"

(* The flag is set only while somebody will clear it or write, unless the  *)
(* stream is over or a thread left it set on expired messages.             *)
PumpInv ==
  /\ WriteTypes
  /\ active \in BOOLEAN /\ cancelled \in BOOLEAN /\ stuck \in BOOLEAN
  /\ cancelled \/ callback = "failed" => ~active
  /\ writing /\ active /\ ~stuck => Somebody
  /\ PumpAlive

\* What a dequeue() leaves behind.
LEMMA PumpSteps ==
  ASSUME outstanding \in Nat
  PROVE  /\ StartNextWrite => outstanding' > 0
         /\ NothingToWrite => queue' = <<>> /\ outstanding' = outstanding
BY SMT DEF StartNextWrite, NothingToWrite

\* Every step keeps the pump running.
LEMMA PumpStep == PumpInv /\ WriteInv' /\ [Next]_vars => PumpInv'
<1> SUFFICES ASSUME PumpInv, WriteTypes', [Next]_vars PROVE PumpInv'
  BY DEF WriteInv
<1>1. outstanding \in Nat /\ outstanding' \in Nat /\ constructing \in Nat
  BY DEF WriteTypes, PumpInv
<1> USE DEF PumpInv, PumpAlive, Somebody, stream, call, items, log
<1>2. CASE ConstructorEnqueue
  <2>2. /\ constructing' > 0
        /\ UNCHANGED <<active, writing, outstanding, callback, cancelled, pc, stuck>>
    BY SMT, <1>1, <1>2 DEF ConstructorEnqueue
  <2> QED BY <2>2
<1>3. CASE ConstructorStart
  <2>1. outstanding' > 0 /\ UNCHANGED <<active, writing, queue, callback, cancelled, pc, stuck>>
    BY SMT, <1>1, <1>3 DEF ConstructorStart
  <2> QED BY <2>1
<1>4. ASSUME NEW d \in Deliverers, Choose(d) \/ Enter(d) PROVE PumpInv'
  <2>1. UNCHANGED <<active, writing, queue, outstanding, callback, cancelled, stuck, constructing>>
    BY <1>4 DEF Choose, Enter
  <2>2. /\ pc[d] \in {"idle", "chosen"}
        /\ \E x \in {"idle", "chosen", "admitted"} : pc' = [pc EXCEPT ![d] = x]
    BY <1>4 DEF Choose, Enter
  <2>3. \A e \in Deliverers : pc[e] \in {"queued", "start"} => pc'[e] = pc[e]
    BY <2>2 DEF WriteTypes
  <2> QED BY <2>1, <2>3
<1>5. ASSUME NEW d \in Deliverers, Enqueue(d) PROVE PumpInv'
  <2>2. UNCHANGED <<active, writing, outstanding, callback, cancelled, stuck, constructing>>
    BY <1>5 DEF Enqueue
  <2>3. pc[d] = "admitted"
    BY <1>5 DEF Enqueue
  <2>4. CASE pc' = [pc EXCEPT ![d] = "queued"]
    BY <2>2, <2>3, <2>4 DEF WriteTypes
  <2>5. CASE UNCHANGED queue /\ \E x \in {"idle", "blocked"} : pc' = [pc EXCEPT ![d] = x]
    BY <2>2, <2>3, <2>5 DEF WriteTypes
  <2> QED BY <1>5, <2>4, <2>5 DEF Enqueue
<1>6. ASSUME NEW d \in Deliverers, Unblock(d) PROVE PumpInv'
  <2>2. /\ UNCHANGED <<active, writing, outstanding, callback, cancelled, stuck, constructing>>
        /\ pc[d] = "blocked" /\ pc' = [pc EXCEPT ![d] = "queued"]
    BY <1>6 DEF Unblock
  <2> QED BY <2>2 DEF WriteTypes
<1>7. ASSUME NEW d \in Deliverers, Exchange(d) PROVE PumpInv'
  BY <1>7 DEF Exchange, WriteTypes
<1>8. ASSUME NEW d \in Deliverers, Start(d) PROVE PumpInv'
  <2>1. UNCHANGED <<active, callback, cancelled, constructing>>
    BY <1>8 DEF Start
  <2>2. CASE StartNextWrite /\ UNCHANGED <<writing, stuck>>
    BY <1>1, <2>1, <2>2, PumpSteps
  <2>3. CASE queue' = <<>> /\ stuck' = TRUE
    BY <2>1, <2>3
  <2>4. CASE queue' = <<>> /\ writing' = FALSE /\ UNCHANGED stuck
    BY <2>1, <2>4
  <2> QED BY <1>1, <1>8, <2>2, <2>3, <2>4, PumpSteps DEF Start
<1>9. CASE WriteCompletes
  BY <1>9 DEF WriteCompletes
<1>10. CASE OnWriteDoneFinish \/ OnWriteDoneProceed
  BY SMT, <1>10 DEF OnWriteDoneFinish, OnWriteDoneProceed
<1>11. CASE OnWriteDoneNext
  <2>1. UNCHANGED <<active, cancelled, constructing, stuck>> /\ callback' = "none"
    BY <1>11 DEF OnWriteDoneNext
  <2>2. CASE StartNextWrite /\ UNCHANGED writing
    BY SMT, <1>1, <1>11, <2>1, <2>2, PumpSteps DEF OnWriteDoneNext
  <2>3. CASE queue' = <<>> /\ writing' = FALSE
    BY SMT, <1>11, <2>1, <2>3 DEF OnWriteDoneNext
  <2> QED BY <1>1, <1>11, <2>2, <2>3, PumpSteps DEF OnWriteDoneNext
<1>12. CASE OnCancel \/ Unsubscribe
  BY <1>12 DEF OnCancel, Unsubscribe
<1>15. CASE OnDone \/ Expire
  <2>1. UNCHANGED <<active, writing, outstanding, callback, cancelled, pc, constructing, stuck, queue>>
    BY <1>15 DEF OnDone, Expire
  <2> QED BY <2>1
<1>13. CASE ReapExpired
  <2>1. queue # <<>>
    BY SMT, <1>13 DEF ReapExpired
  <2>2. UNCHANGED <<active, writing, outstanding, callback, cancelled, pc, constructing, stuck>>
    BY <1>13 DEF ReapExpired
  <2> QED BY <2>1, <2>2
<1>14. CASE UNCHANGED vars
  BY <1>14 DEF vars
<1> QED
  BY <1>2, <1>3, <1>4, <1>5, <1>6, <1>7, <1>8, <1>9, <1>10, <1>11, <1>12, <1>13, <1>14, <1>15
  DEF Next, DeliveryStep, Constructor, OnWriteDone

(* While a stream is active and its queue is not empty, a write, a         *)
(* callback, the constructor or a delivery thread is still to look at the  *)
(* queue: enqueueMessage() and OnWriteDone() never both leave it to the    *)
(* other, unless expired messages left the flag set.                       *)
THEOREM PumpNeverStops == Spec => []PumpAlive
<1>1. Init => PumpInv
  <2> SUFFICES ASSUME Init PROVE PumpInv
    OBVIOUS
  <2>1. WriteTypes
    BY WriteInit DEF WriteInv
  <2>2. PumpAlive
    BY DEF Init, PumpAlive
  <2> QED BY <2>1, <2>2 DEF Init, PumpInv, Somebody
<1>2. PumpInv => PumpAlive
  BY DEF PumpInv
<1> QED BY <1>1, <1>2, WriteInit, WriteStep, PumpStep, PTL DEF Spec
=============================================================================
