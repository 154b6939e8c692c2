------------------------------ MODULE ClientProofs ------------------------------
(***************************************************************************)
(* Theorems about Client, for every set of configurations, every number of *)
(* faults and messages: close() pauses all it can know of, publish()       *)
(* reports what it stored, and, for one topic, what subscribe() yields is  *)
(* in order and nothing is lost silently.                                  *)
(***************************************************************************)
EXTENDS ClientStepProofs

\* Steps that need arithmetic cite SMT.
USE Zenon

-----------------------------------------------------------------------------
(* Numbers: the steps that bring nothing *)

\* A sequence is the beginning of another.
Starts(s, u) == Len(s) \in 0..Len(u) /\ \A i \in 1..Len(s) : s[i] = u[i]

\* A step that brings the client nothing: what was on its way still is, or is cut off.
Quiet ==
  /\ config' = config /\ yielded' = yielded /\ excused' = excused /\ gen'.last = gen.last
  /\ Starts(Pending', Pending)
  /\ gen'.sid \in Known' \/ stream'.sub \in Known' =>
       (gen.sid \in Known \/ stream.sub \in Known) /\ Now' \in Nat /\ Now <= Now'
  /\ stream'.sub \in Known' => stream.sub \in Known
  /\ stream'.kind = "subscribe" /\ stream'.active =>
       stream.kind = "subscribe" /\ stream.active /\ Len(Pending') = Len(Pending) /\ Now' = Now
  /\ stream'.kind = "resume" /\ stream'.status = "open" =>
       stream.kind = "resume" /\ stream.status = "open" /\ Len(Pending') = Len(Pending) /\ SameCall

\* The length and the elements of two sequences in one.
LEMMA Joined ==
  ASSUME NEW S, NEW p \in Seq(S), NEW q \in Seq(S)
  PROVE  /\ p \o q \in Seq(S) /\ Len(p \o q) = Len(p) + Len(q) /\ Len(p \o q) \in Nat
         /\ Len(p) \in Nat /\ Len(q) \in Nat
         /\ \A i \in 1..Len(p) : (p \o q)[i] = p[i]
         /\ \A i \in 1..Len(q) : (p \o q)[Len(p) + i] = q[i]
BY SMT

\* What is on its way is a sequence of events.
LEMMA PendingType ==
  ASSUME ControlInv
  PROVE  /\ stream.wire \in Seq(StreamEvents) /\ stream.queue \in Seq(StreamEvents)
         /\ Pending \in Seq(StreamEvents) /\ Len(Pending) = Len(stream.wire) + Len(stream.queue)
         /\ Len(Pending) \in Nat
<1> DEFINE wire == stream.wire
           queue == stream.queue
<1>1. wire \in Seq(StreamEvents) /\ queue \in Seq(StreamEvents) /\ Pending = wire \o queue
  BY StreamParts DEF StreamType, Pending
<1> HIDE DEF wire, queue
<1>2. /\ wire \o queue \in Seq(StreamEvents)
      /\ Len(wire \o queue) = Len(wire) + Len(queue)
      /\ Len(wire \o queue) \in Nat
  BY <1>1, Joined
<1> QED BY <1>1, <1>2 DEF wire, queue

\* The stream is left alone, or made inactive; the daemon may have a new message for others.
LEMMA QuietSame ==
  ASSUME ControlInv, Rings,
         StreamTo(stream.kind, stream.sub, stream.status, stream'.active, stream.queue, stream.wire),
         SameCall, stream'.active => stream.active, config' = config, yielded' = yielded, excused' = excused,
         gen'.last = gen.last, gen'.sid = gen.sid, Known' \subseteq Known,
         \/ Now' = Now
         \/ Now' = Now + 1 /\ ~(stream.kind = "subscribe" /\ stream.active)
  PROVE  Quiet
<1>1. Pending' = Pending
  BY DEF Pending, StreamTo
<1>2. Now' \in Nat /\ Now <= Now'
  BY SMT, NowType
<1>3. Len(Pending') = Len(Pending) /\ Starts(Pending', Pending)
  BY SMT, <1>1, PendingType DEF Starts
<1>4. stream'.kind = "subscribe" /\ stream'.active => Now' = Now
  BY DEF StreamTo
<1> QED BY <1>2, <1>3, <1>4 DEF Quiet, StreamTo

\* The last number is one of the buffer.
LEMMA SameNow == ASSUME buffers' = buffers PROVE Now' = Now
BY DEF Now, Reached

\* The steps that bring nothing.
QuietStep ==
  \/ GenLocal \/ UserLocal \/ StreamEnds \/ UnsubscribeReturns \/ Restart \/ UNCHANGED vars
  \/ GenReconnects \/ UserReconnects
  \/ Unsubscribe \/ ClosePauses \/ PauseExpires
  \/ RequestRefused \/ Abandon \/ (ResumeCall /\ gen.sid \notin DOMAIN registry.paused)
  \/ CloseReturns \/ ServerWrites \/ ConnectionLost \/ Crash

\* The quiet steps: the generator, its stream and the numbers it waits for stay as they are.
LEMMA QuietNext ==
  ControlInv /\ Rings /\ Replayable /\ QuietStep =>
    Quiet
\* None is not a subscription.
<1>NoneUnknown. ASSUME ControlInv
                PROVE  None \notin Known
  BY <1>NoneUnknown, ClientAssumption DEF ControlInv, Ids
\* The call ends: some of what was on its way is lost.
<1>QuietCut. ASSUME ControlInv, Rings, Starts(Pending', Pending),
                    ~stream'.active, stream'.kind = "none" \/ stream'.status # "open",
                    stream'.sub = stream.sub \/ stream'.sub = None,
                    config' = config, yielded' = yielded, excused' = excused, gen'.last = gen.last, gen'.sid = gen.sid,
                    Known' \subseteq Known, Known' = {} \/ Now' = Now
             PROVE  Quiet
  <2> USE <1>QuietCut
  <2>1. stream'.sub \in Known' => stream.sub \in Known
    BY <1>NoneUnknown
  <2>2. Known' # {} => Now' \in Nat /\ Now <= Now'
    BY SMT, NowType
  <2>3. gen'.sid \in Known' \/ stream'.sub \in Known' => (gen.sid \in Known \/ stream.sub \in Known) /\ Known' # {}
    BY <2>1
  <2>4. ~(stream'.kind = "resume" /\ stream'.status = "open")
    OBVIOUS
  <2> QED BY <2>1, <2>2, <2>3, <2>4 DEF Quiet
\* Nothing is on its way any more.
<1>EmptyPending. ASSUME ControlInv, stream'.wire = <<>>, stream'.queue = <<>>
                 PROVE  Starts(Pending', Pending)
  <2> USE <1>EmptyPending
  <2>1. Pending' = <<>> \o <<>>
    BY DEF Pending
  <2>2. Len(<<>> \o <<>>) = 0
    BY SMT
  <2> QED BY SMT, <2>1, <2>2, PendingType DEF Starts
\* The steps that leave the stream alone.
<1>LocalQuiet. ASSUME ControlInv, Rings,
                      GenLocal \/ UserLocal \/ StreamEnds \/ UnsubscribeReturns \/ Restart \/ UNCHANGED vars
               PROVE  Quiet
  <2> USE <1>LocalQuiet
  <2>1. /\ stream' = stream /\ config' = config /\ yielded' = yielded /\ excused' = excused
        /\ registry' = registry /\ buffers' = buffers
    BY GenLocalEffect, UserLocalEffect
       DEF StreamEnds, UnsubscribeReturns, Restart, vars, daemonVars, historyVars
  <2>2. gen'.last = gen.last /\ gen'.sid = gen.sid
    BY GenLocalEffect, UserLocalEffect, StreamEndsEffect
       DEF UnsubscribeReturns, Restart, vars, clientVars, GenTo
  <2>3. Known' = Known
    BY <2>1 DEF Known
  <2> QED BY <2>1, <2>2, <2>3, QuietSame, SameNow, SameStream DEF StreamSame
\* _reconnect()
<1>ReconnectsQuiet. ASSUME ControlInv, Rings, GenReconnects \/ UserReconnects
                    PROVE  Quiet
  <2> USE <1>ReconnectsQuiet
  <2>1. /\ config' = config /\ yielded' = yielded /\ excused' = excused /\ registry' = registry
        /\ buffers' = buffers
    BY DEF GenReconnects, UserReconnects, daemonVars, historyVars
  <2>2. gen'.last = gen.last /\ gen'.sid = gen.sid
    BY GenReconnectsEffect DEF UserReconnects, GenTo
  <2>3. StreamSame
    BY GenReconnectsEffect, UserReconnectsEffect
  <2>4. Known' = Known
    BY <2>1 DEF Known
  <2> QED BY <2>1, <2>2, <2>3, <2>4, QuietSame, SameNow DEF StreamSame, StreamTo
\* The daemon removes a subscription, or a pause is over.
<1>RemovedQuiet. ASSUME ControlInv, Rings, Unsubscribe \/ ClosePauses \/ PauseExpires
                 PROVE  Quiet
  <2> USE <1>RemovedQuiet
  <2>1. config' = config /\ yielded' = yielded /\ excused' = excused /\ buffers' = buffers /\ gen' = gen
    BY DEF Unsubscribe, ClosePauses, PauseExpires, clientVars, historyVars
  <2>2. CASE registry' = registry /\ stream' = stream
    BY <2>1, <2>2, QuietSame, SameNow, SameStream DEF StreamSame, Known
  <2>3. ASSUME NEW s, NEW pause, Removed(s, pause) PROVE Quiet
    <3>1. registry' = RemoveLocalSubscription(registry, s, pause) /\ AllKept(registry)
      BY <2>3 DEF Removed, ControlInv, RegistryOK
    <3>2. Known' \subseteq Known
      <4>1. Knows(registry', DOMAIN registry.local \ {s},
                  IF pause /\ s \in DOMAIN registry.local THEN DOMAIN registry.paused \cup {s}
                  ELSE DOMAIN registry.paused)
        BY <3>1, RemoveKnows
      <4> QED BY <4>1 DEF Knows, Known
    <3>3. /\ StreamTo(stream.kind, stream.sub, stream.status, stream.active /\ stream.sub # s,
                      stream.queue, stream.wire)
          /\ SameCall
      BY <2>3, RemovedEffect
    <3>4. /\ StreamTo(stream.kind, stream.sub, stream.status, stream'.active, stream.queue, stream.wire)
          /\ stream'.active => stream.active
      BY <3>3 DEF StreamTo
    <3> QED BY <2>1, <3>2, <3>3, <3>4, QuietSame, SameNow
  <2>4. CASE PauseExpires
    <3>1. PICK s \in DOMAIN registry.paused :
            registry' = [registry EXCEPT !.paused = With(@, s, [@[s] EXCEPT !.expired = TRUE])]
      BY <2>4 DEF PauseExpires
    <3>2. Known' = Known
      BY <3>1, ExpiryKnows DEF ControlInv, RegistryOK, Knows, Known
    <3>3. stream' = stream
      BY <2>4 DEF PauseExpires
    <3> QED BY <2>1, <3>2, <3>3, QuietSame, SameNow, SameStream DEF StreamSame
  <2> QED BY <2>2, <2>3, <2>4 DEF Unsubscribe, ClosePauses
\* The call ends, and nothing is on its way.
<1>EndsQuiet. ASSUME ControlInv, Rings, Replayable,
                     RequestRefused \/ Abandon \/ (ResumeCall /\ gen.sid \notin DOMAIN registry.paused)
              PROVE  Quiet
  <2> USE <1>EndsQuiet
  <2>1. /\ config' = config /\ yielded' = yielded /\ excused' = excused /\ buffers' = buffers
        /\ registry' = registry
    BY DEF RequestRefused, Abandon, ResumeCall, daemonVars, historyVars
  <2>2. gen'.last = gen.last /\ gen'.sid = gen.sid
    BY RequestRefusedEffect, AbandonEffect, ResumeCallEffect DEF GenTo
  <2>3. \/ StreamTo("none", None, stream'.status, FALSE, <<>>, <<>>)
        \/ StreamTo(stream.kind, stream.sub, "cancelled", FALSE, <<>>, <<>>)
    BY RequestRefusedEffect, AbandonEffect, ResumeCallEffect DEF StreamTo
  <2>4. /\ stream'.wire = <<>> /\ stream'.queue = <<>> /\ stream'.active = FALSE
        /\ stream'.kind = "none" \/ stream'.status = "cancelled"
        /\ stream'.sub = stream.sub \/ stream'.sub = None
    BY <2>3 DEF StreamTo
  <2>5. ~stream'.active /\ (stream'.kind = "none" \/ stream'.status # "open")
    BY <2>4
  <2>6. Known' = Known
    BY <2>1 DEF Known
  <2> QED BY <2>1, <2>2, <2>4, <2>5, <2>6, <1>QuietCut, <1>EmptyPending, SameNow
\* close() returns.
<1>CloseReturnsQuiet. ASSUME ControlInv, Rings, CloseReturns
                      PROVE  Quiet
  <2> USE <1>CloseReturnsQuiet
  <2>1. /\ config' = config /\ yielded' = yielded /\ excused' = excused /\ buffers' = buffers
        /\ registry' = registry /\ gen' = gen
    BY DEF CloseReturns, daemonVars, historyVars
  <2>2. Known' = Known
    BY <2>1 DEF Known
  <2>3. CASE StreamSame
    BY <2>1, <2>2, <2>3, QuietSame, SameNow DEF StreamSame, StreamTo
  <2>4. CASE StreamTo(stream.kind, stream.sub, "cancelled", FALSE, <<>>, <<>>)
    <3>1. /\ stream'.wire = <<>> /\ stream'.queue = <<>> /\ stream'.active = FALSE
          /\ stream'.status = "cancelled" /\ stream'.sub = stream.sub
      BY <2>4 DEF StreamTo
    <3>2. ~stream'.active /\ stream'.status # "open"
      BY <3>1
    <3> QED BY <2>1, <2>2, <3>1, <3>2, <1>QuietCut, <1>EmptyPending, SameNow
  <2> QED BY <2>3, <2>4, CloseReturnsEffect
\* The elements of a sequence after one was moved from the front of another to its end.
<1>Moved. ASSUME NEW S, NEW p \in Seq(S), NEW q \in Seq(S), q # <<>>
          PROVE  /\ Len(Append(p, Head(q)) \o Tail(q)) = Len(p \o q)
                 /\ Starts(Append(p, Head(q)) \o Tail(q), p \o q)
                 /\ Starts(Append(p, Head(q)) \o <<>>, p \o q)
  <2> USE <1>Moved
  <2> DEFINE a == Append(p, Head(q))
  <2>1. /\ Len(q) \in Nat /\ Len(q) # 0 /\ Len(p) \in Nat /\ Head(q) = q[1] /\ Head(q) \in S
        /\ Tail(q) \in Seq(S) /\ Len(Tail(q)) = Len(q) - 1 /\ \A i \in 1..(Len(q) - 1) : Tail(q)[i] = q[i + 1]
    BY SMT
  <2>2. /\ a \in Seq(S) /\ Len(a) = Len(p) + 1 /\ a[Len(p) + 1] = q[1]
        /\ \A i \in 1..Len(p) : a[i] = p[i]
    BY SMT, <2>1
  <2> HIDE DEF a
  <2>3. /\ Len(p \o q) = Len(p) + Len(q)
        /\ \A i \in 1..Len(p) : (p \o q)[i] = p[i]
        /\ \A i \in 1..Len(q) : (p \o q)[Len(p) + i] = q[i]
    BY SMT, Joined
  <2> DEFINE t == Tail(q)
  <2>4. /\ t \in Seq(S) /\ Len(t) = Len(q) - 1 /\ \A i \in 1..(Len(q) - 1) : t[i] = q[i + 1]
    BY <2>1
  <2> HIDE DEF t
  <2>5. /\ a \o t \in Seq(S) /\ Len(a \o t) = Len(a) + Len(t)
        /\ \A i \in 1..Len(a) : (a \o t)[i] = a[i]
        /\ \A i \in 1..Len(t) : (a \o t)[Len(a) + i] = t[i]
    <3>1. a \in Seq(S) /\ t \in Seq(S)
      BY <2>2, <2>4
    <3> QED BY SMT, <3>1, Joined
  <2>6. /\ Len(a \o <<>>) = Len(a)
        /\ \A i \in 1..Len(a) : (a \o <<>>)[i] = a[i]
    BY SMT, <2>2
  <2> DEFINE n == Len(p)
             m == Len(q)
             pq == p \o q
             at == a \o t
             ae == a \o <<>>
  <2>7. /\ n \in Nat /\ m \in Nat /\ m # 0 /\ Len(pq) = n + m /\ Len(at) = n + m /\ Len(ae) = n + 1
        /\ \A i \in 1..n : pq[i] = p[i] /\ at[i] = p[i] /\ ae[i] = p[i]
        /\ pq[n + 1] = q[1] /\ at[n + 1] = q[1] /\ ae[n + 1] = q[1]
        /\ \A i \in 2..m : pq[n + i] = q[i] /\ at[n + i] = q[i]
    <3>1. ASSUME NEW i \in 2..m PROVE at[n + i] = q[i]
      <4>1. i - 1 \in 1..Len(t) /\ Len(a) + (i - 1) = n + i /\ t[i - 1] = q[i]
        BY SMT, <2>1, <2>2, <2>4
      <4> QED BY <2>5, <4>1
    <3> QED BY SMTT(20), <2>1, <2>2, <2>3, <2>4, <2>5, <2>6, <3>1
  <2> HIDE DEF n, m, pq, at, ae
  <2>8. ASSUME NEW i \in 1..Len(at) PROVE at[i] = pq[i]
    <3>1. CASE i \in 1..(n + 1)
      BY SMT, <2>7, <3>1
    <3>2. CASE i \notin 1..(n + 1)
      <4>1. i - n \in 2..m /\ n + (i - n) = i
        BY SMT, <2>7, <3>2
      <4> QED BY <2>7, <4>1
    <3> QED BY <3>1, <3>2
  <2>9. ASSUME NEW i \in 1..Len(ae) PROVE ae[i] = pq[i]
    BY SMTT(20), <2>7
  <2>10. Len(ae) \in 0..Len(pq) /\ Len(at) \in 0..Len(pq)
    BY SMT, <2>7
  <2>11. Len(at) = Len(pq) /\ Starts(at, pq) /\ Starts(ae, pq)
    BY <2>7, <2>8, <2>9, <2>10 DEF Starts
  <2> QED BY <2>11 DEF a, t, at, ae, pq
\* OnWriteDone(): an event goes from the queue to the wire.
<1>ServerWritesQuiet. ASSUME ControlInv, Rings, ServerWrites
                      PROVE  Quiet
  <2> USE <1>ServerWritesQuiet
  <2>1. /\ config' = config /\ yielded' = yielded /\ excused' = excused /\ buffers' = buffers
        /\ registry' = registry /\ gen' = gen
    BY DEF ServerWrites, clientVars, daemonVars, historyVars
  <2>2. Known' = Known /\ Now' = Now
    BY <2>1, SameNow DEF Known
  <2> DEFINE wire == stream.wire
             queue == stream.queue
  <2>3. wire \in Seq(StreamEvents) /\ queue \in Seq(StreamEvents) /\ queue # <<>> /\ Pending = wire \o queue
    BY PendingType, ServerWritesEffect DEF Pending
  <2>4. CASE stream.active
    <3>1. /\ StreamTo(stream.kind, stream.sub, "open", TRUE, Tail(queue), Append(wire, Head(queue)))
          /\ SameCall /\ stream.status = "open"
      BY <2>4, ServerWritesEffect
    <3>2. Pending' = Append(wire, Head(queue)) \o Tail(queue)
      BY <3>1 DEF Pending, StreamTo
    <3> HIDE DEF wire, queue
    <3>3. Len(Pending') = Len(Pending) /\ Starts(Pending', Pending)
      BY <2>3, <3>2, <1>Moved
    <3>5. Now' \in Nat /\ Now <= Now'
      BY SMT, <2>2, NowType
    <3> QED BY <2>1, <2>2, <2>4, <3>1, <3>3, <3>5 DEF Quiet, StreamTo
  <2>5. CASE ~stream.active
    <3>1. StreamTo(stream.kind, stream.sub, "finished", FALSE, <<>>, Append(wire, Head(queue)))
      BY <2>5, ServerWritesEffect
    <3>2. Pending' = Append(wire, Head(queue)) \o <<>>
      BY <3>1 DEF Pending, StreamTo
    <3> HIDE DEF wire, queue
    <3>3. Starts(Pending', Pending)
      BY <2>3, <3>2, <1>Moved
    <3>4. ~stream'.active /\ stream'.status # "open" /\ stream'.sub = stream.sub
      BY <3>1 DEF StreamTo
    <3> QED BY <2>1, <2>2, <3>3, <3>4, <1>QuietCut
  <2> QED BY <2>4, <2>5
\* A stream that breaks loses the end of what is on its way.
<1>CutOff. ASSUME NEW S, NEW p \in Seq(S), NEW q \in Seq(S), NEW k \in 0..Len(p)
           PROVE  Starts(SubSeq(p, 1, k) \o <<>>, p \o q)
  <2> USE <1>CutOff
  <2> DEFINE c == SubSeq(p, 1, k)
  <2>1. c \in Seq(S) /\ Len(c) = k /\ \A i \in 1..k : c[i] = p[i]
    BY SMT
  <2>2. Len(p) \in Nat /\ Len(p \o q) = Len(p) + Len(q) /\ Len(q) \in Nat /\ \A i \in 1..Len(p) : (p \o q)[i] = p[i]
    BY SMT, Joined
  <2> HIDE DEF c
  <2>3. Len(c \o <<>>) = k /\ \A i \in 1..k : (c \o <<>>)[i] = c[i]
    BY SMT, <2>1
  <2> QED BY SMT, <2>1, <2>2, <2>3 DEF Starts, c
\* The connection is lost, or the daemon crashes.
<1>BreakQuiet. ASSUME ControlInv, Rings, ConnectionLost \/ Crash
               PROVE  Quiet
  <2> USE <1>BreakQuiet
  <2>1. config' = config /\ yielded' = yielded /\ excused' = excused /\ gen' = gen
    BY DEF ConnectionLost, Crash, daemonVars
  <2>2. (Known' = Known /\ Now' = Now) \/ (Known' = {} /\ StreamBreaks)
    <3>1. CASE ConnectionLost
      <4>1. registry' = registry /\ buffers' = buffers
        BY <3>1 DEF ConnectionLost, daemonVars
      <4> QED BY <4>1, SameNow DEF Known
    <3>2. CASE Crash
      <4>1. registry' = NewRegistry /\ StreamBreaks
        BY <3>2 DEF Crash
      <4>2. DOMAIN NewRegistry.local = {} /\ DOMAIN NewRegistry.paused = {}
        BY NewKnows DEF Knows
      <4> QED BY <4>1, <4>2 DEF Known
    <3> QED BY <3>1, <3>2
  <2>3. CASE Broken
    <3>1. PICK k \in 0..Len(stream.wire) :
            StreamTo(stream.kind, stream.sub, "unavailable", FALSE, <<>>, SubSeq(stream.wire, 1, k))
      BY <2>3 DEF Broken
    <3>2. Pending' = SubSeq(stream.wire, 1, k) \o <<>> /\ Pending = stream.wire \o stream.queue
      BY <3>1 DEF Pending, StreamTo
    <3>3. Starts(Pending', Pending)
      BY <3>2, <1>CutOff, PendingType
    <3>4. ~stream'.active /\ stream'.status # "open" /\ stream'.sub = stream.sub
      BY <3>1 DEF StreamTo
    <3> QED BY <2>1, <2>2, <3>3, <3>4, <1>QuietCut
  <2>4. CASE StreamSame /\ Known' = Known /\ Now' = Now
    BY <2>1, <2>4, QuietSame DEF StreamSame, StreamTo
  <2>5. CASE /\ StreamSame /\ ~(stream.kind # "none" /\ stream.status \in {"open", "finished"})
             /\ Known' = {}
    <3>1. ~stream.active /\ (stream.kind = "none" \/ stream.status # "open")
      BY <2>5 DEF ControlInv, StreamOK
    <3>2. /\ ~stream'.active /\ (stream'.kind = "none" \/ stream'.status # "open") /\ stream'.sub = stream.sub
          /\ Pending' = Pending
      BY <2>5, <3>1 DEF StreamSame, StreamTo, Pending
    <3>3. Starts(Pending', Pending)
      BY SMT, <3>2, PendingType DEF Starts
    <3> QED BY <2>1, <2>5, <3>2, <3>3, <1>QuietCut
  <2>6. StreamBreaks \/ StreamSame
    BY SameStream DEF ConnectionLost, Crash
  <2> QED BY <2>2, <2>3, <2>4, <2>5, <2>6, StreamBreaksEffect
<1> SUFFICES ASSUME ControlInv, Rings, Replayable, QuietStep
             PROVE  Quiet
  OBVIOUS
<1>1. CASE GenLocal \/ UserLocal \/ StreamEnds \/ UnsubscribeReturns \/ Restart \/ UNCHANGED vars
  BY <1>1, <1>LocalQuiet
<1>2. CASE GenReconnects \/ UserReconnects
  BY <1>2, <1>ReconnectsQuiet
<1>3. CASE Unsubscribe \/ ClosePauses \/ PauseExpires
  BY <1>3, <1>RemovedQuiet
<1>4. CASE RequestRefused \/ Abandon \/ (ResumeCall /\ gen.sid \notin DOMAIN registry.paused)
  BY <1>4, <1>EndsQuiet
<1>5. CASE ConnectionLost \/ Crash
  BY <1>5, <1>BreakQuiet
<1> QED BY <1>1, <1>2, <1>3, <1>4, <1>5, <1>CloseReturnsQuiet, <1>ServerWritesQuiet DEF QuietStep

\* An event on its way is one of the stream's.
LEMMA PendingEvent ==
  \A i \in 1..Len(Pending) : 
    ControlInv =>
    /\ Pending[i] \in StreamEvents
    /\ Numbered(Pending[i]) => Pending[i].seq \in Nat /\ Pending[i].seq # 0 /\ Pending[i].topic \in Topics
\* An event with a number is a message.
<1>NumberedSeq. ASSUME NEW e \in StreamEvents, Numbered(e)
                PROVE  e \in Messages /\ e.seq \in Nat /\ e.seq # 0 /\ e.topic \in Topics /\ e # Info
  <2> USE <1>NumberedSeq
  <2>1. e # Info
    BY SMT DEF Numbered, Info
  <2>2. e \in Messages
    BY <2>1 DEF StreamEvents
  <2> QED BY <2>1, <2>2 DEF Messages
<1> SUFFICES ASSUME NEW i \in 1..Len(Pending), ControlInv
             PROVE  /\ Pending[i] \in StreamEvents
                    /\ Numbered(Pending[i]) => Pending[i].seq \in Nat /\ Pending[i].seq # 0 /\ Pending[i].topic \in Topics
  OBVIOUS
<1>1. Pending[i] \in StreamEvents
  <2>1. Pending \in Seq(StreamEvents)
    BY PendingType
  <2> HIDE DEF Pending
  <2> QED BY SMT, <2>1
<1> QED BY <1>1, <1>NumberedSeq

\* The domain of two sequences in one.
LEMMA JoinedDomain ==
  ASSUME NEW S, NEW p \in Seq(S), NEW q \in Seq(S)
  PROVE  DOMAIN (p \o q) = 1..Len(p \o q)
BY SMT

\* A replayed message that is coming is on its way.
LEMMA ComingDef ==
  ASSUME ControlInv, NEW t, NEW n
  PROVE  Coming(t, n) <=> \E k \in 1..Len(Pending) : Pending[k] = Event("replay", t, n)
<1>1. DOMAIN Pending = 1..Len(Pending)
  BY PendingType, JoinedDomain DEF Pending
<1> QED BY <1>1 DEF Coming, Pending

\* What is settled stays settled.
LEMMA StaysSettled ==
  ASSUME NEW n, Settled(n), excused \subseteq excused',
         \A k \in DOMAIN yielded : k \in DOMAIN yielded' /\ yielded'[k] = yielded[k]
  PROVE  Settled(n)'
BY DEF Settled, Yielded

-----------------------------------------------------------------------------
(* Numbers: Subscribe() and the messages of the daemon *)

\* A step that brings nothing keeps all about the numbers.
LEMMA QuietNumbers ==
  ControlInv /\ ControlInv' /\ Rings /\ OrderInv /\ LossInv /\ NoSilentLoss /\ Quiet =>
    OrderInv' /\ LossInv' /\ NoSilentLoss'
\* Steps that bring nothing keep the order of the numbers.
<1>QuietOrder. ASSUME ControlInv, Rings, OrderInv, Quiet
               PROVE  OrderInv'
  <2> USE <1>QuietOrder
  <2>1. /\ Len(Pending) \in Nat /\ Len(Pending') \in 0..Len(Pending)
        /\ \A i \in 1..Len(Pending') : Pending'[i] = Pending[i]
    BY PendingType DEF Quiet, Starts
  <2>2. \A i \in 1..Len(Pending') : i \in 1..Len(Pending)
    BY SMT, <2>1
  <2>3. Now \in Nat /\ gen.last \in Nat
    BY NowType, StreamParts DEF GenType
  <2>4. gen'.sid \in Known' \/ stream'.sub \in Known' => gen.last <= Now'
    BY SMT, <2>3 DEF Quiet, OrderInv
  <2>5. ASSUME NEW i \in 1..Len(Pending'), Numbered(Pending'[i])
        PROVE  gen'.last < Pending'[i].seq /\ (stream'.sub \in Known' => Pending'[i].seq <= Now')
    <3>1. Pending'[i] = Pending[i] /\ i \in 1..Len(Pending)
      BY <2>1, <2>2
    <3>2. gen.last < Pending[i].seq /\ (stream.sub \in Known => Pending[i].seq <= Now)
      BY <2>5, <3>1 DEF OrderInv
    <3>3. Pending[i].seq \in Nat
      BY <2>5, <3>1, PendingEvent
    <3>4. stream'.sub \in Known' => stream.sub \in Known /\ Now' \in Nat /\ Now <= Now'
      BY DEF Quiet
    <3>5. stream'.sub \in Known' => Pending[i].seq <= Now'
      BY SMT, <2>3, <3>2, <3>3, <3>4
    <3> QED BY <3>1, <3>2, <3>5 DEF Quiet
  <2>6. \A i, j \in 1..Len(Pending') :
          i < j /\ Numbered(Pending'[i]) /\ Numbered(Pending'[j]) => Pending'[i].seq < Pending'[j].seq
    <3>1. ASSUME NEW i \in 1..Len(Pending'), NEW j \in 1..Len(Pending'), i < j,
                 Numbered(Pending'[i]), Numbered(Pending'[j])
          PROVE  Pending'[i].seq < Pending'[j].seq
      BY <2>1, <2>2, <3>1 DEF OrderInv
    <3> QED BY <3>1
  <2>7. yielded' = yielded /\ gen'.last = gen.last
    BY DEF Quiet
  <2> QED BY <2>4, <2>5, <2>6, <2>7 DEF OrderInv, Numbered
\* Steps that bring nothing lose nothing silently.
<1>QuietLoss. ASSUME ControlInv, Rings, LossInv, Quiet
              PROVE  LossInv'
  <2> USE <1>QuietLoss
  <2>1. /\ Len(Pending) \in Nat /\ Len(Pending') \in 0..Len(Pending)
        /\ \A i \in 1..Len(Pending') : Pending'[i] = Pending[i]
    BY PendingType DEF Quiet, Starts
  <2>2. \A i \in 1..Len(Pending') : i \in 1..Len(Pending)
    BY SMT, <2>1
  <2>3. ASSUME NEW n, Settled(n) PROVE Settled(n)'
    BY <2>3, StaysSettled DEF Quiet
  <2>4. ASSUME NEW n, NEW k \in 0..Len(Pending'), OnItsWay(n, k)
        PROVE  \E j \in 1..k : Numbered(Pending'[j]) /\ Pending'[j].seq = n
    <3>1. PICK j \in 1..k : Numbered(Pending[j]) /\ Pending[j].seq = n
      BY <2>4 DEF OnItsWay
    <3>2. j \in 1..Len(Pending')
      BY SMT, <2>1, <2>4, <3>1
    <3> QED BY <2>1, <3>1, <3>2
  <2>5. \A n \in 1..gen'.last : Settled(n)'
    BY <2>3 DEF Quiet, LossInv
  <2>6. ASSUME NEW i \in 1..Len(Pending'), Numbered(Pending'[i]), NEW n \in 1..(Pending'[i].seq - 1)
        PROVE  Settled(n)' \/ \E j \in 1..(i - 1) : Numbered(Pending'[j]) /\ Pending'[j].seq = n
    <3>1. i \in 1..Len(Pending) /\ Pending'[i] = Pending[i]
      BY <2>1, <2>2
    <3>2. Settled(n) \/ OnItsWay(n, i - 1)
      BY <2>6, <3>1 DEF LossInv
    <3>3. i - 1 \in 0..Len(Pending')
      BY SMT, <2>1, <3>1
    <3> QED BY <2>3, <2>4, <3>2, <3>3
  <2>7. ASSUME stream'.kind = "subscribe", stream'.active, NEW n \in 1..Now'
        PROVE  Settled(n)' \/ \E j \in 1..Len(Pending') : Numbered(Pending'[j]) /\ Pending'[j].seq = n
    <3>1. stream.kind = "subscribe" /\ stream.active /\ Len(Pending') = Len(Pending) /\ Now' = Now
      BY <2>7 DEF Quiet
    <3>2. Settled(n) \/ OnItsWay(n, Len(Pending'))
      BY <2>7, <3>1 DEF LossInv
    <3>3. Len(Pending') \in 0..Len(Pending')
      BY <2>1, <3>1
    <3> QED BY <2>3, <2>4, <3>2, <3>3
  <2> QED BY <2>5, <2>6, <2>7 DEF LossInv, OnItsWay, Numbered
\* A step that brings nothing loses nothing.
<1>QuietNoLoss. ASSUME ControlInv, ControlInv', NoSilentLoss, Quiet
                PROVE  NoSilentLoss'
  <2> USE <1>QuietNoLoss
  <2> SUFFICES ASSUME stream'.kind = "resume", stream'.status = "open",
                      config'.mode = "REPLAY_BUFFER", ~stream'.lapsed,
                      NEW t \in Topics, NEW n \in 1..stream'.upto[t]
               PROVE  Yielded(t, n)' \/ Coming(t, n)' \/ <<t, n>> \in excused'
    BY DEF NoSilentLoss
  <2>1. /\ stream.kind = "resume" /\ stream.status = "open" /\ Len(Pending') = Len(Pending) /\ SameCall
        /\ config' = config /\ yielded' = yielded /\ excused' = excused
        /\ \A i \in 1..Len(Pending') : Pending'[i] = Pending[i]
    BY DEF Quiet, Starts
  <2>2. Yielded(t, n) \/ Coming(t, n) \/ <<t, n>> \in excused
    BY <2>1 DEF NoSilentLoss, SameCall
  <2>3. CASE Coming(t, n)
    <3>1. PICK k \in 1..Len(Pending) : Pending[k] = Event("replay", t, n)
      BY <2>3, ComingDef
    <3>2. k \in 1..Len(Pending)' /\ Pending[k]' = Event("replay", t, n)
      BY <2>1, <3>1
    <3>3. DOMAIN (stream'.wire \o stream'.queue) = 1..Len(stream'.wire \o stream'.queue)
      <4>1. stream' \in StreamType
        BY DEF ControlInv, Types
      <4>2. stream'.wire \in Seq(StreamEvents) /\ stream'.queue \in Seq(StreamEvents)
        BY <4>1 DEF StreamType
      <4> QED BY SMT, <4>2, JoinedDomain
    <3> QED BY <3>2, <3>3 DEF Coming, Pending, Event
  <2> QED BY <2>1, <2>2, <2>3 DEF Yielded
<1> SUFFICES ASSUME ControlInv, ControlInv', Rings, OrderInv, LossInv, NoSilentLoss, Quiet
             PROVE  OrderInv' /\ LossInv' /\ NoSilentLoss'
  OBVIOUS
<1> QED BY <1>QuietOrder, <1>QuietLoss, <1>QuietNoLoss

\* A new subscription: what is before it is excused.
LEMMA SubscribeNumbers ==
  ASSUME ControlInv, Rings, OneTopic, OrderInv, SubscribeCall
  PROVE  OrderInv' /\ LossInv' /\ NoSilentLoss'
<1>1. /\ config' = config /\ yielded' = yielded /\ buffers' = buffers /\ gen.sid = None
      /\ excused' = UNION {Through(t, 1, Reached(t)) : t \in Topics}
  <2>1. /\ config' = config /\ yielded' = yielded /\ buffers' = buffers /\ ~Resumes /\ gen.pc = "request"
        /\ excused' = UNION {Through(t, 1, Reached(t)) : t \in Topics}
    BY DEF SubscribeCall, historyVars
  <2> QED BY <2>1 DEF Resumes, ControlInv, AskedOnce
<1>2. gen.last = 0
  BY <1>1 DEF ControlInv, AskedOnce
<1>3. /\ gen'.last = 0 /\ StreamTo("subscribe", FreshId, "open", TRUE, <<Info>>, <<>>)
  BY <1>2, SubscribeCallEffect DEF GenTo
<1>4. Now' = Now /\ Now \in Nat
  BY <1>1, SameNow, NowType
<1>5. Len(Pending') = 1 /\ Pending'[1] = Info
  <2>1. Pending' = <<>> \o <<Info>>
    BY <1>3 DEF Pending, StreamTo
  <2> QED BY SMT, <2>1
<1>6. ASSUME NEW i \in 1..Len(Pending') PROVE ~Numbered(Pending[i])' /\ i = 1
  <2>1. i = 1
    BY SMT, <1>5
  <2> QED BY SMT, <1>5, <2>1 DEF Numbered, Info
<1>7. OrderInv'
  <2>1. \A i \in DOMAIN yielded : yielded[i][2] <= gen'.last
    BY <1>2, <1>3 DEF OrderInv
  <2>2. gen'.last <= Now'
    BY SMT, <1>3, <1>4
  <2> QED BY <1>1, <1>6, <2>1, <2>2 DEF OrderInv
<1>8. ASSUME NEW n \in 1..Now PROVE Settled(n)'
  <2>1. <<TheTopic, n>> \in Through(TheTopic, 1, Reached(TheTopic)) /\ TheTopic \in Topics
    BY DEF Through, Now, OneTopic
  <2>2. <<TheTopic, n>> \in excused'
    BY <1>1, <2>1
  <2> QED BY <2>2 DEF Settled
<1>9. LossInv'
  <2>1. 1..gen'.last = {}
    BY SMT, <1>3
  <2> QED BY <1>4, <1>6, <1>8, <2>1 DEF LossInv
<1>10. NoSilentLoss'
  BY <1>3 DEF NoSilentLoss, StreamTo
<1> QED BY <1>7, <1>9, <1>10


\* A sequence is another with one more element.
Grows(s, u, e) ==
  Len(s) = Len(u) + 1 /\ s[Len(u) + 1] = e /\ \A i \in 1..Len(u) : s[i] = u[i]

-----------------------------------------------------------------------------
(* Numbers: the events that are read *)

\* A sequence is another without its first element.
Shifts(s, u) == Len(s) \in Nat /\ Len(u) = Len(s) + 1 /\ \A i \in 1..Len(s) : s[i] = u[i + 1]

\* An event is read: it is yielded if it has a number.
Received ==
  /\ Shifts(Pending', Pending)
  /\ config' = config /\ excused' = excused /\ Known' = Known /\ Now' = Now
  /\ stream'.kind = stream.kind /\ stream'.sub = stream.sub /\ stream'.status = stream.status
  /\ stream'.active = stream.active /\ SameCall
  /\ gen'.sid \in {gen.sid, stream.sub}
  /\ \/ /\ Numbered(Pending[1]) /\ gen'.sid = stream.sub /\ gen'.last = Pending[1].seq
        /\ yielded' = Append(yielded, <<Pending[1].topic, Pending[1].seq>>)
     \/ ~Numbered(Pending[1]) /\ gen'.last = gen.last /\ yielded' = yielded

\* The generator reads an event.
LEMMA ReceiveNumbers ==
  ControlInv /\ ControlInv' /\ Rings /\ OneTopic /\ OrderInv /\ LossInv /\ NoSilentLoss /\
    (ReceiveInfo \/ ReceiveMessage) =>
    OrderInv' /\ LossInv' /\ NoSilentLoss'
\* The first event is taken from the wire.
<1>Shifted. ASSUME NEW S, NEW p \in Seq(S), NEW q \in Seq(S), p # <<>>
            PROVE  Shifts(Tail(p) \o q, p \o q) /\ (p \o q)[1] = Head(p)
  <2> USE <1>Shifted
  <2>1. /\ Tail(p) \in Seq(S) /\ Len(Tail(p)) = Len(p) - 1 /\ Head(p) = p[1]
        /\ Len(p) \in Nat /\ Len(p) # 0 /\ Len(q) \in Nat
        /\ \A i \in 1..(Len(p) - 1) : Tail(p)[i] = p[i + 1]
    BY SMT
  <2> DEFINE t == Tail(p)
  <2>2. /\ t \in Seq(S) /\ Len(t) = Len(p) - 1 /\ \A i \in 1..(Len(p) - 1) : t[i] = p[i + 1]
    BY <2>1
  <2> HIDE DEF t
  <2>3. /\ Len(p \o q) = Len(p) + Len(q) /\ \A i \in 1..Len(p) : (p \o q)[i] = p[i]
        /\ \A i \in 1..Len(q) : (p \o q)[Len(p) + i] = q[i]
    BY SMT, Joined
  <2>4. /\ Len(t \o q) = Len(t) + Len(q) /\ \A i \in 1..Len(t) : (t \o q)[i] = t[i]
        /\ \A i \in 1..Len(q) : (t \o q)[Len(t) + i] = q[i]
    <3>1. t \in Seq(S)
      BY <2>2
    <3> QED BY SMT, <3>1, Joined
  <2> DEFINE n == Len(p)
             m == Len(q)
             pq == p \o q
             tq == t \o q
  <2>5. /\ n \in Nat /\ n # 0 /\ m \in Nat /\ Len(pq) = n + m /\ Len(tq) = n - 1 + m
        /\ \A i \in 1..n : pq[i] = p[i]
        /\ \A i \in 1..m : pq[n + i] = q[i]
        /\ \A i \in 1..(n - 1) : tq[i] = p[i + 1]
        /\ \A i \in 1..m : tq[n - 1 + i] = q[i]
    BY <2>1, <2>2, <2>3, <2>4
  <2> HIDE DEF n, m, pq, tq
  <2>6. ASSUME NEW i \in 1..Len(tq) PROVE tq[i] = pq[i + 1]
    <3>1. CASE i \in 1..(n - 1)
      BY SMT, <2>5, <3>1
    <3>2. CASE i \notin 1..(n - 1)
      <4> DEFINE k == i - (n - 1)
      <4>1. k \in 1..m /\ n - 1 + k = i /\ n + k = i + 1
        BY SMT, <2>5, <3>2
      <4> HIDE DEF k
      <4>2. pq[n + k] = q[k] /\ tq[n - 1 + k] = q[k]
        BY <2>5, <4>1
      <4> QED BY <4>1, <4>2
    <3> QED BY <3>1, <3>2
  <2>7. pq[1] = p[1] /\ Len(tq) \in Nat /\ Len(pq) = Len(tq) + 1
    BY SMT, <2>5
  <2>8. Shifts(tq, pq) /\ pq[1] = p[1]
    BY <2>6, <2>7 DEF Shifts
  <2> QED BY <2>1, <2>8 DEF tq, pq, t
\* The generator takes the first event.
<1>ReceiveReceived. ASSUME ControlInv, Rings, OrderInv, ReceiveInfo \/ ReceiveMessage
                    PROVE  Received
  <2> USE <1>ReceiveReceived
  <2>1. /\ config' = config /\ excused' = excused /\ registry' = registry /\ buffers' = buffers
    BY DEF ReceiveInfo, ReceiveMessage, daemonVars
  <2>2. Known' = Known /\ Now' = Now
    BY <2>1, SameNow DEF Known
  <2>3. /\ StreamTo(stream.kind, stream.sub, stream.status, stream.active, stream.queue, Tail(stream.wire))
        /\ SameCall /\ stream.wire # <<>>
    BY ReceiveInfoEffect, ReceiveMessageEffect
  <2>4. Pending' = Tail(stream.wire) \o stream.queue /\ Pending = stream.wire \o stream.queue
    BY <2>3 DEF Pending, StreamTo
  <2>5. Shifts(Pending', Pending) /\ Pending[1] = Head(stream.wire)
    BY <2>3, <2>4, <1>Shifted, PendingType
  <2>6. CASE ReceiveInfo
    <3>1. gen'.sid = stream.sub /\ gen'.last = gen.last /\ Head(stream.wire) = Info /\ yielded' = yielded
      BY <2>6, ReceiveInfoEffect DEF GenTo, ReceiveInfo
    <3>2. ~Numbered(Pending[1])
      BY SMT, <2>5, <3>1 DEF Numbered, Info
    <3> QED BY <2>1, <2>2, <2>3, <2>5, <3>1, <3>2 DEF Received, StreamTo
  <2>7. CASE ReceiveMessage
    <3> DEFINE e == Head(stream.wire)
    <3>1. /\ e \in Messages /\ gen'.sid = gen.sid /\ gen'.last = LastAfter(e) /\ gen.pc = "streaming"
          /\ e.type = "retained" => LastAfter(e) = gen.last
          /\ Numbered(e) /\ gen.last < e.seq => LastAfter(e) = e.seq
      BY <2>7, ReceiveMessageEffect DEF GenTo
    <3>2. yielded' = IF e.type = "retained" THEN yielded ELSE Append(yielded, <<e.topic, e.seq>>)
      BY <2>7 DEF ReceiveMessage
    <3>3. gen.sid = stream.sub
      <4>1. e # Info
        BY <2>7 DEF ReceiveMessage
      <4>2. stream.kind # "none"
        BY <2>3 DEF ControlInv, StreamOK
      <4> QED BY <2>3, <3>1, <4>1, <4>2 DEF ControlInv, InfoFirst, Generating
    <3>4. e.type = "retained" <=> ~Numbered(e)
      BY <3>1 DEF Messages, Numbered
    <3>5. Numbered(e) => gen.last < e.seq
      <4>1. 1 \in 1..Len(Pending)
        BY SMT, <2>5 DEF Shifts
      <4> QED BY <2>5, <4>1 DEF OrderInv
    <3> HIDE DEF e
    <3>6. CASE Numbered(e)
      BY <2>1, <2>2, <2>3, <2>5, <3>1, <3>2, <3>3, <3>4, <3>5, <3>6 DEF Received, StreamTo, e
    <3>7. CASE ~Numbered(e)
      BY <2>1, <2>2, <2>3, <2>5, <3>1, <3>2, <3>3, <3>4, <3>7 DEF Received, StreamTo, e
    <3> QED BY <3>6, <3>7
  <2> QED BY <2>6, <2>7
\* What is yielded is the next number.
<1>ReceivedOrder. ASSUME ControlInv, Rings, OrderInv, Received
                  PROVE  OrderInv'
  <2> USE <1>ReceivedOrder
  <2> DEFINE l == Len(Pending')
             e == Pending[1]
  <2>1. /\ l \in Nat /\ Len(Pending) = l + 1 /\ \A i \in 1..l : Pending'[i] = Pending[i + 1]
        /\ Known' = Known /\ Now' = Now /\ stream'.sub = stream.sub /\ gen'.sid \in {gen.sid, stream.sub}
    BY DEF Received, Shifts
  <2>2. \A i \in 1..l : i + 1 \in 1..(l + 1) /\ 1 < i + 1 /\ \A j \in 1..l : i < j => i + 1 < j + 1
    BY SMT, <2>1
  <2>3. 1 \in 1..Len(Pending)
    BY SMT, <2>1
  <2>4. gen.last \in Nat /\ Now \in Nat
    <3>1. gen \in GenType
      BY StreamParts
    <3> QED BY <3>1, NowType DEF GenType
  <2>5. ASSUME NEW i \in 1..l, NEW j \in 1..l, i < j, Numbered(Pending'[i]), Numbered(Pending'[j])
        PROVE  Pending'[i].seq < Pending'[j].seq
    <3>1. i + 1 \in 1..Len(Pending) /\ j + 1 \in 1..Len(Pending) /\ i + 1 < j + 1
      BY SMT, <2>1, <2>5
    <3> QED BY <2>1, <2>5, <3>1 DEF OrderInv
  <2>6. \A i \in 1..l : Numbered(Pending'[i]) =>
          /\ gen.last < Pending'[i].seq
          /\ Numbered(e) => e.seq < Pending'[i].seq
          /\ stream.sub \in Known => Pending'[i].seq <= Now
    BY <2>1, <2>2, <2>3 DEF OrderInv
  <2>7. /\ yielded \in Seq(Topics \X Nat)
        /\ \A i, j \in DOMAIN yielded : i < j => yielded[i][2] < yielded[j][2]
        /\ \A i \in DOMAIN yielded : yielded[i][2] <= gen.last
        /\ gen.sid \in Known \/ stream.sub \in Known => gen.last <= Now
    BY DEF OrderInv
  <2>8. CASE ~Numbered(e)
    <3>1. gen'.last = gen.last /\ yielded' = yielded
      BY <2>8 DEF Received
    <3> HIDE DEF l, e
    <3> QED BY <2>1, <2>5, <2>6, <2>7, <3>1 DEF OrderInv, Numbered, l
  <2>9. CASE Numbered(e)
    <3>1. /\ gen'.last = e.seq /\ yielded' = Append(yielded, <<e.topic, e.seq>>) /\ gen'.sid = stream.sub
      BY <2>9 DEF Received
    <3>2. gen.last < e.seq /\ (stream.sub \in Known => e.seq <= Now)
      BY <2>3, <2>9 DEF OrderInv
    <3>3. e.topic \in Topics /\ e.seq \in Nat
      BY <2>3, <2>9, PendingEvent
    <3> DEFINE y == <<e.topic, e.seq>>
               m == Len(yielded)
    <3>4. y \in Topics \X Nat /\ y[2] = e.seq
      BY <3>3
    <3> HIDE DEF y
    <3>5. /\ yielded' \in Seq(Topics \X Nat) /\ DOMAIN yielded' = 1..(m + 1) /\ m \in Nat
          /\ DOMAIN yielded = 1..m /\ yielded'[m + 1] = y
          /\ \A i \in 1..m : yielded'[i] = yielded[i]
      BY SMTT(20), <2>7, <3>1, <3>4 DEF y
    <3>6. \A i \in 1..m : yielded[i][2] \in Nat
      BY SMT, <2>7
    <3>7. ASSUME NEW i \in 1..m PROVE yielded[i][2] < e.seq
      <4>1. yielded[i][2] \in Nat /\ yielded[i][2] <= gen.last
        BY <2>7, <3>5, <3>6
      <4> HIDE DEF e
      <4> QED BY SMTT(20), <2>4, <3>2, <3>3, <4>1
    <3>8. ASSUME NEW i \in 1..(m + 1), NEW j \in 1..(m + 1), i < j
          PROVE  yielded'[i][2] < yielded'[j][2]
      <4>1. i \in 1..m /\ (j \in 1..m \/ j = m + 1)
        <5>1. m \in Nat
          BY <3>5
        <5> HIDE DEF m
        <5> QED BY SMTT(20), <3>8, <5>1
      <4>2. CASE j \in 1..m
        BY <2>7, <3>5, <3>8, <4>1, <4>2
      <4>3. CASE j = m + 1
        BY <3>4, <3>5, <3>7, <4>1, <4>3
      <4> QED BY <4>1, <4>2, <4>3
    <3>9. \A i \in DOMAIN yielded' : yielded'[i][2] <= e.seq
      BY SMTT(20), <3>3, <3>4, <3>5, <3>6, <3>7
    <3>10. \A i \in 1..l : Numbered(Pending'[i]) => gen'.last < Pending'[i].seq
      BY <2>6, <2>9, <3>1
    <3> HIDE DEF l, e, m
    <3> QED BY <2>1, <2>5, <2>6, <3>1, <3>2, <3>5, <3>8, <3>9, <3>10 DEF OrderInv, Numbered, l
  <2> QED BY <2>8, <2>9
\* What leaves the wire is yielded.
<1>ReceivedSettles. ASSUME ControlInv, Rings, OrderInv, OneTopic, Received, NEW t, NEW n
                    PROVE  /\ Settled(n) => Settled(n)'
                           /\ Yielded(t, n) => Yielded(t, n)'
                           /\ Numbered(Pending[1]) => Pending[1].seq \in Nat
                           /\ Numbered(Pending[1]) /\ Pending[1].seq = n => Settled(n)' /\ Yielded(TheTopic, n)'
                                                                          /\ Pending[1].topic = TheTopic
  <2> USE <1>ReceivedSettles
  <2> DEFINE e == Pending[1]
  <2>1. excused' = excused /\ 1 \in 1..Len(Pending)
    BY SMT DEF Received, Shifts
  <2>2. yielded \in Seq(Topics \X Nat)
    BY DEF OrderInv
  <2>3. CASE ~Numbered(e)
    BY <2>1, <2>3 DEF Received, Settled, Yielded
  <2>4. CASE Numbered(e)
    <3>1. yielded' = Append(yielded, <<e.topic, e.seq>>)
      BY <2>4 DEF Received
    <3>2. e.topic \in Topics /\ e.seq \in Nat
      BY <2>1, <2>4, PendingEvent
    <3>3. e.topic \in Topics /\ e.seq \in Nat /\ e.topic = TheTopic
      BY <3>2 DEF OneTopic
    <3> DEFINE y == <<e.topic, e.seq>>
    <3>4. y \in Topics \X Nat
      BY <3>3
    <3> HIDE DEF y
    <3>5. /\ \A i \in DOMAIN yielded : i \in DOMAIN yielded' /\ yielded'[i] = yielded[i]
          /\ Len(yielded) + 1 \in DOMAIN yielded' /\ yielded'[Len(yielded) + 1] = y
      BY SMT, <2>2, <3>1, <3>4 DEF y
    <3>6. y = <<TheTopic, e.seq>>
      BY <3>3 DEF y
    <3>7. /\ Yielded(t, n) => Yielded(t, n)'
          /\ Yielded(TheTopic, n) => Yielded(TheTopic, n)'
          /\ e.seq = n => Yielded(TheTopic, n)'
      BY <3>5, <3>6 DEF Yielded
    <3> QED BY <2>1, <3>3, <3>7 DEF Settled
  <2> QED BY <2>3, <2>4
\* What is read is not lost.
<1>ReceivedLoss. ASSUME ControlInv, Rings, OneTopic, OrderInv, LossInv, Received
                 PROVE  LossInv'
  <2> USE <1>ReceivedLoss
  <2> DEFINE l == Len(Pending')
             e == Pending[1]
  <2>1. /\ l \in Nat /\ Len(Pending) = l + 1 /\ \A i \in 1..l : Pending'[i] = Pending[i + 1]
        /\ Now' = Now /\ stream'.kind = stream.kind /\ stream'.active = stream.active
    BY DEF Received, Shifts
  <2>2. ASSUME NEW n
        PROVE  /\ Settled(n) => Settled(n)'
               /\ Numbered(e) /\ e.seq = n => Settled(n)'
               /\ Numbered(e) => e.seq \in Nat
    BY <1>ReceivedSettles
  <2>3. ASSUME NEW n, NEW k \in 1..(l + 1), OnItsWay(n, k)
        PROVE  Settled(n)' \/ \E j \in 1..(k - 1) : Numbered(Pending'[j]) /\ Pending'[j].seq = n
    <3>1. PICK j \in 1..k : Numbered(Pending[j]) /\ Pending[j].seq = n
      BY <2>3 DEF OnItsWay
    <3>2. CASE j = 1
      BY <2>2, <3>1, <3>2
    <3>3. CASE j # 1
      <4>1. j - 1 \in 1..(k - 1) /\ j - 1 \in 1..l /\ (j - 1) + 1 = j
        BY SMTT(20), <2>1, <2>3, <3>1, <3>3
      <4>2. Pending'[j - 1] = Pending[j]
        BY <2>1, <4>1
      <4> QED BY <3>1, <4>1, <4>2
    <3> QED BY <3>2, <3>3
  <2>4. ASSUME NEW n \in 1..gen'.last PROVE Settled(n)'
    <3>1. CASE ~Numbered(e)
      <4>1. gen'.last = gen.last
        BY <3>1 DEF Received
      <4> QED BY <2>2, <4>1 DEF LossInv
    <3>2. CASE Numbered(e)
      <4>1. gen'.last = e.seq
        BY <3>2 DEF Received
      <4>2. n = e.seq \/ n \in 1..(e.seq - 1)
        BY SMTT(20), <2>2, <3>2, <4>1
      <4>3. 1 \in 1..Len(Pending)
        BY SMT, <2>1
      <4>4. n \in 1..(e.seq - 1) => Settled(n) \/ OnItsWay(n, 1 - 1)
        BY <3>2, <4>3 DEF LossInv
      <4>5. ~OnItsWay(n, 1 - 1)
        BY SMT DEF OnItsWay
      <4> QED BY <2>2, <3>2, <4>2, <4>4, <4>5
    <3> QED BY <3>1, <3>2
  <2>5. ASSUME NEW i \in 1..l, Numbered(Pending'[i]), NEW n \in 1..(Pending'[i].seq - 1)
        PROVE  Settled(n)' \/ \E j \in 1..(i - 1) : Numbered(Pending'[j]) /\ Pending'[j].seq = n
    <3>1. /\ i + 1 \in 1..Len(Pending) /\ (i + 1) - 1 = i /\ i \in 1..(l + 1)
      BY SMT, <2>1
    <3>2. Settled(n) \/ OnItsWay(n, (i + 1) - 1)
      BY <2>1, <2>5, <3>1 DEF LossInv
    <3>3. Settled(n) \/ OnItsWay(n, i)
      BY <3>1, <3>2
    <3> QED BY <2>2, <2>3, <3>1, <3>3
  <2>6. ASSUME stream'.kind = "subscribe", stream'.active, NEW n \in 1..Now'
        PROVE  Settled(n)' \/ \E j \in 1..l : Numbered(Pending'[j]) /\ Pending'[j].seq = n
    <3>1. Settled(n) \/ OnItsWay(n, l + 1)
      BY <2>1, <2>6 DEF LossInv
    <3>2. l + 1 \in 1..(l + 1) /\ (l + 1) - 1 = l
      BY SMT, <2>1
    <3>3. OnItsWay(n, l + 1) =>
            Settled(n)' \/ \E j \in 1..((l + 1) - 1) : Numbered(Pending'[j]) /\ Pending'[j].seq = n
      BY <2>3, <3>2
    <3> QED BY <2>2, <3>1, <3>2, <3>3
  <2> HIDE DEF e
  <2>7. /\ \A n \in 1..gen'.last : Settled(n)'
        /\ \A i \in 1..Len(Pending') : Numbered(Pending'[i]) =>
            \A n \in 1..(Pending'[i].seq - 1) :
              Settled(n)' \/ \E j \in 1..(i - 1) : Numbered(Pending'[j]) /\ Pending'[j].seq = n
        /\ stream'.kind = "subscribe" /\ stream'.active => \A n \in 1..Now' :
            Settled(n)' \/ \E j \in 1..Len(Pending') : Numbered(Pending'[j]) /\ Pending'[j].seq = n
    BY <2>4, <2>5, <2>6
  <2> HIDE DEF l
  <2> QED BY <2>7 DEF LossInv, OnItsWay, Numbered
\* What a resumption owes is still coming, or was yielded.
<1>ReceivedNoLoss. ASSUME ControlInv, ControlInv', Rings, OneTopic, OrderInv, NoSilentLoss, Received
                   PROVE  NoSilentLoss'
  <2> USE <1>ReceivedNoLoss
  <2> SUFFICES ASSUME stream'.kind = "resume", stream'.status = "open",
                      config'.mode = "REPLAY_BUFFER", ~stream'.lapsed,
                      NEW t \in Topics, NEW n \in 1..stream'.upto[t]
               PROVE  Yielded(t, n)' \/ Coming(t, n)' \/ <<t, n>> \in excused'
    BY DEF NoSilentLoss
  <2>1. /\ stream.kind = "resume" /\ stream.status = "open" /\ SameCall
        /\ config' = config /\ excused' = excused
        /\ Len(Pending') \in Nat /\ Len(Pending) = Len(Pending') + 1
        /\ \A i \in 1..Len(Pending') : Pending'[i] = Pending[i + 1]
    BY DEF Received, Shifts
  <2>2. Yielded(t, n) \/ Coming(t, n) \/ <<t, n>> \in excused
    BY <2>1 DEF NoSilentLoss, SameCall
  <2>3. CASE Coming(t, n)
    <3>1. PICK k \in 1..Len(Pending) : Pending[k] = Event("replay", t, n)
      BY <2>3, ComingDef
    <3>2. CASE k = 1
      <4>1. Numbered(Pending[1]) /\ Pending[1].topic = t /\ Pending[1].seq = n
        BY SMTT(20), <3>1, <3>2 DEF Event, Numbered
      <4> QED BY <4>1, <1>ReceivedSettles
    <3>3. CASE k # 1
      <4>1. k - 1 \in 1..Len(Pending') /\ (k - 1) + 1 = k
        BY SMT, <2>1, <3>1, <3>3
      <4>2. k - 1 \in 1..Len(Pending)' /\ Pending[k - 1]' = Event("replay", t, n)
        <5>1. Pending'[k - 1] = Pending[k]
          BY <2>1, <4>1
        <5> QED BY <3>1, <4>1, <5>1
      <4>3. DOMAIN (stream'.wire \o stream'.queue) = 1..Len(stream'.wire \o stream'.queue)
        <5>1. stream' \in StreamType
          BY DEF ControlInv, Types
        <5>2. stream'.wire \in Seq(StreamEvents) /\ stream'.queue \in Seq(StreamEvents)
          BY <5>1 DEF StreamType
        <5> QED BY SMT, <5>2, JoinedDomain
      <4> QED BY <4>2, <4>3 DEF Coming, Pending, Event
    <3> QED BY <3>2, <3>3
  <2>4. CASE Yielded(t, n)
    BY <2>4, <1>ReceivedSettles
  <2> QED BY <2>1, <2>2, <2>3, <2>4
<1> SUFFICES ASSUME ControlInv, ControlInv', Rings, OneTopic, OrderInv, LossInv, NoSilentLoss,
                    ReceiveInfo \/ ReceiveMessage
             PROVE  OrderInv' /\ LossInv' /\ NoSilentLoss'
  OBVIOUS
<1>1. Received
  BY <1>ReceiveReceived
<1>2. OrderInv' /\ LossInv'
  BY <1>1, <1>ReceivedOrder, <1>ReceivedLoss
<1> QED BY <1>1, <1>2, <1>ReceivedNoLoss

-----------------------------------------------------------------------------
(* Replay: what a resumption brings *)

\* What ResumeSubscribe() puts on its way to a client whose subscription is paused.
Brings(es) ==
  /\ es \in Seq(Messages) /\ Len(Pending') = Len(es) + 1 /\ Pending'[1] = Info
  /\ \A k \in 1..Len(es) : Pending'[k + 1] = es[k]
  /\ \/ /\ config.mode # "REPLAY_BUFFER" \/ stream'.lapsed
        /\ \A k \in 1..Len(es) : ~Numbered(es[k])
     \/ \E base \in Nat : Catches(es, base)

\* The rest of what a resumption does to the numbers.
ResumeKeeps ==
  /\ config' = config /\ yielded' = yielded /\ Now' = Now /\ Now \in Nat
  /\ gen'.last = gen.last /\ gen.last \in Nat /\ gen.last <= Now
  /\ excused \subseteq excused'
  /\ stream'.kind = "resume" /\ \A t \in Topics : stream'.upto[t] = Reached(t)

\* ResumeSubscribe()
LEMMA ResumeNumbers ==
  LeastElements /\ ControlInv /\ ControlInv' /\ Rings /\ OneTopic /\ OrderInv /\ LossInv /\
    ResumeCall /\ gen.sid \in DOMAIN registry.paused =>
    OrderInv' /\ LossInv' /\ NoSilentLoss'
\* ResumeSubscribeReactor
<1>ResumeBrings. ASSUME LeastElements, ControlInv, Rings, OneTopic, OrderInv, LossInv, ResumeCall,
                        gen.sid \in DOMAIN registry.paused
                 PROVE  ResumeKeeps /\ \E es : Brings(es)
  <2> USE <1>ResumeBrings
  <2> DEFINE ok == Resumable(registry, gen.sid)
             after == ResumesAfter(gen.sid)
             es == IF ok THEN AllEvents(Topics, after) ELSE <<>>
  <2>1. /\ config' = config /\ yielded' = yielded /\ buffers' = buffers /\ excused' = excused \cup Excuses
    BY DEF ResumeCall
  <2>2. /\ gen'.last = gen.last /\ StreamTo("resume", gen.sid, "open", TRUE, <<Info>> \o es, <<>>)
        /\ stream'.upto = [t \in Topics |-> Reached(t)] /\ stream'.lapsed = ~ok
    BY RingsReplay, ResumeCallEffect DEF GenTo
  <2>3. gen.last \in Nat /\ after \in Nat /\ (gen.last # 0 => after = gen.last)
    <3>1. gen.last \in Nat
      BY SMT DEF ControlInv, Types, GenType
    <3>2. registry.paused[gen.sid] \in Paused
      BY DEF ControlInv, RegistryOK, AllKept
    <3>3. registry.paused[gen.sid].last \in Nat
      BY SMT, <3>2 DEF Paused
    <3> QED BY <3>1, <3>3 DEF ResumesAfter
  <2>4. Now' = Now /\ Now \in Nat /\ gen.last <= Now
    <3>1. gen.sid \in Known
      BY DEF Known
    <3> QED BY <2>1, <3>1, SameNow, NowType DEF OrderInv
  <2>5. ResumeKeeps
    BY SMT, <2>1, <2>2, <2>3, <2>4 DEF ResumeKeeps, StreamTo
  <2>6. AllEvents(Topics, after) = Events(TheTopic, after)
    <3>1. Events(TheTopic, after) \in Seq(Messages) /\ TheTopic \in Topics
      <4>1. TheTopic \in Topics
        BY DEF OneTopic
      <4>2. PICK base \in Nat : Run(Recovery(TheTopic, after).messages, base)
        BY <2>3, <4>1, RecoveryRun
      <4> QED BY <4>1, <4>2, EventsOfRun DEF Carries
    <3>2. IsFiniteSet(Topics) /\ Topics = {TheTopic} /\ \A t \in Topics : Events(t, after) \in Seq(Messages)
      BY <3>1, ClientAssumption DEF OneTopic
    <3> QED BY <3>2, AllEventsJoin
  <2> HIDE DEF ok, after
  <2>7. /\ es \in Seq(Messages)
        /\ \/ /\ config.mode # "REPLAY_BUFFER" \/ stream'.lapsed
              /\ \A k \in 1..Len(es) : ~Numbered(es[k])
           \/ \E base \in Nat : Catches(es, base)
    <3>1. CASE ~ok
      <4>1. es = <<>> /\ Len(<<>>) = 0 /\ <<>> \in Seq(Messages)
        BY SMT, <3>1
      <4>2. 1..0 = {}
        BY SMT
      <4> QED BY <2>2, <3>1, <4>1, <4>2
    <3>2. CASE ok /\ config.mode # "REPLAY_BUFFER"
      <4>1. es = Events(TheTopic, after)
        BY <2>6, <3>2
      <4> QED BY <2>3, <3>2, <4>1, RecoveryUnnumbered
    <3>3. CASE ok /\ config.mode = "REPLAY_BUFFER"
      <4>1. es = Events(TheTopic, after)
        BY <2>6, <3>3
      <4>2. \E base \in Nat : Catches(es, base)
        BY <2>1, <2>3, <2>4, <3>3, <4>1, RecoveryCatches
      <4> QED BY <4>2 DEF Catches
    <3> QED BY <3>1, <3>2, <3>3
  <2> HIDE DEF es
  <2>8. Len(Pending') = Len(es) + 1 /\ Pending'[1] = Info /\ \A k \in 1..Len(es) : Pending'[k + 1] = es[k]
    <3>1. Pending' = <<>> \o (<<Info>> \o es)
      BY <2>2 DEF Pending, StreamTo
    <3> QED BY SMT, <2>7, <3>1
  <2>9. Brings(es)
    BY <2>7, <2>8 DEF Brings
  <2> QED BY <2>5, <2>9
\* Event k + 1 on the way is event k of what is brought; the first has no number.
<1>BroughtEvent. ASSUME NEW es, Brings(es), NEW i \in 1..Len(Pending'), Numbered(Pending'[i])
                 PROVE  i - 1 \in 1..Len(es) /\ Pending'[i] = es[i - 1]
  <2> USE <1>BroughtEvent
  <2>1. Len(es) \in Nat /\ Len(Pending') = Len(es) + 1
    <3>1. es \in Seq(Messages) /\ Len(Pending') = Len(es) + 1
      BY DEF Brings
    <3> QED BY SMT, <3>1
  <2>2. i # 1
    <3>1. ~Numbered(Info)
      BY SMT DEF Numbered, Info
    <3> QED BY <3>1 DEF Brings
  <2>3. i - 1 \in 1..Len(es) /\ (i - 1) + 1 = i
    BY SMT, <2>1, <2>2
  <2> QED BY <2>3 DEF Brings
\* Without numbers there is no order to break and nothing to lose.
<1>UnnumberedKeeps. ASSUME OrderInv, LossInv, ResumeKeeps, NEW es, Brings(es),
                           \A k \in 1..Len(es) : ~Numbered(es[k])
                    PROVE  OrderInv' /\ LossInv'
  <2> USE <1>UnnumberedKeeps
  <2>1. ASSUME NEW i \in 1..Len(Pending') PROVE ~Numbered(Pending'[i])
    BY <1>BroughtEvent
  <2>2. OrderInv'
    BY <2>1 DEF OrderInv, ResumeKeeps
  <2>3. ASSUME NEW n, Settled(n) PROVE Settled(n)'
    BY <2>3 DEF Settled, Yielded, ResumeKeeps
  <2>4. "resume" # "subscribe"
    OBVIOUS
  <2>5. LossInv'
    BY <2>1, <2>3, <2>4 DEF LossInv, ResumeKeeps
  <2> QED BY <2>2, <2>5
\* The numbers of a replay follow each other.
<1>CaughtEvent. ASSUME NEW es, Brings(es), NEW base \in Nat, Catches(es, base),
                       NEW i \in 1..Len(Pending'), Numbered(Pending'[i])
                PROVE  i - 1 \in 1..Len(es) /\ Pending'[i].seq = base + (i - 1)
  <2> USE <1>CaughtEvent
  <2>1. i - 1 \in 1..Len(es) /\ Pending'[i] = es[i - 1]
    BY <1>BroughtEvent
  <2>2. Pending'[i] = Event("replay", TheTopic, base + (i - 1))
    BY <2>1 DEF Catches
  <2> QED BY SMT, <2>1, <2>2 DEF Event
\* A number between the first and the last of a replay is on its way.
<1>CaughtNumber. ASSUME NEW es, Brings(es), NEW base \in Nat, Catches(es, base),
                        NEW n \in (base + 1)..(base + Len(es))
                 PROVE  /\ (n - base) + 1 \in 1..Len(Pending')
                        /\ Pending'[(n - base) + 1] = Event("replay", TheTopic, n)
  <2> USE <1>CaughtNumber
  <2>1. Len(es) \in Nat /\ Len(Pending') = Len(es) + 1
    <3>1. es \in Seq(Messages) /\ Len(Pending') = Len(es) + 1
      BY DEF Brings
    <3> QED BY SMT, <3>1
  <2>2. n - base \in 1..Len(es) /\ base + (n - base) = n /\ (n - base) + 1 \in 1..Len(Pending')
    BY SMT, <2>1
  <2>3. Pending'[(n - base) + 1] = es[n - base]
    BY <2>2 DEF Brings
  <2>4. es[n - base] = Event("replay", TheTopic, base + (n - base))
    BY SMT, <2>2 DEF Catches
  <2> QED BY <2>2, <2>3, <2>4
\* What a replay does to the order.
<1>CatchesOrder. ASSUME OrderInv, ResumeKeeps, NEW es, Brings(es), NEW base \in Nat, Catches(es, base)
                 PROVE  OrderInv'
  <2> USE <1>CatchesOrder
  <2>1. /\ Now' = Now /\ Now \in Nat /\ gen'.last = gen.last /\ gen.last \in Nat /\ gen.last <= Now
        /\ yielded' = yielded /\ gen.last <= base /\ base + Len(es) <= Now /\ Len(es) \in Nat
    <3>1. es \in Seq(Messages)
      BY DEF Brings
    <3>2. Len(es) \in Nat
      BY SMT, <3>1
    <3> QED BY <3>2 DEF ResumeKeeps, Catches
  <2>2. ASSUME NEW i \in 1..Len(Pending'), Numbered(Pending'[i])
        PROVE  gen'.last < Pending'[i].seq /\ Pending'[i].seq <= Now'
    <3>1. i - 1 \in 1..Len(es) /\ Pending'[i].seq = base + (i - 1)
      BY <2>2, <1>CaughtEvent
    <3> QED BY SMT, <2>1, <3>1
  <2>3. ASSUME NEW i \in 1..Len(Pending'), NEW j \in 1..Len(Pending'), i < j,
               Numbered(Pending'[i]), Numbered(Pending'[j])
        PROVE  Pending'[i].seq < Pending'[j].seq
    <3>1. /\ i - 1 \in 1..Len(es) /\ Pending'[i].seq = base + (i - 1)
          /\ j - 1 \in 1..Len(es) /\ Pending'[j].seq = base + (j - 1)
      BY <2>3, <1>CaughtEvent
    <3>2. i \in Int /\ j \in Int
      BY SMT
    <3> QED BY SMTT(20), <2>1, <2>3, <3>1, <3>2
  <2> QED BY <2>1, <2>2, <2>3 DEF OrderInv
\* A replay leaves no gap.
<1>CatchesLoss. ASSUME LossInv, ResumeKeeps, NEW es, Brings(es), NEW base \in Nat, Catches(es, base)
                PROVE  LossInv'
  <2> USE <1>CatchesLoss
  <2>1. /\ Now \in Nat /\ gen'.last = gen.last /\ yielded' = yielded /\ excused \subseteq excused'
        /\ base + Len(es) <= Now /\ Len(es) \in Nat
    <3>1. es \in Seq(Messages)
      BY DEF Brings
    <3>2. Len(es) \in Nat
      BY SMT, <3>1
    <3> QED BY <3>2 DEF ResumeKeeps, Catches
  <2>2. ASSUME NEW n, Settled(n) PROVE Settled(n)'
    BY <2>1, <2>2 DEF Settled, Yielded
  <2>3. ASSUME NEW i \in 1..Len(Pending'), Numbered(Pending'[i]),
               NEW n \in 1..(Pending'[i].seq - 1), ~Settled(n)'
        PROVE  OnItsWay(n, i - 1)'
    <3>1. i - 1 \in 1..Len(es) /\ Pending'[i].seq = base + (i - 1)
      BY SMT, <2>3, <1>CaughtEvent
    <3>2. n \in 1..Now
      BY SMT, <2>1, <3>1
    <3>3. n \in (base + 1)..(base + Len(es))
      BY <2>3, <3>2 DEF Catches
    <3>4. (n - base) + 1 \in 1..(i - 1)
      BY SMT, <2>1, <3>1, <3>3
    <3>5. Pending'[(n - base) + 1] = Event("replay", TheTopic, n)
      BY <3>3, <1>CaughtNumber
    <3>6. Numbered(Event("replay", TheTopic, n)) /\ Event("replay", TheTopic, n).seq = n
      BY SMT DEF Numbered, Event
    <3> QED BY SMTT(20), <3>4, <3>5, <3>6 DEF OnItsWay
  <2>4. stream'.kind # "subscribe"
    BY DEF ResumeKeeps
  <2> QED BY <2>1, <2>2, <2>3, <2>4 DEF LossInv
\* What is not replayed is settled.
<1>CatchesAll. ASSUME ControlInv', OneTopic, ResumeKeeps, NEW es, Brings(es), NEW base \in Nat,
                      Catches(es, base)
               PROVE  NoSilentLoss'
  <2> USE <1>CatchesAll
  <2> SUFFICES ASSUME NEW t \in Topics, NEW n \in 1..stream'.upto[t]
               PROVE  Yielded(t, n)' \/ Coming(t, n)' \/ <<t, n>> \in excused'
    BY DEF NoSilentLoss
  <2>1. t = TheTopic /\ n \in 1..Now
    BY DEF OneTopic, ResumeKeeps, Now
  <2>2. CASE Settled(n)'
    BY <2>1, <2>2 DEF Settled
  <2>3. CASE n \in (base + 1)..(base + Len(es))
    <3>1. (n - base) + 1 \in 1..Len(Pending') /\ Pending'[(n - base) + 1] = Event("replay", TheTopic, n)
      BY <2>3, <1>CaughtNumber
    <3>2. DOMAIN (stream'.wire \o stream'.queue) = 1..Len(stream'.wire \o stream'.queue)
      <4>1. stream' \in StreamType
        BY DEF ControlInv, Types
      <4>2. stream'.wire \in Seq(StreamEvents) /\ stream'.queue \in Seq(StreamEvents)
        BY SMT, <4>1 DEF StreamType
      <4> QED BY SMT, <4>2, JoinedDomain
    <3> DEFINE k == (n - base) + 1
    <3>3. k \in DOMAIN (stream'.wire \o stream'.queue) /\ (stream'.wire \o stream'.queue)[k] = Event("replay", TheTopic, n)
      BY <3>1, <3>2 DEF Pending
    <3> HIDE DEF k
    <3> QED BY <2>1, <3>3 DEF Coming, Event
  <2> QED BY SMTT(20), <2>1, <2>2, <2>3 DEF Catches
<1> SUFFICES ASSUME LeastElements, ControlInv, ControlInv', Rings, OneTopic, OrderInv, LossInv,
                    ResumeCall, gen.sid \in DOMAIN registry.paused
             PROVE  OrderInv' /\ LossInv' /\ NoSilentLoss'
  OBVIOUS
<1>1. ResumeKeeps
  BY <1>ResumeBrings
<1>2. PICK es : Brings(es)
  BY <1>ResumeBrings
<1>3. CASE (config.mode # "REPLAY_BUFFER" \/ stream'.lapsed) /\ \A k \in 1..Len(es) : ~Numbered(es[k])
  <2>1. OrderInv' /\ LossInv'
    BY <1>1, <1>2, <1>3, <1>UnnumberedKeeps
  <2>2. NoSilentLoss'
    BY <1>1, <1>3 DEF NoSilentLoss, ResumeKeeps
  <2> QED BY <2>1, <2>2
<1>4. ASSUME NEW base \in Nat, Catches(es, base) PROVE OrderInv' /\ LossInv' /\ NoSilentLoss'
  BY <1>1, <1>2, <1>4, <1>CatchesOrder, <1>CatchesLoss, <1>CatchesAll
<1> QED BY <1>2, <1>3, <1>4 DEF Brings

-----------------------------------------------------------------------------
(* Numbers: every step *)

\* publish() of this client or of another.
LEMMA StoredNumbers ==
  ControlInv /\ ControlInv' /\ Rings /\ OneTopic /\ OrderInv /\ LossInv /\ NoSilentLoss /\
    (PublishHandled \/ Deliver) =>
    OrderInv' /\ LossInv' /\ NoSilentLoss'
\* The daemon takes a message, and the stream of the generator does not get it.
<1>StoreQuiet. ASSUME ControlInv, Rings, OneTopic, NEW t \in Topics, Store(t),
                      ~(stream.kind = "subscribe" /\ stream.active),
                      config' = config, yielded' = yielded, gen' = gen
               PROVE  Quiet
  <2> USE <1>StoreQuiet
  <2>1. t = TheTopic /\ excused' = excused
    BY DEF OneTopic, Store
  <2>2. Now' = Now + 1 /\ Knows(registry', DOMAIN registry.local, DOMAIN registry.paused) /\ StreamSame
    BY <2>1, StoreEffect DEF Now
  <2>3. Known' = Known
    BY <2>2 DEF Knows, Known
  <2> QED BY <2>1, <2>2, <2>3, QuietSame DEF StreamSame, StreamTo
\* A message at the end of what is on its way.
<1>Grown. ASSUME NEW S, NEW p \in Seq(S), NEW q \in Seq(S), NEW e \in S
          PROVE  Grows(p \o Append(q, e), p \o q, e)
  <2> USE <1>Grown
  <2>1. /\ Append(q, e) \in Seq(S) /\ Len(Append(q, e)) = Len(q) + 1
        /\ \A i \in 1..Len(q) : Append(q, e)[i] = q[i]
        /\ Append(q, e)[Len(q) + 1] = e
        /\ Len(p) \in Nat /\ Len(q) \in Nat
    BY SMT
  <2> QED BY SMT, <2>1 DEF Grows
\* The stream of the generator gets a message.
<1>StoreLive. ASSUME ControlInv, Rings, OneTopic, NEW t \in Topics, Store(t),
                     stream.kind = "subscribe", stream.active
              PROVE  /\ Now' = Now + 1 /\ Now \in Nat /\ Known' = Known /\ excused' = excused
                     /\ stream'.kind = "subscribe" /\ stream'.sub = stream.sub
                     /\ Len(Pending') = Len(Pending) + 1 /\ Len(Pending) \in Nat
                     /\ \A i \in 1..Len(Pending) : Pending'[i] = Pending[i]
                     /\ Numbered(Pending'[Len(Pending) + 1]) /\ Pending'[Len(Pending) + 1].seq = Now + 1
  <2> USE <1>StoreLive
  <2>1. t = TheTopic /\ excused' = excused
    BY DEF OneTopic, Store
  <2> DEFINE e == Event("message", t, Now + 1)
  <2>2. /\ Now' = Now + 1 /\ Now \in Nat /\ Knows(registry', DOMAIN registry.local, DOMAIN registry.paused)
        /\ StreamTo(stream.kind, stream.sub, stream.status, stream.active, Append(stream.queue, e), stream.wire)
    BY <2>1, StoreEffect DEF Now
  <2>3. Known' = Known
    BY <2>2 DEF Knows, Known
  <2>4. e \in StreamEvents /\ Numbered(e) /\ e.seq = Now + 1
    <3>1. e \in Messages /\ Numbered(e) /\ e.seq = Now + 1
      BY SMT, <2>2 DEF Event, Messages, Numbered
    <3> QED BY <3>1 DEF StreamEvents
  <2> HIDE DEF e
  <2> DEFINE wire == stream.wire
             queue == stream.queue
  <2>5. wire \in Seq(StreamEvents) /\ queue \in Seq(StreamEvents) /\ Pending = wire \o queue /\ Len(Pending) \in Nat
    BY PendingType DEF Pending
  <2>6. Pending' = wire \o Append(queue, e)
    BY <2>2 DEF Pending, StreamTo
  <2>7. stream'.kind = "subscribe" /\ stream'.sub = stream.sub
    BY <2>2 DEF StreamTo
  <2> HIDE DEF wire, queue
  <2>8. Grows(Pending', Pending, e)
    BY <2>4, <2>5, <2>6, <1>Grown
  <2> QED BY <2>1, <2>2, <2>3, <2>4, <2>5, <2>7, <2>8 DEF Grows
\* A message for a live stream has the next number.
<1>StoreNumbers. ASSUME ControlInv, Rings, OneTopic, OrderInv, LossInv, NEW t \in Topics, Store(t),
                        stream.kind = "subscribe", stream.active,
                        yielded' = yielded, gen' = gen
                 PROVE  OrderInv' /\ LossInv' /\ NoSilentLoss'
  <2> USE <1>StoreNumbers
  <2> DEFINE l == Len(Pending)
  <2>1. /\ Now' = Now + 1 /\ Now \in Nat /\ Known' = Known /\ excused' = excused
        /\ stream'.kind = "subscribe" /\ stream'.sub = stream.sub
        /\ Len(Pending') = l + 1 /\ l \in Nat
        /\ \A i \in 1..l : Pending'[i] = Pending[i]
        /\ Numbered(Pending'[l + 1]) /\ Pending'[l + 1].seq = Now + 1
    BY <1>StoreLive
  <2>2. \A i \in 1..l : Numbered(Pending[i]) => Pending[i].seq \in Nat
    BY PendingEvent
  <2>3. gen.last \in Nat /\ stream.sub \in Known
    <3>1. gen \in GenType /\ stream.sub \in DOMAIN registry.local
      BY StreamParts DEF ControlInv, StreamOK
    <3> QED BY <3>1 DEF GenType, Known
  <2>4. gen.last <= Now
    BY <2>3 DEF OrderInv
  <2>5. \A i \in 1..l : Numbered(Pending[i]) => gen.last < Pending[i].seq /\ Pending[i].seq <= Now
    BY <2>3 DEF OrderInv
  <2>6. \A i, j \in 1..l : i < j /\ Numbered(Pending[i]) /\ Numbered(Pending[j]) => Pending[i].seq < Pending[j].seq
    BY DEF OrderInv
  <2>7. \A i \in 1..(l + 1) : i = l + 1 \/ i \in 1..l
    BY SMT, <2>1
  <2>8. ASSUME NEW i \in 1..(l + 1), Numbered(Pending'[i])
        PROVE  gen.last < Pending'[i].seq /\ Pending'[i].seq <= Now + 1
    <3>1. CASE i = l + 1
      BY SMTT(20), <2>1, <2>3, <2>4, <3>1
    <3>2. CASE i \in 1..l
      <4>1. Pending'[i] = Pending[i] /\ Numbered(Pending[i])
        BY <2>1, <2>8, <3>2
      <4>2. Pending[i].seq \in Nat /\ gen.last < Pending[i].seq /\ Pending[i].seq <= Now
        BY <2>2, <2>5, <3>2, <4>1
      <4>3. Pending[i].seq <= Now + 1
        BY SMT, <2>1, <4>2
      <4> QED BY <4>1, <4>2, <4>3
    <3> QED BY <2>7, <3>1, <3>2
  <2>9. ASSUME NEW i \in 1..(l + 1), NEW j \in 1..(l + 1), i < j, Numbered(Pending'[i]),
               Numbered(Pending'[j])
        PROVE  Pending'[i].seq < Pending'[j].seq
    <3>1. i \in 1..l
      BY SMT, <2>1, <2>9
    <3>2. Pending'[i] = Pending[i] /\ Numbered(Pending[i])
      BY <2>1, <2>9, <3>1
    <3>3. CASE j = l + 1
      <4>1. Pending[i].seq \in Nat /\ Pending[i].seq <= Now
        BY <2>2, <2>5, <3>1, <3>2
      <4>2. Pending'[j].seq = Now + 1
        BY <2>1, <3>3
      <4>3. Pending[i].seq < Now + 1
        BY SMT, <2>1, <4>1
      <4> QED BY <3>2, <4>2, <4>3
    <3>4. CASE j \in 1..l
      BY <2>1, <2>6, <2>9, <3>1, <3>2, <3>4
    <3> QED BY <2>7, <3>3, <3>4
  <2>10. OrderInv'
    <3>1. gen.last <= Now + 1
      BY SMTT(20), <2>1, <2>3, <2>4
    <3> QED BY <2>1, <2>8, <2>9, <3>1 DEF OrderInv, Numbered
  <2>11. ASSUME NEW n, Settled(n) PROVE Settled(n)'
    BY <2>1, <2>11, StaysSettled
  <2>12. ASSUME NEW n, NEW k \in 0..l, OnItsWay(n, k)
         PROVE  \E j \in 1..k : Numbered(Pending'[j]) /\ Pending'[j].seq = n
    <3>1. PICK j \in 1..k : Numbered(Pending[j]) /\ Pending[j].seq = n
      BY <2>12 DEF OnItsWay
    <3>2. j \in 1..l
      BY SMTT(20), <2>1, <2>12, <3>1
    <3> QED BY <2>1, <3>1, <3>2
  <2>13. ASSUME NEW n \in 1..Now
         PROVE  Settled(n)' \/ \E j \in 1..l : Numbered(Pending'[j]) /\ Pending'[j].seq = n
    <3>1. Settled(n) \/ OnItsWay(n, l)
      BY DEF LossInv
    <3>2. l \in 0..l
      BY SMT, <2>1
    <3> QED BY <2>11, <2>12, <3>1, <3>2
  <2>14. ASSUME NEW i \in 1..(l + 1), Numbered(Pending'[i]), NEW n \in 1..(Pending'[i].seq - 1)
         PROVE  Settled(n)' \/ \E j \in 1..(i - 1) : Numbered(Pending'[j]) /\ Pending'[j].seq = n
    <3>1. CASE i = l + 1
      <4>1. n \in 1..Now /\ i - 1 = l
        BY SMTT(20), <2>1, <2>14, <3>1
      <4> QED BY <2>13, <4>1
    <3>2. CASE i \in 1..l
      <4>1. Pending'[i] = Pending[i]
        BY <2>1, <3>2
      <4>2. Settled(n) \/ OnItsWay(n, i - 1)
        BY <2>14, <3>2, <4>1 DEF LossInv
      <4>3. i - 1 \in 0..l
        BY SMT, <2>1, <3>2
      <4> QED BY <2>11, <2>12, <4>2, <4>3
    <3> QED BY <2>7, <3>1, <3>2
  <2>15. ASSUME NEW n \in 1..(Now + 1)
         PROVE  Settled(n)' \/ \E j \in 1..(l + 1) : Numbered(Pending'[j]) /\ Pending'[j].seq = n
    <3>1. n = Now + 1 \/ n \in 1..Now
      BY SMT, <2>1
    <3>2. l + 1 \in 1..(l + 1) /\ \A j \in 1..l : j \in 1..(l + 1)
      BY SMT, <2>1
    <3> QED BY <2>1, <2>13, <3>1, <3>2
  <2>16. LossInv'
    <3>1. \A n \in 1..gen'.last : Settled(n)'
      BY <2>11 DEF LossInv
    <3>2. \A i \in 1..Len(Pending') : Numbered(Pending'[i]) =>
            \A n \in 1..(Pending'[i].seq - 1) :
              Settled(n)' \/ \E j \in 1..(i - 1) : Numbered(Pending'[j]) /\ Pending'[j].seq = n
      BY <2>1, <2>14
    <3>3. \A n \in 1..Now' :
            Settled(n)' \/ \E j \in 1..Len(Pending') : Numbered(Pending'[j]) /\ Pending'[j].seq = n
      BY <2>1, <2>15
    <3> HIDE DEF l
    <3> QED BY <3>1, <3>2, <3>3 DEF LossInv, OnItsWay, Numbered
  <2>17. NoSilentLoss'
    BY <2>1 DEF NoSilentLoss
  <2> QED BY <2>10, <2>16, <2>17
<1> SUFFICES ASSUME ControlInv, ControlInv', Rings, OneTopic, OrderInv, LossInv, NoSilentLoss,
                    PublishHandled \/ Deliver
             PROVE  OrderInv' /\ LossInv' /\ NoSilentLoss'
  OBVIOUS
<1>1. /\ config' = config /\ yielded' = yielded /\ gen' = gen
  BY DEF PublishHandled, Deliver, clientVars, historyVars
<1>2. \E t \in Topics : Store(t)
  <2>1. UserOK
    BY StreamParts
  <2> QED BY <2>1 DEF PublishHandled, Deliver, UserOK, Publishing
<1>3. PICK t \in Topics : Store(t)
  BY <1>2
<1>4. CASE stream.kind = "subscribe" /\ stream.active
  BY <1>1, <1>3, <1>4, <1>StoreNumbers
<1>5. CASE ~(stream.kind = "subscribe" /\ stream.active)
  BY <1>1, <1>3, <1>5, <1>StoreQuiet, QuietNumbers
<1> QED BY <1>4, <1>5

\* Every step keeps the order and loses nothing.
LEMMA NextNumbers ==
  ASSUME LeastElements, ControlInv, ControlInv', Rings, OneTopic, OrderInv, LossInv, NoSilentLoss,
         [Next]_vars
  PROVE  OrderInv' /\ LossInv' /\ NoSilentLoss'
<1>1. Replayable
  BY RingsReplay
<1>2. CASE QuietStep
  BY <1>1, <1>2, QuietNext, QuietNumbers
<1> QED BY <1>2, SubscribeNumbers, StoredNumbers, ReceiveNumbers, ResumeNumbers
        DEF Next, GenStep, UserStep, GenLocal, UserLocal, QuietStep

-----------------------------------------------------------------------------
(* The theorems *)

\* The inductive invariant, and with it what is true for one topic.
ClientInv == ControlInv /\ Rings /\ CloseInv /\ CopiesOK

NumbersInv == ClientInv /\ OrderInv /\ LossInv /\ NoSilentLoss

\* The client before its first call.
LEMMA InitClient ==
  ASSUME Init
  PROVE  ClientInv
<1>1. config \in Configs /\ gen = [pc |-> "idle", sid |-> None, last |-> 0, attempt |-> 0]
      /\ user = Resting /\ stream = NoStream /\ registry = NewRegistry /\ buffers = Empty
      /\ tracked = {} /\ issued = {} /\ told = {} /\ up = TRUE
  BY DEF Init, RegistryInit
<1>2. gen \in GenType /\ gen.pc = "idle" /\ gen.sid = None /\ gen.last = 0
  BY SMT, <1>1 DEF GenType, GenStates
<1>3. user \in UserType /\ user.pc = "idle"
  BY SMTT(20), <1>1 DEF UserType, UserStates, Resting
<1>4. /\ stream \in StreamType /\ stream.kind = "none" /\ stream.sub = None /\ stream.active = FALSE
      /\ stream.queue = <<>> /\ stream.wire = <<>>
  <2>1. <<>> \in Seq(StreamEvents)
    BY ShortStreams
  <2> QED BY SMT, <1>1, <2>1 DEF StreamType, NoStream
<1>5. Types
  BY SMTT(20), <1>1, <1>2, <1>3, <1>4 DEF Types, UserOK, Publishing
<1>6. RegistryOK /\ Known = {} /\ DOMAIN registry.local = {}
  <2>1. Knows(registry, {}, {})
    BY <1>1, NewKnows
  <2> QED BY <2>1 DEF Knows, RegistryOK, AllKept, Shape, Known
<1>7. Ids /\ StreamOK /\ InfoFirst /\ AskedOnce
  <2>1. ~Generating
    BY <1>2 DEF Generating
  <2> QED BY <1>1, <1>2, <1>4, <1>6, <2>1 DEF Ids, StreamOK, InfoFirst, AskedOnce
<1>8. Rings
  <2>1. DOMAIN Empty = {}
    BY DEF Empty
  <2> QED BY <1>1, <2>1 DEF Rings
<1>9. CloseInv
  <2>1. ~Generating
    BY <1>2 DEF Generating
  <2> QED BY <1>3, <1>6, <2>1 DEF CloseInv, CloseKnows, CloseCancels, CloseLeaves
<1>10. CopiesOK
  BY SMT, <1>3 DEF CopiesOK
<1> QED BY <1>5, <1>6, <1>7, <1>8, <1>9, <1>10 DEF ClientInv, ControlInv

\* Nothing is yielded and nothing on its way.
LEMMA InitNumbers ==
  ASSUME Init
  PROVE  OrderInv /\ LossInv /\ NoSilentLoss
<1>1. gen.last = 0 /\ stream.kind = "none" /\ Pending = <<>> \o <<>> /\ yielded = <<>> /\ Known = {}
  <2>1. Knows(registry, {}, {})
    BY SMT, NewKnows DEF Init, RegistryInit
  <2> QED BY <2>1 DEF Init, NoStream, Pending, Knows, Known
<1>2. Len(Pending) = 0 /\ yielded \in Seq(Topics \X Nat) /\ DOMAIN yielded = {} /\ 1..0 = {}
  BY SMT, <1>1
<1> QED BY SMT, <1>1, <1>2 DEF OrderInv, LossInv, NoSilentLoss

\* Every step keeps the inductive invariant.
LEMMA NextClient ==
  ASSUME LeastElements, ClientInv, [Next]_vars
  PROVE  ClientInv' /\ Reports
<1>1. Replayable
  BY RingsReplay DEF ClientInv
<1> QED BY <1>1, NextControl, RingsStep, NextClose, NextCopies DEF ClientInv

INSTANCE FiniteSetTheorems

\* Sets of natural numbers, and of subsets of a finite set, have least elements.
LEMMA Least == LeastElements
\* A set of natural numbers that is not empty has a least element.
<1>LeastNat. ASSUME NEW T, T \subseteq Nat, T # {}
             PROVE  HasLeast(T)
  <2> USE <1>LeastNat
  <2> DEFINE R == {ss \in Nat \X Nat : ss[1] < ss[2]}
  <2>1. OpToRel(<, Nat) = R
    BY DEF OpToRel
  <2>2. IsWellFoundedOn(R, Nat)
    BY <2>1, NatLessThanWellFounded
  <2> HIDE DEF R
  <2>3. PICK n \in T : \A m \in T : ~(<<m, n>> \in R)
    BY <2>2, WFMin
  <2>4. ASSUME NEW m \in T, m < n PROVE FALSE
    <3> DEFINE p == <<m, n>>
    <3>1. p \in Nat \X Nat /\ p[1] = m /\ p[2] = n
      BY SMT
    <3> HIDE DEF p
    <3>2. p[1] < p[2]
      BY <2>4, <3>1
    <3>3. p \in R
      BY SMT, <3>1, <3>2 DEF R
    <3> QED BY <2>3, <3>3 DEF p
  <2>5. \A m \in T : n <= m
    BY SMT, <2>4
  <2> QED BY <2>5 DEF HasLeast
\* A set of subsets of a finite set that is not empty has a minimal one.
<1>LeastSet. ASSUME NEW D, IsFiniteSet(D), NEW F, F \subseteq SUBSET D, F # {}
             PROVE  HasMinimal(F)
  <2> USE <1>LeastSet
  <2> DEFINE T == {Cardinality(s) : s \in F}
  <2>1. \A s \in F : IsFiniteSet(s) /\ Cardinality(s) \in Nat
    BY FS_Subset, FS_CardinalityType
  <2>2. T \subseteq Nat /\ T # {}
    BY <2>1
  <2>a. HasLeast(T)
    <3> HIDE DEF T
    <3> QED BY <2>2, <1>LeastNat
  <2>3. PICK n \in T : \A m \in T : n <= m
    BY <2>a DEF HasLeast
  <2>4. PICK s \in F : n = Cardinality(s)
    BY <2>3
  <2>5. \A u \in F : u \subseteq s => u = s
    <3> TAKE u \in F
    <3> HAVE u \subseteq s
    <3>1. Cardinality(s) <= Cardinality(u)
      BY <2>3, <2>4
    <3>2. Cardinality(u) <= Cardinality(s)
      BY <2>1, FS_Subset
    <3>3. Cardinality(u) = Cardinality(s)
      BY SMTT(20), <3>1, <3>2, <2>1
    <3> QED BY SMTT(20), <3>3, <2>1, FS_Subset
  <2> QED BY <2>4, <2>5 DEF HasMinimal
<1>1. \A D : IsFiniteSet(D) => \A U \in SUBSET D : IsFiniteSet(U)
  BY FS_Subset
<1> QED BY <1>1, <1>LeastNat, <1>LeastSet DEF LeastElements

(* What is true of the client of client.py and of the daemon it talks to   *)
(* at every interleaving of subscribe() with publish(), unsubscribe() and  *)
(* close(), over lost connections, crashes and lost answers.               *)
THEOREM ClientInvariant == Spec => []ClientInv
<1>1. Init => ClientInv
  BY InitClient
<1>2. ClientInv /\ [Next]_vars => ClientInv'
  BY Least, NextClient
<1> QED BY <1>1, <1>2, PTL DEF Spec

(* close() leaves no subscription of this client active, but for the cases *)
(* the property names, whatever the generator does meanwhile.              *)
THEOREM CloseAlwaysPauses == Spec => []ClosePausesAll
<1>1. ClientInv => ClosePausesAll
  BY DEF ClientInv, CloseInv, CloseLeaves, ClosePausesAll
<1> QED BY <1>1, ClientInvariant, PTL

(* A closed client has no channel, unless close() ran while the generator  *)
(* had lost its connection or read from a channel that was replaced, so    *)
(* that _reconnect() may still come.                                       *)
THEOREM ClosedIsForGood == Spec => []ClosedStaysClosed
<1>1. ClientInv => ClosedStaysClosed
  BY DEF ClientInv, CloseInv, CloseLeaves, ClosedStaysClosed
<1> QED BY <1>1, ClientInvariant, PTL

(* publish() reports what was stored: with its retries, a message comes    *)
(* twice only if an answer was lost, and an error means no answer.         *)
THEOREM PublishAlwaysExact == Spec => PublishExact
<1>1. ClientInv /\ [Next]_vars =>
        [user.pc # "idle" /\ user'.pc = "idle" =>
           /\ user'.outcome = "ok" => user.copies = user.broken + 1
           /\ user'.outcome = "error" => user.copies = user.broken]_vars
  BY Least, NextClient DEF Reports
<1> QED BY <1>1, ClientInvariant, PTL DEF Spec, PublishExact

\* For one topic the numbers are in order too.
LEMMA NumbersInvariant ==
  ASSUME OneTopic
  PROVE  Spec => []NumbersInv
<1>1. Init => NumbersInv
  BY InitClient, InitNumbers DEF NumbersInv
<1>2. NumbersInv /\ [Next]_vars => NumbersInv'
  <2> SUFFICES ASSUME NumbersInv, [Next]_vars PROVE NumbersInv'
    OBVIOUS
  <2>1. ClientInv'
    BY Least, NextClient DEF NumbersInv
  <2>2. OrderInv' /\ LossInv' /\ NoSilentLoss'
    BY <2>1, Least, NextNumbers DEF NumbersInv, ClientInv
  <2> QED BY <2>1, <2>2 DEF NumbersInv
<1> QED BY <1>1, <1>2, PTL DEF Spec

(* The consumer of a subscribe() of one topic sees the messages in the     *)
(* order of the daemon's numbers and none of them twice.                   *)
THEOREM YieldsAlwaysIncrease ==
  ASSUME OneTopic
  PROVE  Spec => []YieldsIncrease
<1>1. NumbersInv => YieldsIncrease
  BY DEF NumbersInv, OrderInv, YieldsIncrease
<1> QED BY <1>1, NumbersInvariant, PTL

(* A subscription of one topic that is resumed with REPLAY_BUFFER yielded, *)
(* replays or counts as missed every message, but for the named cases.     *)
THEOREM NothingLostSilently ==
  ASSUME OneTopic
  PROVE  Spec => []NoSilentLoss
<1>1. NumbersInv => NoSilentLoss
  BY DEF NumbersInv
<1> QED BY <1>1, NumbersInvariant, PTL

=============================================================================
