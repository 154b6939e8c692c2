------------------------------ MODULE TopicBuffers ------------------------------
(***************************************************************************)
(* The rings of include/nexusd/core/topic_message_buffer.hpp, one for each *)
(* topic that has messages, and the queries that a resuming subscriber's   *)
(* RPC makes of them.  TopicMessageBuffer has the operations that fill and *)
(* clear them, under the memory limit.                                     *)
(***************************************************************************)
EXTENDS Integers, Sequences

CONSTANT PerTopic   \* buffer_size_per_topic_

VARIABLE buffers    \* topic_buffers_: a TopicBuffer for each topic that has one

BufferedMessage == [seq : Nat, size : Nat, payload : Nat]

TopicBuffer == [next : Nat, messages : Seq(BufferedMessage), bytes : Int]

NewBuffer == [next |-> 1, messages |-> <<>>, bytes |-> 0]

-----------------------------------------------------------------------------
(* TopicBuffer *)

RingFull(b) == Len(b.messages) >= PerTopic

\* Variant: the bytes of the front are not given back.
PushedKeepsBytes(b, size, payload) ==
  [next     |-> b.next + 1,
   messages |-> Append(IF RingFull(b) THEN Tail(b.messages) ELSE b.messages,
                       [seq |-> b.next, size |-> size, payload |-> payload]),
   bytes    |-> b.bytes + size]

\* push(): a full ring gives its front up.
Pushed(b, size, payload) ==
  [next     |-> b.next + 1,
   messages |-> Append(IF RingFull(b) THEN Tail(b.messages) ELSE b.messages,
                       [seq |-> b.next, size |-> size, payload |-> payload]),
   bytes    |-> b.bytes - (IF RingFull(b) THEN Head(b.messages).size ELSE 0) + size]

\* Variant: the last message the client has is sent again.
MessagesFrom(b, after) == SelectSeq(b.messages, LAMBDA m : m.seq >= after)

\* getMessagesAfter(): one pass over the ring.
MessagesAfter(b, after) ==
  LET kept[i \in 0..Len(b.messages)] ==
        IF i = 0
        THEN <<>>
        ELSE IF b.messages[i].seq > after
             THEN Append(kept[i - 1], b.messages[i])
             ELSE kept[i - 1]
  IN  kept[Len(b.messages)]

Latest(b) == SubSeq(b.messages, Len(b.messages), Len(b.messages))

CurrentSequence(b) == b.next - 1

OldestSequence(b) == IF b.messages = <<>> THEN 0 ELSE Head(b.messages).seq

HasSequence(b, seq) ==
  /\ b.messages # <<>>
  /\ seq >= Head(b.messages).seq
  /\ seq <= b.messages[Len(b.messages)].seq

-----------------------------------------------------------------------------
(* The queries of TopicMessageBuffer *)

Answer(messages, gap, missed) == [messages |-> messages, gap |-> gap, missed |-> missed]

MessagesForReplay(t, after) ==
  IF t \notin DOMAIN buffers
  THEN Answer(<<>>, FALSE, 0)
  ELSE LET b == buffers[t] IN
       CASE after = 0                   -> Answer(Latest(b), FALSE, 0)
         [] after >= CurrentSequence(b) -> Answer(<<>>, FALSE, 0)
         [] OTHER ->
              IF after < OldestSequence(b)
              THEN Answer(MessagesAfter(b, after), TRUE, OldestSequence(b) - after - 1)
              ELSE Answer(MessagesAfter(b, after), FALSE, 0)

RetainedMessage(t) == IF t \in DOMAIN buffers THEN Latest(buffers[t]) ELSE <<>>

IsSequenceAvailable(t, seq) == t \in DOMAIN buffers /\ HasSequence(buffers[t], seq)
=============================================================================
