--------------------------- MODULE SubscriberChannel ---------------------------
(***************************************************************************)
(* What a subscriber's queue promises to the rest of the daemon: a FIFO    *)
(* channel that may lose messages but never reorders, repeats or invents   *)
(* one, and that never holds more than Limit of them.  Messages are named  *)
(* by the order in which the channel accepted them.                        *)
(***************************************************************************)
EXTENDS Integers, Sequences

CONSTANTS Limit, Policy

VARIABLES
  pending,    \* accepted and neither delivered nor lost, oldest first
  accepted,   \* number of messages accepted so far
  delivered   \* what the subscriber's writer has been given, in order

chanVars == <<pending, accepted, delivered>>

ChanInit == pending = <<>> /\ accepted = 0 /\ delivered = <<>>

After(k) == SubSeq(pending, k + 1, Len(pending))

\* Only a limited channel that does not reject the newest may evict, and then
\* only the one oldest message to make place for the one accepted.
Evictable == IF Limit = 0 \/ Policy = "DROP_NEWEST" THEN {0} ELSE {0, 1}

Accept ==
  /\ \E k \in Evictable :
       /\ k <= Len(pending)
       /\ pending' = Append(After(k), accepted + 1)
  /\ Limit > 0 => Len(pending') <= Limit
  /\ accepted' = accepted + 1
  /\ UNCHANGED delivered

Deliver ==
  /\ \E k \in 0..(Len(pending) - 1) :
       /\ pending' = After(k + 1)
       /\ delivered' = Append(delivered, pending[k + 1])
  /\ UNCHANGED accepted

Lose ==
  /\ \E k \in 1..Len(pending) : pending' = After(k)
  /\ UNCHANGED <<accepted, delivered>>

ChanNext == Accept \/ Deliver \/ Lose

Spec == ChanInit /\ [][ChanNext]_chanVars

-----------------------------------------------------------------------------
Increasing(s) == \A i, j \in DOMAIN s : i < j => s[i] < s[j]

\* Deliveries, then what is pending, are in the order of acceptance.
InOrder ==
  /\ Increasing(delivered)
  /\ Increasing(pending)
  /\ \A i \in DOMAIN delivered, j \in DOMAIN pending : delivered[i] < pending[j]
=============================================================================
