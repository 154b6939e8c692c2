--------------------------- MODULE MCSubscriberQueue ---------------------------
(***************************************************************************)
(* Instances of SubscriberQueue for TLC.  Producers are interchangeable.   *)
(***************************************************************************)
EXTENDS SubscriberQueue, TLC

ProducerSymmetry == Permutations(Producers)
=============================================================================
