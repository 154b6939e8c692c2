-------------------------- MODULE MCTopicMessageBuffer --------------------------
(* Model checking of TopicMessageBuffer: topics are interchangeable. *)
EXTENDS TopicMessageBuffer, TLC

TopicSymmetry == Permutations(Topics)
=============================================================================
