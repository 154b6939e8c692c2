--------------------------------- MODULE MCMesh ---------------------------------
(***************************************************************************)
(* An instance of Mesh for TLC: subscriptions to "a" and "b", and to "ab"; *)
(* one cluster or two; many changes, or a restart, or a fault.             *)
(***************************************************************************)
EXTENDS Mesh

Plans == {[d \in Homes \cup Observers |-> 1],
          [d \in Homes \cup Observers |-> IF d \in Homes THEN 1 ELSE 2]}

Changing == [interests |-> {{<<1>>, <<2>>}, {<<1, 2>>}}, start |-> {{<<1>>, <<2>>}}, changes |-> 2,
             restarts |-> 0, faults |-> 0, messages |-> 0, air |-> 1, calls |-> 1]
Reordered == [Changing EXCEPT !.interests = {{<<1>>}}, !.start = {}, !.air = 2, !.calls = 2]
Restarting == [Reordered EXCEPT !.start = {{<<1>>}}, !.changes = 0, !.restarts = 1, !.messages = 1,
                                !.calls = 1]
Failing == [Reordered EXCEPT !.changes = 1, !.faults = 1, !.messages = 1, !.air = 1]

Allowed == {Changing, Reordered, Restarting, Failing}
=============================================================================
