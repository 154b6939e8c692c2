------------------------- MODULE MCSubscriptionStream -------------------------
(***************************************************************************)
(* Instances of SubscriptionStream for TLC: deliveries to an open stream;  *)
(* the opening of a stream that nobody delivers to yet; the opening while  *)
(* threads deliver.                                                        *)
(***************************************************************************)
EXTENDS SubscriptionStream

Running == [crew |-> Deliverers, opening |-> FALSE, retained |-> 0,
            expiring |-> TRUE, messages |-> 4]
OpeningQuiet == [crew |-> {}, opening |-> TRUE, retained |-> 3,
                 expiring |-> TRUE, messages |-> 0]
OpeningBusy == [Running EXCEPT !.opening = TRUE, !.retained = 1, !.expiring = FALSE, !.messages = 3]

Situations == {Running, OpeningQuiet, OpeningBusy}
=============================================================================
