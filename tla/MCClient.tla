-------------------------------- MODULE MCClient --------------------------------
(***************************************************************************)
(* An instance of Client for TLC: the default configuration, a limit of    *)
(* one attempt, and a client that does not reconnect, each with another    *)
(* mode of recovery.                                                       *)
(***************************************************************************)
EXTENDS Client, TLC

Setup(enabled, attempts, mode) == [enabled |-> enabled, attempts |-> attempts, mode |-> mode]

Setups ==
  {Setup(TRUE, 0, "REPLAY_BUFFER"), Setup(TRUE, 1, "RETAINED_ONLY"), Setup(FALSE, 0, "NONE")}
=============================================================================
