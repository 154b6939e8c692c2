-------------------------------- MODULE MCDaemon --------------------------------
(***************************************************************************)
(* An instance of Daemon for TLC: command lines of up to four words.       *)
(***************************************************************************)
EXTENDS Daemon

Words == {"--help", "--bogus", "--cluster", "--app-port", "--default-message-ttl", "70000", "0"}

CommandLines == UNION {[1..n -> Words] : n \in 0..4}

Numbers == [w \in {"70000", "0"} |-> IF w = "0" THEN 0 ELSE 70000]
=============================================================================
