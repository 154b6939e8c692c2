---------------------------------- MODULE MCCli ----------------------------------
(***************************************************************************)
(* An instance of Cli for TLC: up to three daemons and two typed lines.    *)
(***************************************************************************)
EXTENDS Cli

Hosts == <<"d1", "d2", "d3">>

Choosing == {<<"ls">>, <<"connect", "-n", "1">>, <<"connect", "-n", "2">>}

Looking == {<<>>, <<"ls">>, <<"Discover", "-t", "0">>, <<"discover", "--timeout", "n">>,
            <<"connect", "-n", "2">>, <<"connect", "d2">>, <<"CONNECT", "n">>,
            <<"connect", "-n", "d1">>, <<"connect">>, <<"q">>}

Using == {<<"disconnect">>, <<"connect", "d1">>, <<"connect", "-n", "2">>, <<"pub", "t", "hello">>,
          <<"pub", "t">>, <<"ping">>, <<"Mesh">>, <<"mesh", "peers">>, <<"mesh", "gossip">>,
          <<"pubsub", "numsub">>, <<"info">>, <<"client", "info">>, <<"debug", "log">>,
          <<"sub", "t">>, <<"subscribe">>, <<"monitor">>, <<"help">>,
          <<"bogus">>, <<"exit">>}

AllLines == Choosing \cup Looking \cup Using

Cases ==
  [w \in UNION {Range(line) : line \in AllLines} |->
     CASE w = "ls" -> "LS" [] w \in {"Discover", "discover"} -> "DISCOVER" [] w = "-t" -> "-T"
       [] w = "--timeout" -> "--TIMEOUT" [] w = "n" -> "N" [] w = "connect" -> "CONNECT"
       [] w = "-n" -> "-N" [] w = "d1" -> "D1" [] w = "d2" -> "D2" [] w = "q" -> "Q"
       [] w = "disconnect" -> "DISCONNECT" [] w = "pub" -> "PUB" [] w = "t" -> "T"
       [] w = "hello" -> "HELLO" [] w = "ping" -> "PING" [] w \in {"Mesh", "mesh"} -> "MESH"
       [] w = "peers" -> "PEERS" [] w = "gossip" -> "GOSSIP" [] w = "pubsub" -> "PUBSUB"
       [] w = "numsub" -> "NUMSUB" [] w = "info" -> "INFO" [] w = "client" -> "CLIENT"
       [] w = "debug" -> "DEBUG" [] w = "log" -> "LOG" [] w = "sub" -> "SUB" [] w = "subscribe" -> "SUBSCRIBE"
       [] w = "monitor" -> "MONITOR" [] w = "help" -> "HELP" [] w = "bogus" -> "BOGUS"
       [] w = "exit" -> "EXIT" [] OTHER -> w]

Numbers == [w \in {"0", "1", "2", "2000"} |->
              CASE w = "0" -> 0 [] w = "1" -> 1 [] w = "2" -> 2 [] w = "2000" -> 2000]

Interactive == [mode |-> "repl", auto |-> "none", address |-> None, index |-> 0, line |-> <<>>]
ByIndex == [Interactive EXCEPT !.auto = "index", !.index = 2]
ByAddress == [Interactive EXCEPT !.auto = "address", !.address = "d1"]
Command(start, line) == [start EXCEPT !.mode = "command", !.line = line]

\* Three daemons answer, and the list holds two.
Crowded == [launches |-> {Interactive}, typing |-> Choosing, up |-> {{"d1", "d2", "d3"}},
            kinds |-> {"good"}, lines |-> 2, answers |-> 3, changes |-> 0, faults |-> 0]
\* Answers that are none, a socket that fails, every form of DISCOVER and CONNECT.
Faulty == [launches |-> {Interactive, ByIndex, Command(ByIndex, <<"ls">>)}, typing |-> Looking,
           up |-> {{"d1", "d2"}}, kinds |-> {"good", "junk", "malformed"},
           lines |-> 2, answers |-> 2, changes |-> 0, faults |-> 2]
\* A daemon that comes and goes, and all other commands.
Connected == [launches |-> {ByAddress, Command(ByAddress, <<"pub", "t", "hello">>),
                            Command(ByAddress, <<"monitor">>)},
              typing |-> Using, up |-> {{"d1"}, {}}, kinds |-> {},
              lines |-> 2, answers |-> 0, changes |-> 2, faults |-> 0]

Allowed == {Crowded, Faulty, Connected}
=============================================================================
