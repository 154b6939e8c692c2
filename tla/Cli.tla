----------------------------------- MODULE Cli -----------------------------------
(***************************************************************************)
(* The command line tool, tools/cli/src: main() and Cli::run(), the parser *)
(* and the commands, the discovery of daemons over UDP and the gRPC client *)
(* that is connected to at most one of them.                               *)
(*                                                                         *)
(* One thread does all of it.  What makes it hard is around it: a SIGINT   *)
(* only sets quit_requested_ and most of what the thread waits in goes on  *)
(* after it; the discovery socket stays open between two DISCOVERs, so an  *)
(* answer may arrive for a request that nobody waits for any more; daemons *)
(* come and go.                                                            *)
(*                                                                         *)
(* A line is the sequence of its words (tokenize()).  The daemons, their   *)
(* answers and gRPC are external: no code of the repository answers a      *)
(* discovery request.                                                      *)
(***************************************************************************)
EXTENDS Integers, Sequences, FiniteSets, SequencesExt

CONSTANTS
  Daemons,       \* the addresses of daemons, in the order of Discovery's sort
  Upper,         \* to_upper() on the words that are typed
  Numerals,      \* the words std::stoi() reads, with their values
  MaxInstances,  \* max_instances
  Budgets        \* what may happen: ways to start the tool, daemons up, kinds of
                 \* answers, lines typed, and how many of each

None == "none"

-----------------------------------------------------------------------------
(* CommandParser and ParsedCommand *)

Aliases ==
  [a \in {"Q", "EXIT", "?", "H", "DISC", "LS", "PUB", "SUB", "MON"} |->
     CASE a \in {"Q", "EXIT"} -> "QUIT"
       [] a \in {"?", "H"}    -> "HELP"
       [] a \in {"DISC", "LS"} -> "DISCOVER"
       [] a = "PUB" -> "PUBLISH" [] a = "SUB" -> "SUBSCRIBE" [] a = "MON" -> "MONITOR"]

\* register_commands(): the commands and their subcommands.
Plain == {"DISCOVER", "PUBLISH", "SUBSCRIBE", "MONITOR", "PING", "CONNECT", "DISCONNECT",
          "HELP", "QUIT", "CLEAR"}

Subcommands ==
  [c \in Plain \cup {"INFO", "MESH", "PUBSUB", "CLIENT", "DEBUG"} |->
     CASE c = "INFO"   -> {"SERVER", "STATS", "MEMORY", "CONFIG", "ALL"}
       [] c = "MESH"   -> {"PEERS", "STATUS", "TOPOLOGY", "GOSSIP"}
       [] c = "PUBSUB" -> {"TOPICS", "CHANNELS", "NUMSUB", "NUMPAT", "RETAINED"}
       [] c = "CLIENT" -> {"LIST", "INFO", "KILL", "GETNAME", "SETNAME"}
       [] c = "DEBUG"  -> {"OBJECT", "SEGFAULT", "SLEEP", "DIGEST", "STRUCTSIZE", "LOG"}
       [] OTHER        -> {}]

ResolveAlias(word) == IF word \in DOMAIN Aliases THEN Aliases[word] ELSE word

NoCommand == [command |-> None, sub |-> None, args |-> <<>>]

ParseLine(line) ==
  IF line = <<>> THEN NoCommand
  ELSE LET command == ResolveAlias(Upper[line[1]])
           known == IF command \in DOMAIN Subcommands THEN Subcommands[command] ELSE {}
       IN  IF Len(line) > 1 /\ Upper[line[2]] \in known
           THEN [command |-> command, sub |-> Upper[line[2]], args |-> SubSeq(line, 3, Len(line))]
           ELSE [command |-> command, sub |-> None, args |-> Tail(line)]

\* has_flag(): a flag is found in any case, with and without dashes.
HasFlag(args, forms) == \E k \in DOMAIN args : Upper[args[k]] \in forms

\* get_option(): the word after the first of forms, in this case and with a dash.
GetOption(args, forms, default) ==
  LET at == {k \in DOMAIN args : args[k] \in forms /\ k < Len(args)}
  IN  IF at = {} THEN default ELSE args[Min(at) + 1]

(***************************************************************************)
(* How many calls a command makes that only asks: info_cmd(), mesh_cmd(),  *)
(* client_cmd(), pubsub_cmd(), debug_cmd() and PING.  A call that fails    *)
(* leaves its part of the report blank.                                    *)
(***************************************************************************)
InfoCalls(sub) == IF sub \in {None, "ALL", "CONFIG"} THEN 2 ELSE 1

MeshCalls(sub) == IF sub = "GOSSIP" THEN 0 ELSE IF sub = "PEERS" THEN 1 ELSE 2

PubsubCalls(sub, args) == IF sub = "NUMSUB" /\ args = <<>> THEN 0 ELSE 1

ClientCalls(sub, args) ==
  IF sub \in {None, "LIST"} \/ (sub = "INFO" /\ args # <<>>) THEN 1 ELSE 0

DebugCalls(sub, args) ==
  IF sub \in {None, "OBJECT", "STRUCTSIZE"} \/ (sub = "LOG" /\ args = <<>>) THEN 1 ELSE 0

Queries(asked) ==
  CASE asked.command = "PING"   -> 1
    [] asked.command = "INFO"   -> InfoCalls(asked.sub)
    [] asked.command = "MESH"   -> MeshCalls(asked.sub)
    [] asked.command = "PUBSUB" -> PubsubCalls(asked.sub, asked.args)
    [] asked.command = "CLIENT" -> ClientCalls(asked.sub, asked.args)
    [] asked.command = "DEBUG"  -> DebugCalls(asked.sub, asked.args)

Asking == {"PING", "INFO", "MESH", "PUBSUB", "CLIENT", "DEBUG"}

-----------------------------------------------------------------------------
VARIABLES
  launch,    \* how the tool was started: mode, auto, address, index, line
  pc,        \* where the thread is
  starting,  \* it connects before the first prompt, or before its one command
  cmd,       \* the command it executes
  calls,     \* calls the command still makes
  quit,      \* quit_requested_
  eof,       \* std::cin.eof()
  cached,    \* cached_instances_: addresses
  socket,    \* socket_initialized_
  clock,     \* what is left of a discovery: "ample", "tiny" (under 1 ms), "past"
  inbox,     \* datagrams the socket has received
  target,    \* the address being connected to
  conn,      \* the address it is connected to, or None
  alive,     \* the stream of SUBSCRIBE has not been broken
  up,        \* the daemons that run
  seen,      \* history, for the properties
  left       \* what is left of the bounds

lineVars == <<launch, starting, cmd, calls, quit, eof>>
discoveryVars == <<cached, socket, clock, inbox>>
clientVars == <<target, conn, alive>>
vars == <<pc, lineVars, discoveryVars, clientVars, up, seen, left>>

Init ==
  /\ pc = "launch" /\ starting = TRUE /\ cmd = NoCommand /\ calls = 0
  /\ quit = FALSE /\ eof = FALSE
  /\ cached = <<>> /\ socket = FALSE /\ clock = "past" /\ inbox = <<>>
  /\ target = None /\ conn = None /\ alive = FALSE
  /\ seen = [descriptors |-> 0, unbound |-> 0, heard |-> {}, refused |-> FALSE, before |-> None,
             after |-> 0, sent |-> 0, accepted |-> 0, acked |-> 0]
  /\ left \in Budgets /\ launch \in left.launches /\ up \in left.up

Spend(bound) == left[bound] > 0 /\ left' = [left EXCEPT ![bound] = @ - 1]

-----------------------------------------------------------------------------
(* Where a command, and a discovery or a connection, goes on *)

\* execute() has returned.
Back == IF launch.mode = "command" THEN "ended" ELSE "prompt"

\* connect() or connect_by_index() has returned.
AfterConnect ==
  /\ starting' = FALSE
  /\ pc' = IF starting /\ launch.mode = "command" THEN "execute" ELSE Back

\* GrpcClient::connect() begins with disconnect().
BeginConnect(address) ==
  /\ pc' = "connect" /\ target' = address /\ conn' = None
  /\ UNCHANGED <<starting, alive>>

\* Variant: the index counts from 0.
ConnectByIndexFromZero(k) ==
  IF k \in 0..(Len(cached) - 1) THEN BeginConnect(cached[k + 1])
  ELSE AfterConnect /\ UNCHANGED clientVars

\* connect_by_index() and get_by_index(): an unknown index changes nothing.
ConnectByIndex(k) ==
  IF k \in 1..Len(cached) THEN BeginConnect(cached[k])
  ELSE AfterConnect /\ UNCHANGED clientVars

\* run() and run_command() up to the loop, or to the command.
Launch ==
  /\ pc = "launch"
  /\ cmd' = IF launch.mode = "command" THEN ParseLine(launch.line) ELSE NoCommand
  /\ CASE launch.auto = "none"    -> AfterConnect /\ UNCHANGED clientVars
       [] launch.auto = "index"   -> pc' = "discover" /\ UNCHANGED <<starting, clientVars>>
       [] launch.auto = "address" -> BeginConnect(launch.address)
  /\ UNCHANGED <<launch, calls, quit, eof, discoveryVars, up, seen, left>>

\* WaitForConnected() for at most five seconds.
ConnectEnds ==
  /\ pc = "connect" /\ AfterConnect
  /\ conn' \in IF target \in up THEN {target, None} ELSE {None}
  /\ target' = None
  /\ UNCHANGED <<launch, cmd, calls, quit, eof, discoveryVars, alive, up, seen, left>>

-----------------------------------------------------------------------------
(* Discovery::discover() *)

Before(a, b) ==
  \E i, j \in DOMAIN Daemons : i < j /\ Daemons[i] = a /\ Daemons[j] = b

\* The option of DISCOVER; a word that is no number leaves the 2000 ms.
Timeout ==
  LET word == GetOption(cmd.args, {"-timeout", "--timeout"},
                        GetOption(cmd.args, {"-t", "--t"}, "2000"))
  IN  IF ~starting /\ word \in DOMAIN Numerals THEN Numerals[word] ELSE 2000

\* send_discovery_request(), and the time starts.
SendRequest ==
  /\ pc' = "scan"
  /\ clock' = IF Timeout > 0 THEN "ample" ELSE "past"
  /\ cached' = <<>>

\* After discover(): the list is shown, or the instance asked for is connected to.
AfterDiscover(found) ==
  /\ cached' = found
  /\ IF ~starting THEN pc' = Back /\ UNCHANGED <<starting, clientVars>>
     ELSE IF launch.index \in DOMAIN found THEN BeginConnect(found[launch.index])
     ELSE AfterConnect /\ UNCHANGED clientVars

\* init_socket() finds its socket or opens one.
Discover ==
  /\ pc = "discover" /\ SendRequest
  /\ socket' = TRUE
  /\ seen' = [seen EXCEPT !.heard = {}, !.descriptors = IF socket THEN @ ELSE @ + 1]
  /\ UNCHANGED <<lineVars, inbox, clientVars, up, left>>

\* socket() or bind() fails; after bind(), close_socket() does nothing, as
\* socket_initialized_ is not set yet.
DiscoverFails ==
  /\ pc = "discover" /\ ~socket
  /\ Spend("faults")
  /\ AfterDiscover(<<>>)
  /\ \E bound \in BOOLEAN :
       seen' = IF bound THEN seen
               ELSE [seen EXCEPT !.descriptors = @ + 1, !.unbound = @ + 1]
  /\ UNCHANGED <<launch, cmd, calls, quit, eof, socket, clock, inbox, up>>

Sorted(found) == SortSeq(found, Before)

\* The head of the loop: enough instances, no time left, or another
\* recvfrom(), which has no timeout when less than 1 ms is left.
Scan ==
  /\ pc = "scan"
  /\ IF Len(cached) >= MaxInstances \/ clock = "past"
     THEN AfterDiscover(Sorted(cached))
     ELSE /\ pc' = IF clock = "ample" THEN "wait" ELSE "block"
          /\ UNCHANGED <<starting, cached, clientVars>>
  /\ UNCHANGED <<launch, cmd, calls, quit, eof, socket, clock, inbox, up, seen, left>>

Tick ==
  /\ pc \in {"scan", "wait", "block"} /\ clock # "past"
  /\ clock' = IF clock = "ample" THEN "tiny" ELSE "past"
  /\ UNCHANGED <<pc, lineVars, cached, socket, inbox, clientVars, up, seen, left>>

TimedOut ==
  /\ pc = "wait" /\ inbox = <<>> /\ clock # "ample"
  /\ pc' = "scan"
  /\ UNCHANGED <<lineVars, discoveryVars, clientVars, up, seen, left>>

\* An answer that is not one, or comes from an instance listed already, is skipped.
Found(datagram) ==
  IF datagram.kind = "good" /\ datagram.from \notin Range(cached)
  THEN Append(cached, datagram.from) ELSE cached

\* recvfrom() and the rest of receive_response(); std::stoll() and std::stoi()
\* throw at a value that is no number, and only main() catches that.
Receive ==
  /\ pc \in {"wait", "block"} /\ inbox # <<>>
  /\ inbox' = Tail(inbox)
  /\ cached' = Found(Head(inbox))
  /\ pc' = IF Head(inbox).kind = "malformed" THEN "thrown" ELSE "scan"
  /\ seen' = [seen EXCEPT !.refused = @ \/ Head(inbox).kind = "malformed"]
  /\ UNCHANGED <<lineVars, socket, clock, clientVars, up, left>>

-----------------------------------------------------------------------------
(* Cli::run(): the loop *)

\* Variant: only the end of the input ends the loop.
PromptUntilEof ==
  /\ pc = "prompt"
  /\ pc' = IF eof THEN "ended" ELSE "reading"
  /\ cmd' = NoCommand
  /\ UNCHANGED <<launch, starting, calls, quit, eof, discoveryVars, clientVars, up, seen, left>>

Prompt ==
  /\ pc = "prompt"
  /\ pc' = IF quit \/ eof THEN "ended" ELSE "reading"
  /\ cmd' = NoCommand
  /\ UNCHANGED <<launch, starting, calls, quit, eof, discoveryVars, clientVars, up, seen, left>>

\* std::getline() returns a line, the last of which may have no newline.
ReadLine(line, last) ==
  /\ pc = "reading" /\ Spend("lines")
  /\ eof' = last
  /\ cmd' = ParseLine(line)
  /\ pc' = IF line # <<>> THEN "execute" ELSE IF last THEN "ended" ELSE "prompt"
  /\ seen' = [seen EXCEPT !.before = conn,
                          !.after = IF quit /\ line # <<>> THEN @ + 1 ELSE @]
  /\ UNCHANGED <<launch, starting, calls, quit, discoveryVars, clientVars, up>>

\* SIGINT.  run() installs a handler and run_command() does not.  getline(),
\* gRPC and a recvfrom() without timeout go on, one with a timeout returns.
Interrupt ==
  /\ pc \notin {"ended", "thrown", "killed"} /\ ~quit
  /\ IF launch.mode = "command" THEN pc' = "killed" /\ UNCHANGED quit
     ELSE quit' = TRUE /\ pc' = IF pc = "wait" THEN "scan" ELSE pc
  /\ UNCHANGED <<launch, starting, cmd, calls, eof, discoveryVars, clientVars, up, seen, left>>

-----------------------------------------------------------------------------
(* The commands *)

Executing(commands) == pc = "execute" /\ cmd.command \in commands

Return == pc' = Back /\ UNCHANGED <<starting, clientVars>>

ExecuteDiscover ==
  /\ Executing({"DISCOVER"}) /\ pc' = "discover"
  /\ UNCHANGED <<lineVars, discoveryVars, clientVars, up, seen, left>>

IndexWord ==
  GetOption(cmd.args, {"-n", "--n"}, GetOption(cmd.args, {"-N", "--N"}, "1"))

\* The exception of std::stoi() leaves the loop.
ExecuteConnect ==
  /\ Executing({"CONNECT"})
  /\ IF HasFlag(cmd.args, {"N", "-N", "--N"})
     THEN IF IndexWord \in DOMAIN Numerals THEN ConnectByIndex(Numerals[IndexWord])
          ELSE pc' = "thrown" /\ UNCHANGED <<starting, clientVars>>
     ELSE IF cmd.args # <<>> THEN BeginConnect(cmd.args[1]) ELSE Return
  /\ UNCHANGED <<launch, cmd, calls, quit, eof, discoveryVars, up, seen, left>>

ExecuteDisconnect ==
  /\ Executing({"DISCONNECT"})
  /\ pc' = Back /\ conn' = None
  /\ UNCHANGED <<lineVars, discoveryVars, target, alive, up, seen, left>>

ExecuteQuery ==
  /\ Executing(Asking)
  /\ calls' = IF conn = None THEN 0 ELSE Queries(cmd)
  /\ pc' = IF calls' = 0 THEN Back ELSE "call"
  /\ UNCHANGED <<launch, starting, cmd, quit, eof, discoveryVars, clientVars, up, seen, left>>

\* Variant: a call without a deadline.
CallEndsIfUp ==
  /\ pc = "call" /\ conn \in up
  /\ calls' = calls - 1
  /\ pc' = IF calls = 1 THEN Back ELSE pc
  /\ UNCHANGED <<launch, starting, cmd, quit, eof, discoveryVars, clientVars, up, seen, left>>

\* One call is answered, or fails after at most five seconds.
CallEnds ==
  /\ pc = "call"
  /\ calls' = calls - 1
  /\ pc' = IF calls = 1 THEN Back ELSE pc
  /\ UNCHANGED <<launch, starting, cmd, quit, eof, discoveryVars, clientVars, up, seen, left>>

ExecutePublish ==
  /\ Executing({"PUBLISH"})
  /\ IF conn = None \/ Len(cmd.args) < 2 THEN pc' = Back /\ UNCHANGED seen
     ELSE pc' = "publish" /\ seen' = [seen EXCEPT !.sent = @ + 1]
  /\ UNCHANGED <<lineVars, discoveryVars, clientVars, up, left>>

\* The daemon handles the call.
PublishAccepted ==
  /\ pc = "publish" /\ conn \in up
  /\ pc' = "accepted"
  /\ seen' = [seen EXCEPT !.accepted = @ + 1]
  /\ UNCHANGED <<lineVars, discoveryVars, clientVars, up, left>>

PublishAcked ==
  /\ pc = "accepted" /\ pc' = Back
  /\ seen' = [seen EXCEPT !.acked = @ + 1]
  /\ UNCHANGED <<lineVars, discoveryVars, clientVars, up, left>>

\* Variant: the status is not looked at.
PublishFailsUnseen ==
  /\ pc \in {"publish", "accepted"} /\ pc' = Back
  /\ seen' = [seen EXCEPT !.acked = @ + 1]
  /\ UNCHANGED <<lineVars, discoveryVars, clientVars, up, left>>

\* The call fails or its ten seconds are over, before or after it is handled.
PublishFails ==
  /\ pc \in {"publish", "accepted"} /\ pc' = Back
  /\ UNCHANGED <<lineVars, discoveryVars, clientVars, up, seen, left>>

\* GrpcClient::subscribe() reads until the stream ends; it has no deadline.
OpenStream == pc' = "stream" /\ alive' = (conn \in up)

ExecuteSubscribe ==
  /\ Executing({"SUBSCRIBE"})
  /\ IF conn = None \/ cmd.args = <<>> THEN pc' = Back /\ UNCHANGED alive ELSE OpenStream
  /\ UNCHANGED <<lineVars, discoveryVars, target, conn, up, seen, left>>

\* MONITOR subscribes to every topic.
ExecuteMonitor ==
  /\ Executing({"MONITOR"})
  /\ IF conn = None THEN pc' = Back /\ UNCHANGED alive ELSE OpenStream
  /\ UNCHANGED <<lineVars, discoveryVars, target, conn, up, seen, left>>

StreamReturns ==
  /\ pc = "stream" /\ ~alive /\ pc' = Back
  /\ UNCHANGED <<lineVars, discoveryVars, clientVars, up, seen, left>>

ExecuteQuit ==
  /\ Executing({"QUIT"}) /\ pc' = Back /\ quit' = TRUE
  /\ UNCHANGED <<launch, starting, cmd, calls, eof, discoveryVars, clientVars, up, seen, left>>

\* HELP, CLEAR and what is no command.
ExecuteOther ==
  /\ pc = "execute"
  /\ cmd.command \in {"HELP", "CLEAR"} \/ cmd.command \notin DOMAIN Subcommands
  /\ pc' = Back
  /\ UNCHANGED <<lineVars, discoveryVars, clientVars, up, seen, left>>

-----------------------------------------------------------------------------
(* The daemons *)

InTime == pc \in {"scan", "wait", "block"} /\ clock # "past"

\* A daemon answers a request that reached it, late or twice or not at all.
Answer(daemon, kind) ==
  /\ socket /\ daemon \in up /\ pc \notin {"ended", "thrown", "killed"}
  /\ Spend("answers")
  /\ inbox' = Append(inbox, [from |-> daemon, kind |-> kind])
  /\ seen' = [seen EXCEPT !.heard = IF kind = "good" /\ InTime THEN @ \cup {daemon} ELSE @]
  /\ UNCHANGED <<pc, lineVars, cached, socket, clock, clientVars, up>>

DaemonStarts(daemon) ==
  /\ daemon \notin up /\ Spend("changes")
  /\ up' = up \cup {daemon}
  /\ UNCHANGED <<pc, lineVars, discoveryVars, clientVars, seen>>

DaemonEnds(daemon) ==
  /\ daemon \in up /\ Spend("changes")
  /\ up' = up \ {daemon}
  /\ alive' = (alive /\ conn # daemon)
  /\ UNCHANGED <<pc, lineVars, discoveryVars, target, conn, seen>>

-----------------------------------------------------------------------------
Step ==
  \/ Launch \/ ConnectEnds \/ Discover \/ DiscoverFails \/ Scan \/ TimedOut \/ Receive
  \/ Prompt \/ ExecuteDiscover \/ ExecuteConnect \/ ExecuteDisconnect \/ ExecuteQuery
  \/ CallEnds \/ ExecutePublish \/ PublishAcked \/ PublishFails
  \/ ExecuteSubscribe \/ ExecuteMonitor \/ StreamReturns \/ ExecuteQuit \/ ExecuteOther

Next ==
  \/ Step \/ Tick \/ Interrupt \/ PublishAccepted
  \/ \E line \in left.typing, last \in BOOLEAN : ReadLine(line, last)
  \/ \E d \in Range(Daemons) :
       \/ \E kind \in left.kinds : Answer(d, kind)
       \/ DaemonStarts(d) \/ DaemonEnds(d)

Spec == Init /\ [][Next]_vars

(***************************************************************************)
(* The thread goes on and time passes, which ends every call that has a    *)
(* deadline.  Nothing is assumed of the user and of the daemons.           *)
(***************************************************************************)
FairSpec == Spec /\ WF_vars(Step) /\ WF_vars(Tick)

-----------------------------------------------------------------------------
(* Properties *)

\* The type of every variable.
TypeOK ==
  /\ pc \in {"launch", "discover", "scan", "wait", "block", "connect", "prompt", "reading",
             "execute", "call", "publish", "accepted", "stream", "ended", "thrown", "killed"}
  /\ {starting, quit, eof, socket, alive} \subseteq BOOLEAN
  /\ calls \in 0..2 /\ (pc = "call" => calls > 0)
  /\ clock \in {"ample", "tiny", "past"}
  /\ cached \in Seq(Range(Daemons)) /\ up \subseteq Range(Daemons)
  /\ conn \in Range(Daemons) \cup {None}

AtPrompt == pc \in {"prompt", "reading"}

(* What DISCOVER lists: at most max_instances, in order, no instance       *)
(* twice, and every instance whose answer came in time, except answers     *)
(* that are unread because the list was full or the time over.             *)
ListingSound ==
  AtPrompt =>
    /\ Len(cached) <= MaxInstances
    /\ \A i, j \in DOMAIN cached : i < j => Before(cached[i], cached[j])
    /\ \A d \in seen.heard \ Range(cached) :
         /\ Len(cached) = MaxInstances \/ clock = "past"
         /\ \E k \in DOMAIN inbox : inbox[k] = [from |-> d, kind |-> "good"]

(* CONNECT in one of its documented forms connects to the address, or to   *)
(* the instance with that number in the last list, or to nothing; only an  *)
(* unknown number leaves the connection there was.                         *)
ConnectAsAsked ==
  pc = "prompt" /\ cmd.command = "CONNECT" =>
    LET a == cmd.args IN
    /\ Len(a) = 1 /\ a[1] \in Range(Daemons) => conn \in {a[1], None}
    /\ Len(a) = 2 /\ a[1] = "-n" /\ a[2] \in DOMAIN Numerals =>
         IF Numerals[a[2]] \in DOMAIN cached THEN conn \in {cached[Numerals[a[2]]], None}
         ELSE conn = seen.before

(* A PUBLISH that is reported as done was handled, and none is handled     *)
(* twice; one that is reported as failed may have been handled.            *)
PublishHonest == seen.acked <= seen.accepted /\ seen.accepted <= seen.sent

(* However many DISCOVERs there are, one descriptor is open, and one more  *)
(* for every bind() that failed: init_socket() loses those.                *)
DescriptorsKnown ==
  seen.descriptors = seen.unbound + IF socket THEN 1 ELSE 0

(* After Ctrl+C, at most the line that was being typed is executed.        *)
OneLineAfterQuit == seen.after <= 1

(* The interactive tool ends when it is asked to, whatever fails; an       *)
(* exception ends it only for a CONNECT whose number is none and for an    *)
(* answer of a daemon with a malformed number.                             *)
EndsAsAsked ==
  /\ pc = "ended" /\ launch.mode = "repl" => quit \/ eof
  /\ pc = "thrown" => seen.refused \/ (cmd.command = "CONNECT" /\ IndexWord \notin DOMAIN Numerals)

\* What the tool may wait in for ever.
Waiting == pc \in {"reading", "block"} \/ (pc = "stream" /\ alive)

(* QUIT and Ctrl+C end the tool, unless it stays for ever in getline(), in *)
(* a stream or in a recvfrom() whose timeout was cut down to zero.         *)
QuitEnds == [](quit => <>(pc \in {"ended", "thrown"})) \/ <>[]Waiting
=============================================================================
