--------------------------------- MODULE Daemon ---------------------------------
(***************************************************************************)
(* The life of a daemon: src/daemon/main.cpp with parseArgs() of           *)
(* config.hpp, start() and stop() of src/core/discovery_agent.cpp with its *)
(* two threads, the socket they share (src/net/udp_socket.cpp), the reaper *)
(* thread of SidecarServiceImpl, and the calls that the two gRPC servers   *)
(* have open when they are shut down.                                      *)
(*                                                                         *)
(* Every socket call reads socket_ for itself: once to see if it is valid, *)
(* once for each system call.  stop() closes the descriptor and clears     *)
(* socket_ in the main thread while both threads may be between two of     *)
(* those reads, and the kernel gives a closed descriptor to whoever opens  *)
(* the next one.                                                           *)
(*                                                                         *)
(* A call of the Subscribe kind is the SubscribeReactor seen from outside: *)
(* OnCancel() does not call Finish(), a failing write does.  gRPC's        *)
(* Shutdown() returns when every call is done; after its deadline it       *)
(* cancels the calls that are left.                                        *)
(***************************************************************************)
EXTENDS Integers, Sequences, FiniteSetsExt

CONSTANTS
  ArgVectors,  \* command lines: sequences of words
  Numerals     \* the words std::stoi() and its kin read, with their values

ASSUME DaemonAssumption == ArgVectors \subseteq Seq(STRING)

-----------------------------------------------------------------------------
(* Config and parseArgs() *)

TextOptions == {"--cluster", "--mcast-addr", "--bind", "--log-level", "--backpressure-policy"}

PortOptions == {"--mcast-port", "--mesh-port", "--app-port"}

NumberOptions ==
  {"--message-buffer-size", "--max-buffer-memory", "--paused-subscription-ttl",
   "--subscriber-queue-limit", "--block-timeout-ms", "--default-message-ttl",
   "--ttl-reaper-interval"}

Options == TextOptions \cup PortOptions \cup NumberOptions

HelpWords == {"--help", "-h"}

\* What an option is set to: words stay, ports lose all but 16 bits.
Converted(option, word) ==
  IF option \in TextOptions THEN word
  ELSE IF option \in PortOptions THEN Numerals[word] % 65536 ELSE Numerals[word]

\* What is set on the command line; the rest has its default.
NoOptions == [outcome |-> "ok", set |-> [o \in {} |-> 0]]

Ended(c, outcome) == [c EXCEPT !.outcome = outcome]

\* Variant: the first value of an option wins.
AssignedOnce(c, option, word) ==
  [c EXCEPT !.set = [o \in DOMAIN @ \cup {option} |->
                       IF o \in DOMAIN @ THEN @[o] ELSE Converted(option, word)]]

Assigned(c, option, word) ==
  [c EXCEPT !.set = [o \in DOMAIN @ \cup {option} |->
                       IF o = option THEN Converted(option, word) ELSE @[o]]]

\* One round of the loop, at the option args[k].
TakeOption(c, args, k) ==
  IF args[k] \in HelpWords \/ k = Len(args) \/ args[k] \notin Options THEN Ended(c, "help")
  ELSE IF args[k] \notin TextOptions /\ args[k + 1] \notin DOMAIN Numerals THEN Ended(c, "throws")
  ELSE Assigned(c, args[k], args[k + 1])

ParseArgs(args) ==
  LET parsed[k \in 0..Len(args)] ==
        IF k = 0 THEN NoOptions
        ELSE IF parsed[k - 1].outcome # "ok" \/ k % 2 = 0 THEN parsed[k - 1]
        ELSE TakeOption(parsed[k - 1], args, k)
  IN  parsed[Len(args)]

ValueOf(c, option, default) == IF option \in DOMAIN c.set THEN c.set[option] ELSE default

\* The condition of SidecarServiceImpl's constructor.
Reaping(c) ==
  ValueOf(c, "--default-message-ttl", 0) > 0 /\ ValueOf(c, "--ttl-reaper-interval", 1000) > 0

-----------------------------------------------------------------------------
VARIABLES
  main,      \* where main() is
  args,      \* the command line, until it is parsed
  config,    \* what parseArgs() returned
  shutdown,  \* g_shutdown
  code,      \* what main() returns
  running,   \* running_ of the agent
  socket,    \* socket_: valid or not, and what was set on it
  descriptor,\* who has the number of the agent's descriptor: "agent", "free", "other"
  sender,    \* where senderThread_ is
  receiver,  \* where receiverThread_ is
  stray,     \* history: calls of each thread on a descriptor that is not the agent's
  reaper,    \* the reaper thread: "none", "on", "stopping", "ended"
  server,    \* the servers that accept calls
  feed,      \* a Subscribe call: "none", "idle", "writing", "orphan", "done"
  relay      \* a PushMessageStream call: "none", "reading", "acking", "done"

agentVars == <<running, socket, descriptor>>
threadVars == <<sender, receiver, stray>>
callVars == <<feed, relay>>
vars == <<main, args, config, shutdown, code, agentVars, threadVars, reaper, server, callVars>>

Closed == [valid |-> FALSE, reuse |-> FALSE, bound |-> FALSE, joined |-> FALSE]

Init ==
  /\ main = "parse" /\ args \in ArgVectors /\ config = NoOptions
  /\ shutdown = FALSE /\ code = 0
  /\ running = FALSE /\ socket = Closed /\ descriptor = "free"
  /\ sender = "none" /\ receiver = "none"
  /\ stray = [sender |-> 0, receiver |-> 0]
  /\ reaper = "none" /\ server = {}
  /\ feed = "none" /\ relay = "none"

Goto(from, to) == main = from /\ main' = to

-----------------------------------------------------------------------------
(* main(): the way up *)

Parse ==
  /\ Goto("parse", "parsed")
  /\ config' = ParseArgs(args)
  /\ UNCHANGED <<args, shutdown, code, agentVars, threadVars, reaper, server, callVars>>

\* The exception of parseArgs() is outside the try block.
UseConfig ==
  /\ main = "parsed"
  /\ main' = CASE config.outcome = "help"   -> "exited"
               [] config.outcome = "throws" -> "aborted"
               [] config.outcome = "ok"     -> "agent"
  /\ args' = <<>>
  /\ config' = [config EXCEPT !.set = [o \in DOMAIN @ \cap NumberOptions |-> @[o]]]
  /\ UNCHANGED <<shutdown, code, agentVars, threadVars, reaper, server, callVars>>

\* UdpSocket(): the descriptor, or an invalid socket.
CreateAgent ==
  /\ Goto("agent", "start")
  /\ \/ socket' = [socket EXCEPT !.valid = TRUE] /\ descriptor' = "agent"
     \/ UNCHANGED <<socket, descriptor>>
  /\ UNCHANGED <<args, config, shutdown, code, running, threadVars, reaper, server, callVars>>

\* The calls of start() on the socket in their order, each of which may fail;
\* the time to live and the loopback are tried and their failure is logged.
Prepared(k) ==
  [valid |-> socket.valid, reuse |-> k >= 1, bound |-> k >= 2, joined |-> k >= 3]

\* start() returns false; main() does not look at it.
StartFails ==
  /\ Goto("start", "services")
  /\ socket' \in IF socket.valid THEN {Prepared(k) : k \in 0..2} ELSE {socket}
  /\ UNCHANGED <<args, config, shutdown, code, running, descriptor, threadVars, reaper, server, callVars>>

\* A thread that cannot be created throws; what is there is destroyed.
StartSender ==
  /\ main = "start" /\ socket.valid
  /\ socket' = Prepared(3)
  /\ running' = TRUE
  /\ \/ main' = "start receiver" /\ sender' = "check" /\ UNCHANGED code
     \/ main' = "destroy agent" /\ code' = 1 /\ UNCHANGED sender
  /\ UNCHANGED <<args, config, shutdown, descriptor, receiver, stray, reaper, server, callVars>>

StartReceiver ==
  /\ \/ Goto("start receiver", "services") /\ receiver' = "check" /\ UNCHANGED code
     \/ Goto("start receiver", "destroy agent") /\ code' = 1 /\ UNCHANGED receiver
  /\ UNCHANGED <<args, config, shutdown, agentVars, sender, stray, reaper, server, callVars>>

CreateServices ==
  /\ main = "services"
  /\ \/ main' = "mesh" /\ reaper' = (IF Reaping(config) THEN "on" ELSE "none") /\ UNCHANGED code
     \/ Reaping(config) /\ main' = "destroy agent" /\ code' = 1 /\ UNCHANGED reaper
  /\ config' = NoOptions
  /\ UNCHANGED <<args, shutdown, agentVars, threadVars, server, callVars>>

StartMeshServer ==
  /\ \/ Goto("mesh", "app") /\ server' = {"mesh"} /\ UNCHANGED code
     \/ Goto("mesh", "destroy services") /\ code' = 1 /\ UNCHANGED server
  /\ UNCHANGED <<args, config, shutdown, agentVars, threadVars, reaper, callVars>>

StartAppServer ==
  /\ \/ Goto("app", "wait") /\ server' = {"mesh", "app"} /\ UNCHANGED code
     \/ Goto("app", "abandon mesh") /\ server' = {} /\ code' = 1
  /\ UNCHANGED <<args, config, shutdown, agentVars, threadVars, reaper, callVars>>

\* The default action of the signal, or signalHandler().
Signal ==
  /\ main \notin {"exited", "aborted"}
  /\ IF main \in {"parse", "parsed"}
     THEN main' = "aborted" /\ UNCHANGED shutdown
     ELSE shutdown' = TRUE /\ UNCHANGED main
  /\ UNCHANGED <<args, config, code, agentVars, threadVars, reaper, server, callVars>>

-----------------------------------------------------------------------------
(* main(): the way down *)

Open(call) == call \notin {"none", "done"}

SeeShutdown ==
  /\ Goto("wait", "drain app") /\ shutdown
  /\ server' = {"mesh"}
  /\ UNCHANGED <<args, config, shutdown, code, agentVars, threadVars, reaper, callVars>>

AppDrained ==
  /\ Goto("drain app", "drain mesh") /\ ~Open(feed)
  /\ server' = {}
  /\ UNCHANGED <<args, config, shutdown, code, agentVars, threadVars, reaper, callVars>>

MeshDrained ==
  /\ Goto("drain mesh", "stop") /\ ~Open(relay)
  /\ UNCHANGED <<args, config, shutdown, code, agentVars, threadVars, reaper, server, callVars>>

\* mesh_server->Shutdown() without a deadline.
MeshAbandoned ==
  /\ Goto("abandon mesh", "destroy services") /\ ~Open(relay)
  /\ UNCHANGED <<args, config, shutdown, code, agentVars, threadVars, reaper, server, callVars>>

\* Variant: running_ is not reset.
StopKeepsRunning ==
  /\ main \in {"stop", "destroy agent"}
  /\ main' = IF running THEN "close" ELSE IF main = "stop" THEN "destroy services" ELSE "destroy socket"
  /\ UNCHANGED <<agentVars, args, config, shutdown, code, threadVars, reaper, server, callVars>>

\* stop(), which main() calls when all went well and the destructor otherwise.
Stop ==
  /\ main \in {"stop", "destroy agent"}
  /\ main' = IF running THEN "close" ELSE IF main = "stop" THEN "destroy services" ELSE "destroy socket"
  /\ running' = FALSE
  /\ UNCHANGED <<socket, descriptor, args, config, shutdown, code, threadVars, reaper, server, callVars>>

\* UdpSocket::close(): closeSocket(), then the handle is cleared.
CloseSocket ==
  /\ Goto("close", "clear")
  /\ descriptor' = "free"
  /\ UNCHANGED <<running, socket, args, config, shutdown, code, threadVars, reaper, server, callVars>>

ClearSocket ==
  /\ Goto("clear", "join sender")
  /\ socket' = Closed
  /\ UNCHANGED <<running, descriptor, args, config, shutdown, code, threadVars, reaper, server, callVars>>

JoinSender ==
  /\ Goto("join sender", "join receiver") /\ sender \in {"none", "ended"}
  /\ UNCHANGED <<args, config, shutdown, code, agentVars, threadVars, reaper, server, callVars>>

AfterStop == IF code = 0 THEN "destroy services" ELSE "destroy socket"

\* Variant: the receiver is not waited for.
JoinNobody ==
  /\ Goto("join receiver", AfterStop)
  /\ UNCHANGED <<args, config, shutdown, code, agentVars, threadVars, reaper, server, callVars>>

\* A thread that was never started is not joinable.
JoinReceiver ==
  /\ Goto("join receiver", AfterStop) /\ receiver \in {"none", "ended"}
  /\ UNCHANGED <<args, config, shutdown, code, agentVars, threadVars, reaper, server, callVars>>

\* Variant: the reaper is joined and not told.
DestroyServicesUntold ==
  /\ main = "destroy services"
  /\ reaper \in {"none", "ended"} /\ main' = "destroy agent"
  /\ UNCHANGED <<args, config, shutdown, code, agentVars, threadVars, reaper, server, callVars>>

\* ~SidecarServiceImpl(): the reaper is told and joined.
DestroyServices ==
  /\ main = "destroy services"
  /\ \/ reaper = "on" /\ reaper' = "stopping" /\ UNCHANGED main
     \/ reaper \in {"none", "ended"} /\ main' = "destroy agent" /\ UNCHANGED reaper
  /\ UNCHANGED <<args, config, shutdown, code, agentVars, threadVars, server, callVars>>

\* ~UdpSocket(): close() once more.
DestroySocket ==
  /\ Goto("destroy socket", "exited")
  /\ descriptor' = IF socket.valid THEN "free" ELSE descriptor
  /\ socket' = Closed
  /\ UNCHANGED <<running, args, config, shutdown, code, threadVars, reaper, server, callVars>>

-----------------------------------------------------------------------------
(* The threads of the agent *)

\* A system call with socket_ as it is now.
SystemCall(thread) ==
  stray' = IF socket.valid /\ descriptor = "agent" THEN stray ELSE [stray EXCEPT ![thread] = @ + 1]

SenderLoop ==
  /\ sender = "check"
  /\ sender' = IF running THEN "send" ELSE "ended"
  /\ UNCHANGED <<main, args, config, shutdown, code, agentVars, receiver, stray, reaper, server, callVars>>

\* sendTo(): isValid(), then sendto(), whose failure is logged.
SendTo ==
  /\ \/ sender = "send" /\ sender' = (IF socket.valid THEN "sendto" ELSE "check") /\ UNCHANGED stray
     \/ sender = "sendto" /\ sender' = "check" /\ SystemCall("sender")
  /\ UNCHANGED <<main, args, config, shutdown, code, agentVars, receiver, reaper, server, callVars>>

ReceiverLoop ==
  /\ receiver = "check"
  /\ receiver' = IF running THEN "receive" ELSE "ended"
  /\ UNCHANGED <<main, args, config, shutdown, code, agentVars, sender, stray, reaper, server, callVars>>

\* receiveFrom(): isValid(), select() for at most 500 ms, recvfrom().  A beacon
\* that is not there any more, on somebody else's descriptor, is waited for.
ReceiveFrom ==
  /\ \/ receiver = "receive" /\ receiver' = (IF socket.valid THEN "select" ELSE "check") /\ UNCHANGED stray
     \/ receiver = "select" /\ receiver' \in {"check", "recvfrom"} /\ SystemCall("receiver")
     \/ receiver = "recvfrom" /\ SystemCall("receiver")
        /\ receiver' \in IF socket.valid /\ descriptor = "other" THEN {"check", "blocked"} ELSE {"check"}
  /\ UNCHANGED <<main, args, config, shutdown, code, agentVars, sender, reaper, server, callVars>>

ReaperLoop ==
  /\ reaper = "stopping" /\ reaper' = "ended"
  /\ UNCHANGED <<main, args, config, shutdown, code, agentVars, threadVars, server, callVars>>

\* Any other thread of the process opens a file or a connection, and closes it.
OthersOpen ==
  /\ main \notin {"parse", "parsed", "agent", "exited", "aborted"}
  /\ \/ descriptor = "free" /\ descriptor' = "other"
     \/ descriptor = "other" /\ descriptor' = "free"
  /\ UNCHANGED <<main, args, config, shutdown, code, running, socket, threadVars, reaper, server, callVars>>

-----------------------------------------------------------------------------
(* Calls *)

OnlyCalls == UNCHANGED <<main, args, config, shutdown, code, agentVars, threadVars, reaper, server>>

\* A subscriber opens a stream and messages are written to it.
FeedStep ==
  /\ \/ feed = "none" /\ "app" \in server /\ feed' = "idle"
     \/ feed = "idle" /\ "mesh" \in server /\ feed' = "writing"
     \/ feed = "writing" /\ feed' = "idle"
  /\ UNCHANGED relay /\ OnlyCalls

\* OnCancel(), by the client at any time or by the server after its deadline:
\* only a write that is under way ends the call.
FeedCancelled ==
  /\ feed \in {"idle", "writing"}
  /\ feed' = IF feed = "writing" THEN "done" ELSE "orphan"
  /\ UNCHANGED relay /\ OnlyCalls

\* PushMessageStreamReactor: read, deliver, acknowledge, read again.
RelayStep ==
  /\ \/ relay = "none" /\ "mesh" \in server /\ relay' = "reading"
     \/ relay = "reading" /\ relay' = "acking"
     \/ relay = "acking" /\ relay' = "reading"
  /\ UNCHANGED feed /\ OnlyCalls

\* OnReadDone(false) or OnWriteDone(false), after the peer or the server ended
\* the call.
RelayEnds ==
  /\ relay \in {"reading", "acking"} /\ relay' = "done"
  /\ UNCHANGED feed /\ OnlyCalls

-----------------------------------------------------------------------------
MainStep ==
  \/ Parse \/ UseConfig \/ CreateAgent \/ StartFails \/ StartSender \/ StartReceiver
  \/ CreateServices \/ StartMeshServer \/ StartAppServer
  \/ SeeShutdown \/ AppDrained \/ MeshDrained \/ MeshAbandoned
  \/ Stop \/ CloseSocket \/ ClearSocket \/ JoinSender \/ JoinReceiver
  \/ DestroyServices \/ DestroySocket

SenderStep == SenderLoop \/ SendTo
ReceiverStep == ReceiverLoop \/ ReceiveFrom

Next ==
  \/ MainStep \/ Signal \/ SenderStep \/ ReceiverStep \/ ReaperLoop \/ OthersOpen
  \/ FeedStep \/ FeedCancelled \/ RelayStep \/ RelayEnds

Spec == Init /\ [][Next]_vars

(***************************************************************************)
(* Threads go on and select() returns after 500 ms.  A server that is shut *)
(* down with a deadline cancels its calls.  Nothing is assumed of signals, *)
(* clients, peers and other descriptors.                                   *)
(***************************************************************************)
FairSpec ==
  /\ Spec
  /\ WF_vars(MainStep) /\ WF_vars(SenderStep) /\ WF_vars(ReceiverStep) /\ WF_vars(ReaperLoop)
  /\ WF_vars(main = "drain app" /\ FeedCancelled)
  /\ WF_vars(main = "drain mesh" /\ RelayEnds)

-----------------------------------------------------------------------------
(* Properties *)

\* The type of every variable.
TypeOK ==
  /\ shutdown \in BOOLEAN /\ code \in {0, 1} /\ running \in BOOLEAN
  /\ socket \in [valid : BOOLEAN, reuse : BOOLEAN, bound : BOOLEAN, joined : BOOLEAN]
  /\ descriptor \in {"agent", "free", "other"}
  /\ sender \in {"none", "check", "send", "sendto", "ended"}
  /\ receiver \in {"none", "check", "receive", "select", "recvfrom", "blocked", "ended"}
  /\ reaper \in {"none", "on", "stopping", "ended"}
  /\ server \subseteq {"mesh", "app"}
  /\ feed \in {"none", "idle", "writing", "orphan", "done"}
  /\ relay \in {"none", "reading", "acking", "done"}

\* Where the loop of parseArgs() ends early, read off the command line.
Problems ==
  {k \in DOMAIN args : k % 2 = 1 /\
     \/ args[k] \notin Options \/ k = Len(args)
     \/ args[k] \notin TextOptions /\ args[k + 1] \notin DOMAIN Numerals}

(* parseArgs() gives every option the last value it has on the command     *)
(* line, asks for help at the first problem, and throws instead when that  *)
(* problem is a value that is not a number.                                *)
ConfigAsAsked ==
  main = "parsed" =>
    IF Problems # {}
    THEN LET k == Min(Problems) IN
         config.outcome = IF args[k] \in Options /\ k < Len(args) THEN "throws" ELSE "help"
    ELSE /\ config.outcome = "ok"
         /\ \A o \in Options :
              LET at == {k \in DOMAIN args : k % 2 = 1 /\ args[k] = o} IN
              IF at = {} THEN o \notin DOMAIN config.set
              ELSE config.set[o] = Converted(o, args[Max(at) + 1])

(* While the agent runs its threads use its own descriptor; when stop()    *)
(* closes it under them, each makes at most the calls of one more round on *)
(* a descriptor that is closed or somebody else's.                         *)
StrayBounded == stray.sender <= 1 /\ stray.receiver <= 2

(* When main() has returned, after a signal or an error at any point of    *)
(* the start, no thread is left and the descriptor is closed: "Cleanly     *)
(* joined (no orphaned threads)".                                          *)
NothingLeft ==
  main = "exited" =>
    /\ sender \in {"none", "ended"} /\ receiver \in {"none", "ended"}
    /\ reaper \in {"none", "ended"}
    /\ descriptor # "agent" /\ ~socket.valid

\* What keeps the daemon from ending.
Hanging ==
  \/ main = "drain app" /\ feed = "orphan"
  \/ main = "abandon mesh" /\ Open(relay)
  \/ main = "join receiver" /\ receiver = "blocked"

(* A signal ends the daemon, and so does a server that cannot be started.  *)
(* It hangs only on a subscriber without a write to fail, on a peer's open *)
(* stream when there is no deadline, or in a recvfrom() on a descriptor    *)
(* that is not the agent's any more.                                       *)
DaemonEnds == (shutdown \/ code = 1) ~> (main = "exited" \/ Hanging)
=============================================================================
