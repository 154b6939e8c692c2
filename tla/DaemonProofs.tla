------------------------------- MODULE DaemonProofs -------------------------------
(***************************************************************************)
(* Theorems about Daemon, for every set of command lines and every table   *)
(* of numerals: parseArgs() gives what was asked for, the threads of the   *)
(* agent make a bounded number of calls on a descriptor that stop() closed *)
(* under them, and nothing is left when main() has returned.               *)
(***************************************************************************)
EXTENDS Daemon, SequenceTheorems, WellFoundedInduction, TLAPS

\* Steps that need arithmetic cite SMT.
USE Zenon

\* A set of natural numbers that is not empty has a least element.
LEMMA LeastNat ==
  ASSUME NEW T, T \subseteq Nat, T # {}
  PROVE  \E n \in T : \A m \in T : n <= m
<1> DEFINE R == {ss \in Nat \X Nat : ss[1] < ss[2]}
<1>1. OpToRel(<, Nat) = R
  BY DEF OpToRel
<1>2. IsWellFoundedOn(R, Nat)
  BY <1>1, NatLessThanWellFounded
<1> HIDE DEF R
<1>3. PICK n \in T : \A m \in T : ~(<<m, n>> \in R)
  BY <1>2, WFMin
<1>4. ASSUME NEW m \in T, m < n PROVE FALSE
  <2> DEFINE p == <<m, n>>
  <2>1. p \in Nat \X Nat /\ p[1] = m /\ p[2] = n
    BY SMT
  <2> HIDE DEF p
  <2>2. p[1] < p[2]
    BY <1>4, <2>1
  <2>3. p \in R
    BY <2>1, <2>2 DEF R
  <2> QED BY <1>3, <2>3 DEF p
<1> QED BY SMT, <1>3, <1>4

-----------------------------------------------------------------------------
(* parseArgs() *)

\* One round of the loop of parseArgs(), from what was parsed before it.
Round(before, a, k) ==
  IF before.outcome # "ok" \/ k % 2 = 0 THEN before ELSE TakeOption(before, a, k)

\* p holds what is parsed after every word up to n.
IsParse(p, a, n) ==
  p = [k \in 0..n |-> IF k = 0 THEN NoOptions ELSE Round(p[k - 1], a, k)]

\* The recursion of the loop has a solution.
LEMMA ParseExists ==
  ASSUME NEW a, NEW n \in Nat
  PROVE  \E p : IsParse(p, a, n)
<1> DEFINE T == {m \in Nat : ~\E p : IsParse(p, a, m)}
<1> SUFFICES ASSUME T # {} PROVE FALSE
  OBVIOUS
<1>1. PICK m \in T : \A j \in T : m <= j
  <2>1. T \subseteq Nat
    OBVIOUS
  <2> HIDE DEF T
  <2> QED BY <2>1, LeastNat
<1>2. m \in Nat /\ ~\E p : IsParse(p, a, m)
  BY <1>1
<1>3. CASE m = 0
  <2> DEFINE p == [k \in 0..m |-> NoOptions]
  <2>1. p = [k \in 0..m |-> IF k = 0 THEN NoOptions ELSE Round(p[k - 1], a, k)]
    BY SMT, <1>3
  <2> HIDE DEF p
  <2>2. IsParse(p, a, m)
    BY <2>1 DEF IsParse
  <2> QED BY <1>2, <2>2
<1>4. CASE m # 0
  <2>1. m - 1 \in Nat /\ ~(m <= m - 1)
    BY SMT, <1>2, <1>4
  <2>2. m - 1 \notin T
    BY <1>1, <2>1
  <2>3. PICK p : IsParse(p, a, m - 1)
    BY <2>1, <2>2
  <2> DEFINE q == [k \in 0..m |-> IF k = m THEN Round(p[m - 1], a, m) ELSE p[k]]
  <2>4. ASSUME NEW k \in 0..m
        PROVE  q[k] = IF k = 0 THEN NoOptions ELSE Round(q[k - 1], a, k)
    <3>1. CASE k = 0
      BY SMT, <1>2, <1>4, <2>1, <2>3, <3>1 DEF IsParse
    <3>2. CASE k # 0 /\ k # m
      <4>1. k \in 0..(m - 1) /\ k - 1 \in 0..m /\ k - 1 # m
        BY SMT, <1>2, <3>2
      <4>2. q[k] = p[k] /\ q[k - 1] = p[k - 1]
        BY <3>2, <4>1
      <4>3. p[k] = Round(p[k - 1], a, k)
        BY <2>3, <3>2, <4>1 DEF IsParse
      <4> HIDE DEF q
      <4> QED BY <3>2, <4>2, <4>3
    <3>3. CASE k # 0 /\ k = m
      <4>1. m - 1 \in 0..m /\ m - 1 # m
        BY SMT, <1>2, <1>4
      <4>2. q[m - 1] = p[m - 1] /\ q[m] = Round(p[m - 1], a, m)
        BY <3>3, <4>1
      <4> HIDE DEF q
      <4> QED BY <3>3, <4>2
    <3> QED BY <3>1, <3>2, <3>3
  <2>5. q = [k \in 0..m |-> q[k]]
    OBVIOUS
  <2> HIDE DEF q
  <2>6. IsParse(q, a, m)
    BY <2>4, <2>5 DEF IsParse
  <2> QED BY <1>2, <2>6
<1> QED BY <1>3, <1>4

\* What parseArgs() returns is the last value of a solution.
LEMMA ParseArgsIsParse ==
  ASSUME NEW a \in Seq(STRING)
  PROVE  \E p : IsParse(p, a, Len(a)) /\ ParseArgs(a) = p[Len(a)]
<1> DEFINE n == Len(a)
           p == CHOOSE q : IsParse(q, a, n)
<1>1. n \in Nat
  BY LenProperties
<1>2. ParseArgs(a) = p[n]
  BY DEF ParseArgs, IsParse, Round
<1>3. IsParse(p, a, n)
  <2> HIDE DEF n
  <2> QED BY <1>1, ParseExists
<1> HIDE DEF p
<1> QED BY <1>2, <1>3

\* The loop of parseArgs() ends early at word k.
ProblemAt(a, k) ==
  /\ k % 2 = 1
  /\ \/ a[k] \notin Options
     \/ k = Len(a)
     \/ a[k] \notin TextOptions /\ a[k + 1] \notin DOMAIN Numerals

Verdict(a, k) == IF a[k] \in Options /\ k < Len(a) THEN "throws" ELSE "help"

GivenAt(a, o, k) == k % 2 = 1 /\ a[k] = o

\* What is parsed after k words without a problem.
AllTaken(c, a, k) ==
  /\ \A j \in 1..k : ~ProblemAt(a, j)
  /\ c.outcome = "ok"
  /\ \A o \in Options :
       /\ (\A j \in 1..k : ~GivenAt(a, o, j)) => o \notin DOMAIN c.set
       /\ \A j \in 1..k :
            GivenAt(a, o, j) /\ (\A i \in 1..k : GivenAt(a, o, i) => i <= j) =>
              o \in DOMAIN c.set /\ c.set[o] = Converted(o, a[j + 1])

\* What is parsed after k words the first problem among which is j.
EndedAt(c, a, j) ==
  /\ ProblemAt(a, j)
  /\ \A i \in 1..(j - 1) : ~ProblemAt(a, i)
  /\ c.outcome = Verdict(a, j)

ParsedOK(c, a, k) ==
  /\ c = [outcome |-> c.outcome, set |-> c.set]
  /\ AllTaken(c, a, k) \/ \E j \in 1..k : EndedAt(c, a, j)

\* -h and --help take no value.
LEMMA HelpIsNoOption == \A w \in Options : w \notin HelpWords
BY DEF Options, TextOptions, PortOptions, NumberOptions, HelpWords

\* A round at a value, or after the end, changes nothing.
LEMMA RoundIdle ==
  ASSUME NEW a, NEW k \in Nat, k >= 1, NEW c, ParsedOK(c, a, k - 1),
         c.outcome # "ok" \/ k % 2 = 0
  PROVE  ParsedOK(Round(c, a, k), a, k)
<1>1. Round(c, a, k) = c
  BY DEF Round
<1>2. CASE \E j \in 1..(k - 1) : EndedAt(c, a, j)
  <2>1. PICK j \in 1..(k - 1) : EndedAt(c, a, j)
    BY <1>2
  <2>2. j \in 1..k
    BY SMT
  <2> QED BY <1>1, <2>1, <2>2 DEF ParsedOK
<1>3. CASE AllTaken(c, a, k - 1)
  <2>1. k % 2 = 0
    BY <1>3 DEF AllTaken
  <2>2. ~ProblemAt(a, k) /\ \A o : ~GivenAt(a, o, k)
    BY SMT, <2>1 DEF ProblemAt, GivenAt
  <2>3. \A j \in 1..k : j \in 1..(k - 1) \/ j = k
    BY SMT
  <2>4. \A j \in 1..(k - 1) : j \in 1..k
    BY SMT
  <2>5. \A j \in 1..k : ~ProblemAt(a, j)
    BY <1>3, <2>2, <2>3 DEF AllTaken
  <2>6. ASSUME NEW o \in Options
        PROVE  /\ (\A j \in 1..k : ~GivenAt(a, o, j)) => o \notin DOMAIN c.set
               /\ \A j \in 1..k :
                    GivenAt(a, o, j) /\ (\A i \in 1..k : GivenAt(a, o, i) => i <= j) =>
                      o \in DOMAIN c.set /\ c.set[o] = Converted(o, a[j + 1])
    BY <1>3, <2>2, <2>3, <2>4 DEF AllTaken
  <2>7. AllTaken(c, a, k)
    BY <1>3, <2>5, <2>6 DEF AllTaken
  <2> QED BY <1>1, <2>7 DEF ParsedOK
<1> QED BY <1>2, <1>3 DEF ParsedOK

\* A round at a problem ends the loop.
LEMMA RoundEnds ==
  ASSUME NEW a, NEW k \in Nat, k >= 1, k <= Len(a), NEW c, ParsedOK(c, a, k - 1),
         c.outcome = "ok", ProblemAt(a, k), Len(a) \in Nat
  PROVE  ParsedOK(Round(c, a, k), a, k)
<1>1. AllTaken(c, a, k - 1)
  BY DEF ParsedOK, EndedAt, Verdict
<1>2. Round(c, a, k) = TakeOption(c, a, k)
  BY SMT DEF Round, ProblemAt
<1>3. TakeOption(c, a, k) = Ended(c, Verdict(a, k))
  <2>1. CASE a[k] \in Options /\ k < Len(a)
    <3>1. a[k] \notin HelpWords /\ k # Len(a)
      BY SMT, <2>1, HelpIsNoOption
    <3>2. a[k] \notin TextOptions /\ a[k + 1] \notin DOMAIN Numerals
      BY <2>1, <3>1 DEF ProblemAt
    <3> QED BY <2>1, <3>1, <3>2 DEF TakeOption, Verdict
  <2>2. CASE ~(a[k] \in Options /\ k < Len(a))
    <3>1. k = Len(a) \/ a[k] \notin Options
      BY SMT, <2>2
    <3> QED BY <2>2, <3>1 DEF TakeOption, Verdict
  <2> QED BY <2>1, <2>2
<1> DEFINE d == Ended(c, Verdict(a, k))
<1>4. d.outcome = Verdict(a, k) /\ d = [outcome |-> d.outcome, set |-> d.set]
  BY SMT DEF ParsedOK, Ended
<1> HIDE DEF d
<1>5. EndedAt(d, a, k)
  BY <1>1, <1>4 DEF AllTaken, EndedAt
<1>6. k \in 1..k
  BY SMT
<1>7. ParsedOK(d, a, k)
  BY <1>4, <1>5, <1>6 DEF ParsedOK
<1> QED BY <1>2, <1>3, <1>7 DEF d

\* A round at an option with a value sets it, and no other.
LEMMA RoundTakes ==
  ASSUME NEW a, NEW k \in Nat, k >= 1, k <= Len(a), NEW c, ParsedOK(c, a, k - 1),
         c.outcome = "ok", k % 2 = 1, ~ProblemAt(a, k), Len(a) \in Nat
  PROVE  ParsedOK(Round(c, a, k), a, k)
<1>1. AllTaken(c, a, k - 1)
  BY DEF ParsedOK, EndedAt, Verdict
<1>2. Round(c, a, k) = TakeOption(c, a, k)
  BY SMT DEF Round
<1>3. a[k] \in Options /\ k # Len(a) /\ (a[k] \in TextOptions \/ a[k + 1] \in DOMAIN Numerals)
  BY DEF ProblemAt
<1>4. a[k] \notin HelpWords
  BY <1>3, HelpIsNoOption
<1> DEFINE d == Assigned(c, a[k], a[k + 1])
<1>5. Round(c, a, k) = d
  BY <1>2, <1>3, <1>4 DEF TakeOption
<1>6. /\ d = [outcome |-> d.outcome, set |-> d.set]
      /\ d.outcome = "ok"
      /\ d.set = [o \in DOMAIN c.set \cup {a[k]} |->
                    IF o = a[k] THEN Converted(a[k], a[k + 1]) ELSE c.set[o]]
  BY SMT DEF ParsedOK, Assigned
<1> HIDE DEF d
<1>7. \A j \in 1..k : j \in 1..(k - 1) \/ j = k
  BY SMT
<1>8. \A j \in 1..(k - 1) : j \in 1..k /\ ~(k <= j)
  BY SMT
<1>9. \A j \in 1..k : ~ProblemAt(a, j)
  BY <1>1, <1>7 DEF AllTaken
<1>10. ASSUME NEW o \in Options
       PROVE  /\ (\A j \in 1..k : ~GivenAt(a, o, j)) => o \notin DOMAIN d.set
              /\ \A j \in 1..k :
                   GivenAt(a, o, j) /\ (\A i \in 1..k : GivenAt(a, o, i) => i <= j) =>
                     o \in DOMAIN d.set /\ d.set[o] = Converted(o, a[j + 1])
  <2>1. GivenAt(a, o, k) <=> o = a[k]
    BY DEF GivenAt
  <2>2. k \in 1..k
    BY SMT
  <2>3. CASE o = a[k]
    <3>1. o \in DOMAIN d.set /\ d.set[o] = Converted(o, a[k + 1])
      BY <1>6, <2>3
    <3>2. \A j \in 1..k : (\A i \in 1..k : GivenAt(a, o, i) => i <= j) => j = k
      BY <1>7, <1>8, <2>1, <2>2, <2>3
    <3> QED BY <2>1, <2>2, <2>3, <3>1, <3>2
  <2>4. CASE o # a[k]
    <3>1. /\ o \in DOMAIN d.set <=> o \in DOMAIN c.set
          /\ o \in DOMAIN c.set => d.set[o] = c.set[o]
      BY <1>6, <2>4
    <3>2. /\ (\A j \in 1..(k - 1) : ~GivenAt(a, o, j)) => o \notin DOMAIN c.set
          /\ \A j \in 1..(k - 1) :
               GivenAt(a, o, j) /\ (\A i \in 1..(k - 1) : GivenAt(a, o, i) => i <= j) =>
                 o \in DOMAIN c.set /\ c.set[o] = Converted(o, a[j + 1])
      BY <1>1 DEF AllTaken
    <3> QED BY <1>7, <1>8, <2>1, <2>4, <3>1, <3>2
  <2> QED BY <2>3, <2>4
<1>11. AllTaken(d, a, k)
  BY <1>6, <1>9, <1>10 DEF AllTaken
<1> QED BY <1>5, <1>6, <1>11 DEF ParsedOK

\* After every word, and so at the end.
LEMMA ParseArgsOK ==
  ASSUME NEW a \in Seq(STRING)
  PROVE  ParsedOK(ParseArgs(a), a, Len(a))
<1> DEFINE n == Len(a)
<1>1. n \in Nat
  BY LenProperties
<1>2. PICK p : IsParse(p, a, n) /\ ParseArgs(a) = p[n]
  BY ParseArgsIsParse
<1> HIDE DEF n
<1> DEFINE T == {k \in 0..n : ~ParsedOK(p[k], a, k)}
<1>3. T = {}
  <2> SUFFICES ASSUME T # {} PROVE FALSE
    OBVIOUS
  <2>1. PICK k \in T : \A j \in T : k <= j
    <3>1. T \subseteq Nat
      BY SMT, <1>1
    <3> HIDE DEF T
    <3> QED BY <3>1, LeastNat
  <2>2. k \in 0..n /\ ~ParsedOK(p[k], a, k)
    BY <2>1
  <2>3. k - 1 \in T => k <= k - 1
    BY <2>1
  <2>4. k # 0
    <3>1. p[0] = NoOptions
      BY SMT, <1>1, <1>2 DEF IsParse
    <3>2. ParsedOK(NoOptions, a, 0)
      <4>1. 1..0 = {}
        BY SMT
      <4> QED BY <4>1 DEF NoOptions, ParsedOK, AllTaken
    <3> QED BY <2>2, <3>1, <3>2
  <2> DEFINE c == p[k - 1]
  <2>5. ParsedOK(c, a, k - 1)
    <3>1. k - 1 \in 0..n /\ ~(k <= k - 1)
      BY SMT, <1>1, <2>2, <2>4
    <3> QED BY <2>3, <3>1
  <2>6. p[k] = Round(c, a, k)
    BY <1>2, <2>2, <2>4 DEF IsParse
  <2>7. k \in Nat /\ k >= 1 /\ k <= Len(a) /\ Len(a) \in Nat
    BY SMT, <1>1, <2>2, <2>4 DEF n
  <2>8. k % 2 = 0 \/ k % 2 = 1
    BY SMT, <2>7
  <2> HIDE DEF c, T
  <2>9. ParsedOK(Round(c, a, k), a, k)
    <3>1. CASE c.outcome # "ok" \/ k % 2 = 0
      BY <2>5, <2>7, <3>1, RoundIdle
    <3>2. CASE c.outcome = "ok" /\ k % 2 = 1 /\ ProblemAt(a, k)
      BY <2>5, <2>7, <3>2, RoundEnds
    <3>3. CASE c.outcome = "ok" /\ k % 2 = 1 /\ ~ProblemAt(a, k)
      BY <2>5, <2>7, <3>3, RoundTakes
    <3> QED BY <2>8, <3>1, <3>2, <3>3
  <2> QED BY <2>2, <2>6, <2>9
<1>4. ParsedOK(p[n], a, n)
  BY SMT, <1>1, <1>3
<1> QED BY <1>2, <1>4 DEF n

\* parseArgs() prints the help, throws or returns.
LEMMA ParseOutcome ==
  ASSUME NEW a \in ArgVectors
  PROVE  ParseArgs(a).outcome \in {"help", "throws", "ok"}
<1>1. ParsedOK(ParseArgs(a), a, Len(a))
  BY ParseArgsOK, DaemonAssumption
<1> QED BY <1>1 DEF ParsedOK, AllTaken, EndedAt, Verdict

-----------------------------------------------------------------------------
(* The inductive invariant *)

MainStates ==
  {"parse", "parsed", "agent", "start", "start receiver", "services", "mesh", "app", "wait",
   "drain app", "drain mesh", "abandon mesh", "stop", "close", "clear", "join sender",
   "join receiver", "destroy services", "destroy agent", "destroy socket", "exited", "aborted"}

\* Where running_ may be set.
Running ==
  {"start receiver", "services", "mesh", "app", "wait", "drain app", "drain mesh",
   "abandon mesh", "stop", "destroy services", "destroy agent"}

\* Where the reaper may be alive.
Serving ==
  {"mesh", "app", "wait", "drain app", "drain mesh", "abandon mesh", "stop", "close", "clear",
   "join sender", "join receiver", "destroy services"}

Idle(thread) == thread \in {"none", "ended"}

\* What is there before a thread is started, and where main() goes to after an
\* error.
Position ==
  /\ main \in MainStates
  /\ main \in {"parse", "parsed", "agent", "start"} =>
       sender = "none" /\ receiver = "none" /\ reaper = "none" /\ code = 0
  /\ main = "start receiver" => running /\ receiver = "none" /\ reaper = "none"
  /\ main = "services" => reaper = "none"
  /\ main \in {"start receiver", "services", "mesh", "app", "wait", "drain app",
               "drain mesh", "stop"} => code = 0

\* A valid socket_ is the agent's descriptor, except between the two steps of
\* close(); running_ is set only while there is one.
Handle ==
  /\ main \in {"parse", "parsed", "agent"} => descriptor = "free" /\ ~socket.valid
  /\ main # "clear" => (socket.valid <=> descriptor = "agent")
  /\ main = "clear" => descriptor # "agent"
  /\ main \in {"join sender", "join receiver", "exited"} => ~socket.valid
  /\ running => main \in Running /\ socket.valid

\* A thread that has not ended runs, or main() has still to wait for it.
Waited ==
  /\ ~Idle(sender) => running \/ main \in {"close", "clear", "join sender"}
  /\ ~Idle(receiver) =>
       running \/ main \in {"close", "clear", "join sender", "join receiver"}
  /\ ~Idle(reaper) =>
       /\ main \in Serving
       /\ main \in {"close", "clear", "join sender", "join receiver"} => code = 0

Control == Position /\ Handle /\ Waited

\* How many calls a thread has made on a descriptor that is not the agent's.
Stray ==
  /\ stray \in [sender : Nat, receiver : Nat]
  /\ stray.sender <= 1 /\ stray.receiver <= 2
  /\ sender \in {"none", "send", "sendto"} => stray.sender = 0
  /\ receiver \in {"none", "receive", "select"} => stray.receiver = 0
  /\ receiver = "recvfrom" => stray.receiver <= 1
  /\ running => stray.sender = 0 /\ stray.receiver = 0

\* What is parsed is the command line.
Parsing ==
  /\ main \in {"parse", "parsed"} => args \in ArgVectors
  /\ main = "parsed" => config = ParseArgs(args)

\* The types of the agent, of the threads and of the servers.
AgentTypeOK ==
  /\ shutdown \in BOOLEAN /\ code \in {0, 1} /\ running \in BOOLEAN
  /\ descriptor \in {"agent", "free", "other"}

SocketTypeOK ==
  socket \in [valid : BOOLEAN, reuse : BOOLEAN, bound : BOOLEAN, joined : BOOLEAN]

ThreadTypeOK ==
  /\ sender \in {"none", "check", "send", "sendto", "ended"}
  /\ receiver \in {"none", "check", "receive", "select", "recvfrom", "blocked", "ended"}
  /\ reaper \in {"none", "on", "stopping", "ended"}

CallTypeOK ==
  /\ server \subseteq {"mesh", "app"}
  /\ feed \in {"none", "idle", "writing", "orphan", "done"}
  /\ relay \in {"none", "reading", "acking", "done"}

IInv ==
  /\ AgentTypeOK /\ SocketTypeOK /\ ThreadTypeOK /\ CallTypeOK
  /\ Control /\ Stray /\ Parsing

\* The calls of start() keep the descriptor.
LEMMA PreparedType ==
  ASSUME SocketTypeOK, NEW k \in Nat
  PROVE  Prepared(k) \in [valid : BOOLEAN, reuse : BOOLEAN, bound : BOOLEAN, joined : BOOLEAN]
<1>1. (k >= 1) \in BOOLEAN /\ (k >= 2) \in BOOLEAN /\ (k >= 3) \in BOOLEAN
  BY SMT
<1>2. socket.valid \in BOOLEAN
  BY DEF SocketTypeOK
<1> QED BY <1>1, <1>2 DEF Prepared

\* They do not change whether it is valid.
LEMMA PreparedValid == \A k : Prepared(k).valid = socket.valid
BY DEF Prepared

\* While running_ is set the agent's threads have its own descriptor.
LEMMA OwnDescriptor == IInv /\ running => socket.valid /\ descriptor = "agent"
BY DEF IInv, Control, Handle, Running

\* What a system call counts.
LEMMA SenderCall ==
  ASSUME stray \in [sender : Nat, receiver : Nat], SystemCall("sender")
  PROVE  \/ socket.valid /\ descriptor = "agent" /\ stray' = stray
         \/ /\ ~(socket.valid /\ descriptor = "agent")
            /\ stray' \in [sender : Nat, receiver : Nat]
            /\ stray'.sender = stray.sender + 1 /\ stray'.receiver = stray.receiver
BY SMT DEF SystemCall

\* A system call of the receiver thread on a descriptor that is not the socket
\* of its agent counts as one stray call of the receiver.
LEMMA ReceiverCall ==
  ASSUME stray \in [sender : Nat, receiver : Nat], SystemCall("receiver")
  PROVE  \/ socket.valid /\ descriptor = "agent" /\ stray' = stray
         \/ /\ ~(socket.valid /\ descriptor = "agent")
            /\ stray' \in [sender : Nat, receiver : Nat]
            /\ stray'.receiver = stray.receiver + 1 /\ stray'.sender = stray.sender
BY SMT DEF SystemCall

\* A step keeps the types of the agent.
LEMMA AgentTypeStep ==
  ASSUME AgentTypeOK, Next
  PROVE  AgentTypeOK'
<1> USE DEF AgentTypeOK, agentVars, threadVars, callVars
<1>1. CASE Parse
  BY <1>1 DEF Parse, Goto
<1>2. CASE UseConfig
  BY <1>2 DEF UseConfig
<1>3. CASE CreateAgent
  BY <1>3 DEF CreateAgent, Goto
<1>4. CASE StartFails
  BY <1>4 DEF StartFails, Goto, Prepared
<1>5. CASE StartSender
  BY <1>5 DEF StartSender, Prepared
<1>6. CASE StartReceiver
  BY <1>6 DEF StartReceiver, Goto
<1>7. CASE CreateServices
  BY <1>7 DEF CreateServices
<1>8. CASE StartMeshServer
  BY <1>8 DEF StartMeshServer, Goto
<1>9. CASE StartAppServer
  BY <1>9 DEF StartAppServer, Goto
<1>10. CASE SeeShutdown
  BY <1>10 DEF SeeShutdown, Goto
<1>11. CASE AppDrained
  BY <1>11 DEF AppDrained, Goto
<1>12. CASE MeshDrained
  BY <1>12 DEF MeshDrained, Goto
<1>13. CASE MeshAbandoned
  BY <1>13 DEF MeshAbandoned, Goto
<1>14. CASE Stop
  BY <1>14 DEF Stop
<1>15. CASE CloseSocket
  BY <1>15 DEF CloseSocket, Goto
<1>16. CASE ClearSocket
  BY <1>16 DEF ClearSocket, Goto, Closed
<1>17. CASE JoinSender
  BY <1>17 DEF JoinSender, Goto
<1>18. CASE JoinReceiver
  BY <1>18 DEF JoinReceiver, Goto, AfterStop
<1>19. CASE DestroyServices
  BY <1>19 DEF DestroyServices
<1>20. CASE DestroySocket
  BY <1>20 DEF DestroySocket, Goto, Closed
<1>21. CASE Signal
  BY <1>21 DEF Signal
<1>22. CASE SenderLoop
  BY <1>22 DEF SenderLoop
<1>23. CASE SendTo
  BY <1>23 DEF SendTo, SystemCall
<1>24. CASE ReceiverLoop
  BY <1>24 DEF ReceiverLoop
<1>25. CASE ReceiveFrom
  BY <1>25 DEF ReceiveFrom, SystemCall
<1>26. CASE ReaperLoop
  BY <1>26 DEF ReaperLoop
<1>27. CASE OthersOpen
  BY <1>27 DEF OthersOpen
<1>28. CASE FeedStep
  BY <1>28 DEF FeedStep, OnlyCalls
<1>29. CASE FeedCancelled
  BY <1>29 DEF FeedCancelled, OnlyCalls
<1>30. CASE RelayStep
  BY <1>30 DEF RelayStep, OnlyCalls
<1>31. CASE RelayEnds
  BY <1>31 DEF RelayEnds, OnlyCalls
<1> QED
  BY <1>1, <1>2, <1>3, <1>4, <1>5, <1>6, <1>7, <1>8, <1>9, <1>10, <1>11, <1>12,
     <1>13, <1>14, <1>15, <1>16, <1>17, <1>18, <1>19, <1>20, <1>21, <1>22, <1>23, <1>24,
     <1>25, <1>26, <1>27, <1>28, <1>29, <1>30, <1>31
  DEF Next, MainStep, SenderStep, ReceiverStep

\* A step keeps the type of the socket.
LEMMA SocketTypeStep ==
  ASSUME SocketTypeOK, Next
  PROVE  SocketTypeOK'
<1> USE DEF SocketTypeOK, agentVars, threadVars, callVars
<1>1. CASE Parse
  BY <1>1 DEF Parse, Goto
<1>2. CASE UseConfig
  BY <1>2 DEF UseConfig
<1>3. CASE CreateAgent
  BY <1>3 DEF CreateAgent, Goto
<1>4. CASE StartFails
  <2>1. socket' = socket \/ \E k \in Nat : socket' = Prepared(k)
    BY SMT, <1>4 DEF StartFails
  <2>2. \A k \in Nat : Prepared(k) \in [valid : BOOLEAN, reuse : BOOLEAN, bound : BOOLEAN, joined : BOOLEAN]
    BY PreparedType
  <2> QED BY <2>1, <2>2
<1>5. CASE StartSender
  <2>1. socket' = Prepared(3)
    BY <1>5 DEF StartSender
  <2> QED BY <2>1, PreparedType
<1>6. CASE StartReceiver
  BY <1>6 DEF StartReceiver, Goto
<1>7. CASE CreateServices
  BY <1>7 DEF CreateServices
<1>8. CASE StartMeshServer
  BY <1>8 DEF StartMeshServer, Goto
<1>9. CASE StartAppServer
  BY <1>9 DEF StartAppServer, Goto
<1>10. CASE SeeShutdown
  BY <1>10 DEF SeeShutdown, Goto
<1>11. CASE AppDrained
  BY <1>11 DEF AppDrained, Goto
<1>12. CASE MeshDrained
  BY <1>12 DEF MeshDrained, Goto
<1>13. CASE MeshAbandoned
  BY <1>13 DEF MeshAbandoned, Goto
<1>14. CASE Stop
  BY <1>14 DEF Stop
<1>15. CASE CloseSocket
  BY <1>15 DEF CloseSocket, Goto
<1>16. CASE ClearSocket
  BY <1>16 DEF ClearSocket, Goto, Closed
<1>17. CASE JoinSender
  BY <1>17 DEF JoinSender, Goto
<1>18. CASE JoinReceiver
  BY <1>18 DEF JoinReceiver, Goto, AfterStop
<1>19. CASE DestroyServices
  BY <1>19 DEF DestroyServices
<1>20. CASE DestroySocket
  BY <1>20 DEF DestroySocket, Goto, Closed
<1>21. CASE Signal
  BY <1>21 DEF Signal
<1>22. CASE SenderLoop
  BY <1>22 DEF SenderLoop
<1>23. CASE SendTo
  BY <1>23 DEF SendTo, SystemCall
<1>24. CASE ReceiverLoop
  BY <1>24 DEF ReceiverLoop
<1>25. CASE ReceiveFrom
  BY <1>25 DEF ReceiveFrom, SystemCall
<1>26. CASE ReaperLoop
  BY <1>26 DEF ReaperLoop
<1>27. CASE OthersOpen
  BY <1>27 DEF OthersOpen
<1>28. CASE FeedStep
  BY <1>28 DEF FeedStep, OnlyCalls
<1>29. CASE FeedCancelled
  BY <1>29 DEF FeedCancelled, OnlyCalls
<1>30. CASE RelayStep
  BY <1>30 DEF RelayStep, OnlyCalls
<1>31. CASE RelayEnds
  BY <1>31 DEF RelayEnds, OnlyCalls
<1> QED
  BY <1>1, <1>2, <1>3, <1>4, <1>5, <1>6, <1>7, <1>8, <1>9, <1>10, <1>11, <1>12,
     <1>13, <1>14, <1>15, <1>16, <1>17, <1>18, <1>19, <1>20, <1>21, <1>22, <1>23, <1>24,
     <1>25, <1>26, <1>27, <1>28, <1>29, <1>30, <1>31
  DEF Next, MainStep, SenderStep, ReceiverStep

\* A step keeps the types of the threads.
LEMMA ThreadTypeStep ==
  ASSUME ThreadTypeOK, Next
  PROVE  ThreadTypeOK'
<1> USE DEF ThreadTypeOK, agentVars, threadVars, callVars
<1>1. CASE Parse
  BY <1>1 DEF Parse, Goto
<1>2. CASE UseConfig
  BY <1>2 DEF UseConfig
<1>3. CASE CreateAgent
  BY <1>3 DEF CreateAgent, Goto
<1>4. CASE StartFails
  BY <1>4 DEF StartFails, Goto, Prepared
<1>5. CASE StartSender
  BY <1>5 DEF StartSender, Prepared
<1>6. CASE StartReceiver
  BY <1>6 DEF StartReceiver, Goto
<1>7. CASE CreateServices
  BY <1>7 DEF CreateServices
<1>8. CASE StartMeshServer
  BY <1>8 DEF StartMeshServer, Goto
<1>9. CASE StartAppServer
  BY <1>9 DEF StartAppServer, Goto
<1>10. CASE SeeShutdown
  BY <1>10 DEF SeeShutdown, Goto
<1>11. CASE AppDrained
  BY <1>11 DEF AppDrained, Goto
<1>12. CASE MeshDrained
  BY <1>12 DEF MeshDrained, Goto
<1>13. CASE MeshAbandoned
  BY <1>13 DEF MeshAbandoned, Goto
<1>14. CASE Stop
  BY <1>14 DEF Stop
<1>15. CASE CloseSocket
  BY <1>15 DEF CloseSocket, Goto
<1>16. CASE ClearSocket
  BY <1>16 DEF ClearSocket, Goto, Closed
<1>17. CASE JoinSender
  BY <1>17 DEF JoinSender, Goto
<1>18. CASE JoinReceiver
  BY <1>18 DEF JoinReceiver, Goto, AfterStop
<1>19. CASE DestroyServices
  BY <1>19 DEF DestroyServices
<1>20. CASE DestroySocket
  BY <1>20 DEF DestroySocket, Goto, Closed
<1>21. CASE Signal
  BY <1>21 DEF Signal
<1>22. CASE SenderLoop
  BY <1>22 DEF SenderLoop
<1>23. CASE SendTo
  BY <1>23 DEF SendTo, SystemCall
<1>24. CASE ReceiverLoop
  BY <1>24 DEF ReceiverLoop
<1>25. CASE ReceiveFrom
  BY <1>25 DEF ReceiveFrom, SystemCall
<1>26. CASE ReaperLoop
  BY <1>26 DEF ReaperLoop
<1>27. CASE OthersOpen
  BY <1>27 DEF OthersOpen
<1>28. CASE FeedStep
  BY <1>28 DEF FeedStep, OnlyCalls
<1>29. CASE FeedCancelled
  BY <1>29 DEF FeedCancelled, OnlyCalls
<1>30. CASE RelayStep
  BY <1>30 DEF RelayStep, OnlyCalls
<1>31. CASE RelayEnds
  BY <1>31 DEF RelayEnds, OnlyCalls
<1> QED
  BY <1>1, <1>2, <1>3, <1>4, <1>5, <1>6, <1>7, <1>8, <1>9, <1>10, <1>11, <1>12,
     <1>13, <1>14, <1>15, <1>16, <1>17, <1>18, <1>19, <1>20, <1>21, <1>22, <1>23, <1>24,
     <1>25, <1>26, <1>27, <1>28, <1>29, <1>30, <1>31
  DEF Next, MainStep, SenderStep, ReceiverStep

\* A step keeps the types of the servers and their calls.
LEMMA CallTypeStep ==
  ASSUME CallTypeOK, Next
  PROVE  CallTypeOK'
<1> USE DEF CallTypeOK, agentVars, threadVars, callVars
<1>1. CASE Parse
  BY <1>1 DEF Parse, Goto
<1>2. CASE UseConfig
  BY <1>2 DEF UseConfig
<1>3. CASE CreateAgent
  BY <1>3 DEF CreateAgent, Goto
<1>4. CASE StartFails
  BY <1>4 DEF StartFails, Goto, Prepared
<1>5. CASE StartSender
  BY <1>5 DEF StartSender, Prepared
<1>6. CASE StartReceiver
  BY <1>6 DEF StartReceiver, Goto
<1>7. CASE CreateServices
  BY <1>7 DEF CreateServices
<1>8. CASE StartMeshServer
  BY <1>8 DEF StartMeshServer, Goto
<1>9. CASE StartAppServer
  BY <1>9 DEF StartAppServer, Goto
<1>10. CASE SeeShutdown
  BY <1>10 DEF SeeShutdown, Goto
<1>11. CASE AppDrained
  BY <1>11 DEF AppDrained, Goto
<1>12. CASE MeshDrained
  BY <1>12 DEF MeshDrained, Goto
<1>13. CASE MeshAbandoned
  BY <1>13 DEF MeshAbandoned, Goto
<1>14. CASE Stop
  BY <1>14 DEF Stop
<1>15. CASE CloseSocket
  BY <1>15 DEF CloseSocket, Goto
<1>16. CASE ClearSocket
  BY <1>16 DEF ClearSocket, Goto, Closed
<1>17. CASE JoinSender
  BY <1>17 DEF JoinSender, Goto
<1>18. CASE JoinReceiver
  BY <1>18 DEF JoinReceiver, Goto, AfterStop
<1>19. CASE DestroyServices
  BY <1>19 DEF DestroyServices
<1>20. CASE DestroySocket
  BY <1>20 DEF DestroySocket, Goto, Closed
<1>21. CASE Signal
  BY <1>21 DEF Signal
<1>22. CASE SenderLoop
  BY <1>22 DEF SenderLoop
<1>23. CASE SendTo
  BY <1>23 DEF SendTo, SystemCall
<1>24. CASE ReceiverLoop
  BY <1>24 DEF ReceiverLoop
<1>25. CASE ReceiveFrom
  BY <1>25 DEF ReceiveFrom, SystemCall
<1>26. CASE ReaperLoop
  BY <1>26 DEF ReaperLoop
<1>27. CASE OthersOpen
  BY <1>27 DEF OthersOpen
<1>28. CASE FeedStep
  BY <1>28 DEF FeedStep, OnlyCalls
<1>29. CASE FeedCancelled
  BY <1>29 DEF FeedCancelled, OnlyCalls
<1>30. CASE RelayStep
  BY <1>30 DEF RelayStep, OnlyCalls
<1>31. CASE RelayEnds
  BY <1>31 DEF RelayEnds, OnlyCalls
<1> QED
  BY <1>1, <1>2, <1>3, <1>4, <1>5, <1>6, <1>7, <1>8, <1>9, <1>10, <1>11, <1>12,
     <1>13, <1>14, <1>15, <1>16, <1>17, <1>18, <1>19, <1>20, <1>21, <1>22, <1>23, <1>24,
     <1>25, <1>26, <1>27, <1>28, <1>29, <1>30, <1>31
  DEF Next, MainStep, SenderStep, ReceiverStep

\* A step keeps where things are.
LEMMA PositionStep ==
  ASSUME IInv, Next
  PROVE  Position'
<1> USE DEF IInv, Control, Position, MainStates, agentVars, threadVars, callVars
<1>1. CASE Parse
  BY <1>1 DEF Parse, Goto
<1>2. CASE UseConfig
  <2>1. UNCHANGED <<code, running, socket, descriptor, sender, receiver, reaper, stray>>
    BY <1>2 DEF UseConfig
  <2>2. main = "parsed" /\ main' \in {"exited", "aborted", "agent"}
    <3>1. config.outcome \in {"help", "throws", "ok"}
      BY <1>2, ParseOutcome DEF Parsing, UseConfig
    <3> QED BY <1>2, <3>1 DEF UseConfig
  <2> QED BY <2>1, <2>2
<1>3. CASE CreateAgent
  BY <1>3 DEF CreateAgent, Goto
<1>4. CASE StartFails
  BY <1>4 DEF StartFails, Goto, Prepared
<1>5. CASE StartSender
  BY <1>5 DEF StartSender, Prepared
<1>6. CASE StartReceiver
  BY <1>6 DEF StartReceiver, Goto
<1>7. CASE CreateServices
  BY <1>7 DEF CreateServices
<1>8. CASE StartMeshServer
  BY <1>8 DEF StartMeshServer, Goto
<1>9. CASE StartAppServer
  <2>1. UNCHANGED <<running, socket, descriptor, sender, receiver, reaper, stray>>
    BY <1>9 DEF StartAppServer, Goto
  <2>2. main = "app" /\ main' \in {"wait", "abandon mesh"}
    BY <1>9 DEF StartAppServer, Goto
  <2>3. main' = "wait" => code' = code
    <3>1. CASE Goto("app", "wait") /\ server' = {"mesh", "app"} /\ UNCHANGED code
      BY <3>1
    <3>2. CASE Goto("app", "abandon mesh")
      BY <3>2 DEF Goto
    <3> QED BY <1>9, <3>1, <3>2 DEF StartAppServer
  <2> QED BY <2>1, <2>2, <2>3
<1>10. CASE SeeShutdown
  BY <1>10 DEF SeeShutdown, Goto
<1>11. CASE AppDrained
  BY <1>11 DEF AppDrained, Goto
<1>12. CASE MeshDrained
  BY <1>12 DEF MeshDrained, Goto
<1>13. CASE MeshAbandoned
  BY <1>13 DEF MeshAbandoned, Goto
<1>14. CASE Stop
  BY <1>14 DEF Stop
<1>15. CASE CloseSocket
  BY <1>15 DEF CloseSocket, Goto
<1>16. CASE ClearSocket
  BY <1>16 DEF ClearSocket, Goto, Closed
<1>17. CASE JoinSender
  BY <1>17 DEF JoinSender, Goto
<1>18. CASE JoinReceiver
  BY <1>18 DEF JoinReceiver, Goto, AfterStop
<1>19. CASE DestroyServices
  BY <1>19 DEF DestroyServices
<1>20. CASE DestroySocket
  BY <1>20 DEF DestroySocket, Goto, Closed
<1>21. CASE Signal
  BY <1>21 DEF Signal
<1>22. CASE SenderLoop
  BY <1>22 DEF SenderLoop
<1>23. CASE SendTo
  BY <1>23 DEF SendTo, SystemCall
<1>24. CASE ReceiverLoop
  BY <1>24 DEF ReceiverLoop
<1>25. CASE ReceiveFrom
  BY <1>25 DEF ReceiveFrom, SystemCall
<1>26. CASE ReaperLoop
  BY <1>26 DEF ReaperLoop
<1>27. CASE OthersOpen
  BY <1>27 DEF OthersOpen
<1>28. CASE FeedStep
  <2>1. UNCHANGED <<main, code, running, socket, descriptor, sender, receiver, reaper, stray>>
    BY <1>28 DEF FeedStep, OnlyCalls
  <2> QED BY <2>1
<1>29. CASE FeedCancelled
  <2>1. UNCHANGED <<main, code, running, socket, descriptor, sender, receiver, reaper, stray>>
    BY <1>29 DEF FeedCancelled, OnlyCalls
  <2> QED BY <2>1
<1>30. CASE RelayStep
  <2>1. UNCHANGED <<main, code, running, socket, descriptor, sender, receiver, reaper, stray>>
    BY <1>30 DEF RelayStep, OnlyCalls
  <2> QED BY <2>1
<1>31. CASE RelayEnds
  <2>1. UNCHANGED <<main, code, running, socket, descriptor, sender, receiver, reaper, stray>>
    BY <1>31 DEF RelayEnds, OnlyCalls
  <2> QED BY <2>1
<1> QED
  BY <1>1, <1>2, <1>3, <1>4, <1>5, <1>6, <1>7, <1>8, <1>9, <1>10, <1>11, <1>12,
     <1>13, <1>14, <1>15, <1>16, <1>17, <1>18, <1>19, <1>20, <1>21, <1>22, <1>23, <1>24,
     <1>25, <1>26, <1>27, <1>28, <1>29, <1>30, <1>31
  DEF Next, MainStep, SenderStep, ReceiverStep

\* A step keeps what socket_ stands for.
LEMMA HandleStep ==
  ASSUME IInv, Next
  PROVE  Handle'
<1> USE DEF IInv, AgentTypeOK, SocketTypeOK, Control, Handle, Running, agentVars, threadVars, callVars
<1>1. CASE Parse
  BY <1>1 DEF Parse, Goto
<1>2. CASE UseConfig
  <2>1. UNCHANGED <<code, running, socket, descriptor, sender, receiver, reaper, stray>>
    BY <1>2 DEF UseConfig
  <2>2. main = "parsed" /\ main' \in {"exited", "aborted", "agent"}
    <3>1. config.outcome \in {"help", "throws", "ok"}
      BY <1>2, ParseOutcome DEF Parsing, UseConfig
    <3> QED BY <1>2, <3>1 DEF UseConfig
  <2> QED BY <2>1, <2>2
<1>3. CASE CreateAgent
  BY <1>3 DEF CreateAgent, Goto
<1>4. CASE StartFails
  BY SMT, <1>4 DEF StartFails, Goto, Prepared
<1>5. CASE StartSender
  BY <1>5 DEF StartSender, Prepared
<1>6. CASE StartReceiver
  BY <1>6 DEF StartReceiver, Goto
<1>7. CASE CreateServices
  BY <1>7 DEF CreateServices
<1>8. CASE StartMeshServer
  BY <1>8 DEF StartMeshServer, Goto
<1>9. CASE StartAppServer
  BY <1>9 DEF StartAppServer, Goto
<1>10. CASE SeeShutdown
  BY <1>10 DEF SeeShutdown, Goto
<1>11. CASE AppDrained
  BY <1>11 DEF AppDrained, Goto
<1>12. CASE MeshDrained
  BY <1>12 DEF MeshDrained, Goto
<1>13. CASE MeshAbandoned
  BY <1>13 DEF MeshAbandoned, Goto
<1>14. CASE Stop
  BY <1>14 DEF Stop
<1>15. CASE CloseSocket
  BY <1>15 DEF CloseSocket, Goto
<1>16. CASE ClearSocket
  BY <1>16 DEF ClearSocket, Goto, Closed
<1>17. CASE JoinSender
  BY <1>17 DEF JoinSender, Goto
<1>18. CASE JoinReceiver
  BY <1>18 DEF JoinReceiver, Goto, AfterStop
<1>19. CASE DestroyServices
  BY <1>19 DEF DestroyServices
<1>20. CASE DestroySocket
  BY <1>20 DEF DestroySocket, Goto, Closed
<1>21. CASE Signal
  BY <1>21 DEF Signal
<1>22. CASE SenderLoop
  BY <1>22 DEF SenderLoop
<1>23. CASE SendTo
  BY <1>23 DEF SendTo, SystemCall
<1>24. CASE ReceiverLoop
  BY <1>24 DEF ReceiverLoop
<1>25. CASE ReceiveFrom
  BY <1>25 DEF ReceiveFrom, SystemCall
<1>26. CASE ReaperLoop
  BY <1>26 DEF ReaperLoop
<1>27. CASE OthersOpen
  BY <1>27 DEF OthersOpen
<1>28. CASE FeedStep
  <2>1. UNCHANGED <<main, code, running, socket, descriptor, sender, receiver, reaper, stray>>
    BY <1>28 DEF FeedStep, OnlyCalls
  <2> QED BY <2>1
<1>29. CASE FeedCancelled
  <2>1. UNCHANGED <<main, code, running, socket, descriptor, sender, receiver, reaper, stray>>
    BY <1>29 DEF FeedCancelled, OnlyCalls
  <2> QED BY <2>1
<1>30. CASE RelayStep
  <2>1. UNCHANGED <<main, code, running, socket, descriptor, sender, receiver, reaper, stray>>
    BY <1>30 DEF RelayStep, OnlyCalls
  <2> QED BY <2>1
<1>31. CASE RelayEnds
  <2>1. UNCHANGED <<main, code, running, socket, descriptor, sender, receiver, reaper, stray>>
    BY <1>31 DEF RelayEnds, OnlyCalls
  <2> QED BY <2>1
<1> QED
  BY <1>1, <1>2, <1>3, <1>4, <1>5, <1>6, <1>7, <1>8, <1>9, <1>10, <1>11, <1>12,
     <1>13, <1>14, <1>15, <1>16, <1>17, <1>18, <1>19, <1>20, <1>21, <1>22, <1>23, <1>24,
     <1>25, <1>26, <1>27, <1>28, <1>29, <1>30, <1>31
  DEF Next, MainStep, SenderStep, ReceiverStep

\* A step leaves no thread behind.
LEMMA WaitedStep ==
  ASSUME IInv, Next
  PROVE  Waited'
<1> USE DEF IInv, ThreadTypeOK, AgentTypeOK, Control, Position, Handle, Waited, Running, Serving, Idle, agentVars, threadVars, callVars
<1>1. CASE Parse
  BY <1>1 DEF Parse, Goto
<1>2. CASE UseConfig
  <2>1. UNCHANGED <<code, running, socket, descriptor, sender, receiver, reaper, stray>>
    BY <1>2 DEF UseConfig
  <2>2. main = "parsed" /\ main' \in {"exited", "aborted", "agent"}
    <3>1. config.outcome \in {"help", "throws", "ok"}
      BY <1>2, ParseOutcome DEF Parsing, UseConfig
    <3> QED BY <1>2, <3>1 DEF UseConfig
  <2> QED BY <2>1, <2>2
<1>3. CASE CreateAgent
  BY <1>3 DEF CreateAgent, Goto
<1>4. CASE StartFails
  BY <1>4 DEF StartFails, Goto, Prepared
<1>5. CASE StartSender
  BY <1>5 DEF StartSender, Prepared
<1>6. CASE StartReceiver
  <2>1. UNCHANGED <<running, sender, reaper>>
    BY <1>6 DEF StartReceiver, Goto
  <2>2. /\ main = "start receiver" /\ main' \in {"services", "destroy agent"}
        /\ main' = "destroy agent" => receiver' = receiver
    BY <1>6 DEF StartReceiver, Goto
  <2> QED BY <2>1, <2>2
<1>7. CASE CreateServices
  BY <1>7 DEF CreateServices
<1>8. CASE StartMeshServer
  BY <1>8 DEF StartMeshServer, Goto
<1>9. CASE StartAppServer
  BY <1>9 DEF StartAppServer, Goto
<1>10. CASE SeeShutdown
  BY <1>10 DEF SeeShutdown, Goto
<1>11. CASE AppDrained
  BY <1>11 DEF AppDrained, Goto
<1>12. CASE MeshDrained
  BY <1>12 DEF MeshDrained, Goto
<1>13. CASE MeshAbandoned
  BY <1>13 DEF MeshAbandoned, Goto
<1>14. CASE Stop
  BY <1>14 DEF Stop
<1>15. CASE CloseSocket
  BY <1>15 DEF CloseSocket, Goto
<1>16. CASE ClearSocket
  BY <1>16 DEF ClearSocket, Goto, Closed
<1>17. CASE JoinSender
  BY <1>17 DEF JoinSender, Goto
<1>18. CASE JoinReceiver
  BY <1>18 DEF JoinReceiver, Goto, AfterStop
<1>19. CASE DestroyServices
  BY <1>19 DEF DestroyServices
<1>20. CASE DestroySocket
  BY <1>20 DEF DestroySocket, Goto, Closed
<1>21. CASE Signal
  BY <1>21 DEF Signal
<1>22. CASE SenderLoop
  BY <1>22 DEF SenderLoop
<1>23. CASE SendTo
  BY <1>23 DEF SendTo, SystemCall
<1>24. CASE ReceiverLoop
  BY <1>24 DEF ReceiverLoop
<1>25. CASE ReceiveFrom
  BY <1>25 DEF ReceiveFrom, SystemCall
<1>26. CASE ReaperLoop
  BY <1>26 DEF ReaperLoop
<1>27. CASE OthersOpen
  BY <1>27 DEF OthersOpen
<1>28. CASE FeedStep
  <2>1. UNCHANGED <<main, code, running, socket, descriptor, sender, receiver, reaper, stray>>
    BY <1>28 DEF FeedStep, OnlyCalls
  <2> QED BY <2>1
<1>29. CASE FeedCancelled
  <2>1. UNCHANGED <<main, code, running, socket, descriptor, sender, receiver, reaper, stray>>
    BY <1>29 DEF FeedCancelled, OnlyCalls
  <2> QED BY <2>1
<1>30. CASE RelayStep
  <2>1. UNCHANGED <<main, code, running, socket, descriptor, sender, receiver, reaper, stray>>
    BY <1>30 DEF RelayStep, OnlyCalls
  <2> QED BY <2>1
<1>31. CASE RelayEnds
  <2>1. UNCHANGED <<main, code, running, socket, descriptor, sender, receiver, reaper, stray>>
    BY <1>31 DEF RelayEnds, OnlyCalls
  <2> QED BY <2>1
<1> QED
  BY <1>1, <1>2, <1>3, <1>4, <1>5, <1>6, <1>7, <1>8, <1>9, <1>10, <1>11, <1>12,
     <1>13, <1>14, <1>15, <1>16, <1>17, <1>18, <1>19, <1>20, <1>21, <1>22, <1>23, <1>24,
     <1>25, <1>26, <1>27, <1>28, <1>29, <1>30, <1>31
  DEF Next, MainStep, SenderStep, ReceiverStep

\* A step of any thread keeps the bounds of the stray calls.
LEMMA StrayStep ==
  ASSUME IInv, Next
  PROVE  Stray'
<1> USE DEF IInv, AgentTypeOK, SocketTypeOK, Control, Position, Handle, Stray, Running, agentVars, threadVars, callVars
<1>1. CASE Parse
  BY <1>1 DEF Parse, Goto
<1>2. CASE UseConfig
  BY <1>2 DEF UseConfig
<1>3. CASE CreateAgent
  BY <1>3 DEF CreateAgent, Goto
<1>4. CASE StartFails
  BY <1>4 DEF StartFails, Goto, Prepared
<1>5. CASE StartSender
  BY <1>5 DEF StartSender, Prepared
<1>6. CASE StartReceiver
  BY <1>6 DEF StartReceiver, Goto
<1>7. CASE CreateServices
  BY <1>7 DEF CreateServices
<1>8. CASE StartMeshServer
  BY <1>8 DEF StartMeshServer, Goto
<1>9. CASE StartAppServer
  BY <1>9 DEF StartAppServer, Goto
<1>10. CASE SeeShutdown
  BY <1>10 DEF SeeShutdown, Goto
<1>11. CASE AppDrained
  BY <1>11 DEF AppDrained, Goto
<1>12. CASE MeshDrained
  BY <1>12 DEF MeshDrained, Goto
<1>13. CASE MeshAbandoned
  BY <1>13 DEF MeshAbandoned, Goto
<1>14. CASE Stop
  BY <1>14 DEF Stop
<1>15. CASE CloseSocket
  BY <1>15 DEF CloseSocket, Goto
<1>16. CASE ClearSocket
  BY <1>16 DEF ClearSocket, Goto, Closed
<1>17. CASE JoinSender
  BY <1>17 DEF JoinSender, Goto
<1>18. CASE JoinReceiver
  BY <1>18 DEF JoinReceiver, Goto, AfterStop
<1>19. CASE DestroyServices
  BY <1>19 DEF DestroyServices
<1>20. CASE DestroySocket
  BY <1>20 DEF DestroySocket, Goto, Closed
<1>21. CASE Signal
  BY <1>21 DEF Signal
<1>22. CASE SenderLoop
  BY <1>22 DEF SenderLoop
<1>23. CASE SendTo
  <2>1. UNCHANGED <<running, receiver>>
    BY <1>23 DEF SendTo
  <2>2. Stray
    OBVIOUS
  <2>3. running => socket.valid /\ descriptor = "agent"
    BY OwnDescriptor
  <2>4. \/ sender = "send" /\ sender' \in {"sendto", "check"} /\ stray' = stray
        \/ sender = "sendto" /\ sender' = "check" /\ SystemCall("sender")
    BY <1>23 DEF SendTo
  <2> HIDE DEF IInv
  <2>5. CASE sender = "send" /\ sender' \in {"sendto", "check"} /\ stray' = stray
    BY <2>1, <2>2, <2>5
  <2>6. CASE sender = "sendto" /\ sender' = "check" /\ SystemCall("sender")
    <3>1. \/ stray' = stray
          \/ /\ ~running /\ stray' \in [sender : Nat, receiver : Nat]
             /\ stray'.sender = stray.sender + 1 /\ stray'.receiver = stray.receiver
      BY <2>2, <2>3, <2>6, SenderCall
    <3> QED BY SMT, <2>1, <2>2, <2>6, <3>1
  <2> QED BY <2>4, <2>5, <2>6
<1>24. CASE ReceiverLoop
  BY <1>24 DEF ReceiverLoop
<1>25. CASE ReceiveFrom
  <2>1. UNCHANGED <<running, sender>>
    BY <1>25 DEF ReceiveFrom
  <2>2. Stray
    OBVIOUS
  <2>3. running => socket.valid /\ descriptor = "agent"
    BY OwnDescriptor
  <2>4. \/ receiver = "receive" /\ receiver' \in {"select", "check"} /\ stray' = stray
        \/ /\ \/ receiver = "select" /\ receiver' \in {"check", "recvfrom"}
              \/ receiver = "recvfrom" /\ receiver' \in {"check", "blocked"}
           /\ SystemCall("receiver")
    BY <1>25 DEF ReceiveFrom
  <2> HIDE DEF IInv
  <2>5. CASE receiver = "receive" /\ receiver' \in {"select", "check"} /\ stray' = stray
    BY <2>1, <2>2, <2>5
  <2>6. CASE /\ \/ receiver = "select" /\ receiver' \in {"check", "recvfrom"}
                \/ receiver = "recvfrom" /\ receiver' \in {"check", "blocked"}
             /\ SystemCall("receiver")
    <3>1. \/ stray' = stray
          \/ /\ ~running /\ stray' \in [sender : Nat, receiver : Nat]
             /\ stray'.receiver = stray.receiver + 1 /\ stray'.sender = stray.sender
      BY <2>2, <2>3, <2>6, ReceiverCall
    <3> QED BY SMT, <2>1, <2>2, <2>6, <3>1
  <2> QED BY <2>4, <2>5, <2>6
<1>26. CASE ReaperLoop
  BY <1>26 DEF ReaperLoop
<1>27. CASE OthersOpen
  BY <1>27 DEF OthersOpen
<1>28. CASE FeedStep
  BY <1>28 DEF FeedStep, OnlyCalls
<1>29. CASE FeedCancelled
  BY <1>29 DEF FeedCancelled, OnlyCalls
<1>30. CASE RelayStep
  BY <1>30 DEF RelayStep, OnlyCalls
<1>31. CASE RelayEnds
  BY <1>31 DEF RelayEnds, OnlyCalls
<1> QED
  BY <1>1, <1>2, <1>3, <1>4, <1>5, <1>6, <1>7, <1>8, <1>9, <1>10, <1>11, <1>12,
     <1>13, <1>14, <1>15, <1>16, <1>17, <1>18, <1>19, <1>20, <1>21, <1>22, <1>23, <1>24,
     <1>25, <1>26, <1>27, <1>28, <1>29, <1>30, <1>31
  DEF Next, MainStep, SenderStep, ReceiverStep

\* Only parseArgs() makes a configuration.
LEMMA ParsingStep ==
  ASSUME IInv, Next
  PROVE  Parsing'
<1> USE DEF IInv, Parsing, agentVars, threadVars, callVars
<1>1. CASE Parse
  BY <1>1 DEF Parse, Goto
<1>2. CASE UseConfig
  <2>1. main' \notin {"parse", "parsed"}
    <3>1. config.outcome \in {"help", "throws", "ok"}
      BY <1>2, ParseOutcome DEF UseConfig
    <3> QED BY <1>2, <3>1 DEF UseConfig
  <2> QED BY <2>1
<1>3. CASE CreateAgent
  BY <1>3 DEF CreateAgent, Goto
<1>4. CASE StartFails
  BY <1>4 DEF StartFails, Goto, Prepared
<1>5. CASE StartSender
  BY <1>5 DEF StartSender, Prepared
<1>6. CASE StartReceiver
  BY <1>6 DEF StartReceiver, Goto
<1>7. CASE CreateServices
  BY <1>7 DEF CreateServices
<1>8. CASE StartMeshServer
  BY <1>8 DEF StartMeshServer, Goto
<1>9. CASE StartAppServer
  BY <1>9 DEF StartAppServer, Goto
<1>10. CASE SeeShutdown
  BY <1>10 DEF SeeShutdown, Goto
<1>11. CASE AppDrained
  BY <1>11 DEF AppDrained, Goto
<1>12. CASE MeshDrained
  BY <1>12 DEF MeshDrained, Goto
<1>13. CASE MeshAbandoned
  BY <1>13 DEF MeshAbandoned, Goto
<1>14. CASE Stop
  BY <1>14 DEF Stop
<1>15. CASE CloseSocket
  BY <1>15 DEF CloseSocket, Goto
<1>16. CASE ClearSocket
  BY <1>16 DEF ClearSocket, Goto, Closed
<1>17. CASE JoinSender
  BY <1>17 DEF JoinSender, Goto
<1>18. CASE JoinReceiver
  BY <1>18 DEF JoinReceiver, Goto, AfterStop
<1>19. CASE DestroyServices
  BY <1>19 DEF DestroyServices
<1>20. CASE DestroySocket
  BY <1>20 DEF DestroySocket, Goto, Closed
<1>21. CASE Signal
  BY <1>21 DEF Signal
<1>22. CASE SenderLoop
  BY <1>22 DEF SenderLoop
<1>23. CASE SendTo
  BY <1>23 DEF SendTo, SystemCall
<1>24. CASE ReceiverLoop
  BY <1>24 DEF ReceiverLoop
<1>25. CASE ReceiveFrom
  BY <1>25 DEF ReceiveFrom, SystemCall
<1>26. CASE ReaperLoop
  BY <1>26 DEF ReaperLoop
<1>27. CASE OthersOpen
  BY <1>27 DEF OthersOpen
<1>28. CASE FeedStep
  BY <1>28 DEF FeedStep, OnlyCalls
<1>29. CASE FeedCancelled
  BY <1>29 DEF FeedCancelled, OnlyCalls
<1>30. CASE RelayStep
  BY <1>30 DEF RelayStep, OnlyCalls
<1>31. CASE RelayEnds
  BY <1>31 DEF RelayEnds, OnlyCalls
<1> QED
  BY <1>1, <1>2, <1>3, <1>4, <1>5, <1>6, <1>7, <1>8, <1>9, <1>10, <1>11, <1>12,
     <1>13, <1>14, <1>15, <1>16, <1>17, <1>18, <1>19, <1>20, <1>21, <1>22, <1>23, <1>24,
     <1>25, <1>26, <1>27, <1>28, <1>29, <1>30, <1>31
  DEF Next, MainStep, SenderStep, ReceiverStep

\* The invariant holds before main() runs.
LEMMA InitIInv == Init => IInv
<1> SUFFICES ASSUME Init PROVE IInv
  OBVIOUS
<1>1. socket = Closed /\ socket.valid = FALSE /\ SocketTypeOK
  BY DEF Init, Closed, SocketTypeOK
<1>2. AgentTypeOK /\ ThreadTypeOK /\ CallTypeOK
  BY DEF Init, AgentTypeOK, ThreadTypeOK, CallTypeOK
<1>3. Control
  BY <1>1 DEF Init, Control, Position, Handle, Waited, MainStates, Idle
<1>4. Stray
  BY SMT DEF Init, Stray
<1>5. Parsing
  BY DEF Init, Parsing
<1> QED BY <1>1, <1>2, <1>3, <1>4, <1>5 DEF IInv

\* Every step of main(), of the handler and of the threads keeps the invariant.
LEMMA NextIInv == IInv /\ [Next]_vars => IInv'
<1> SUFFICES ASSUME IInv, [Next]_vars PROVE IInv'
  OBVIOUS
<1>1. CASE Next
  <2>1. AgentTypeOK' /\ SocketTypeOK' /\ ThreadTypeOK' /\ CallTypeOK'
    BY <1>1, AgentTypeStep, SocketTypeStep, ThreadTypeStep, CallTypeStep DEF IInv
  <2>2. Control' /\ Stray' /\ Parsing'
    BY <1>1, PositionStep, HandleStep, WaitedStep, StrayStep, ParsingStep DEF Control
  <2> QED BY <2>1, <2>2 DEF IInv
<1>2. CASE UNCHANGED vars
  <2>1. UNCHANGED <<main, args, config, shutdown, code, running, socket, descriptor, sender,
                    receiver, stray, reaper, server, feed, relay>>
    BY <1>2 DEF vars, agentVars, threadVars, callVars
  <2>2. AgentTypeOK' /\ SocketTypeOK' /\ ThreadTypeOK' /\ CallTypeOK'
    BY SMT, <2>1 DEF IInv, AgentTypeOK, SocketTypeOK, ThreadTypeOK, CallTypeOK
  <2>3. Control'
    BY <2>1 DEF IInv, Control, Position, Handle, Waited, Idle
  <2>4. Stray' /\ Parsing'
    BY <2>1 DEF IInv, Stray, Parsing
  <2> QED BY <2>2, <2>3, <2>4 DEF IInv
<1> QED BY <1>1, <1>2

\* The inductive invariant holds in every reachable state.
THEOREM DaemonInvariant == Spec => []IInv
<1> QED BY InitIInv, NextIInv, PTL DEF Spec

\* Every variable keeps its type.
THEOREM TypeCorrect == Spec => []TypeOK
<1>1. IInv => TypeOK
  BY DEF IInv, AgentTypeOK, SocketTypeOK, ThreadTypeOK, CallTypeOK, TypeOK
<1> QED BY <1>1, DaemonInvariant, PTL

\* The threads of the agent make at most the calls of one more round after stop()
\* closed the socket under them.
THEOREM StrayAlwaysBounded == Spec => []StrayBounded
<1>1. IInv => StrayBounded
  BY DEF IInv, Stray, StrayBounded
<1> QED BY <1>1, DaemonInvariant, PTL

\* When main() has returned, by whichever way, every thread has ended and the
\* agent's descriptor is closed.
THEOREM NothingEverLeft == Spec => []NothingLeft
<1>1. IInv => NothingLeft
  BY DEF IInv, Control, Position, Handle, Waited, Running, Serving, Idle, NothingLeft
<1> QED BY <1>1, DaemonInvariant, PTL

-----------------------------------------------------------------------------
(* parseArgs() *)

\* Min of a set of naturals is its least element.
LEMMA MinNat ==
  ASSUME NEW S, S \subseteq Nat, S # {}
  PROVE  Min(S) \in S /\ \A y \in S : Min(S) <= y
<1>1. \E x \in S : \A y \in S : x <= y
  BY LeastNat
<1> QED BY <1>1 DEF Min

\* Max of a set of positions is its greatest element.
LEMMA MaxNat ==
  ASSUME NEW n \in Nat, NEW S, S \subseteq 1..n, S # {}
  PROVE  Max(S) \in S /\ \A y \in S : y <= Max(S)
<1> DEFINE T == {n - x : x \in S}
<1>1. T \subseteq Nat /\ T # {}
  <2>1. \A x \in S : x \in 1..n
    OBVIOUS
  <2>2. \A x \in 1..n : n - x \in Nat
    BY SMT
  <2> QED BY <2>1, <2>2
<1>2. PICK t \in T : \A u \in T : t <= u
  <2> HIDE DEF T
  <2> QED BY <1>1, LeastNat
<1>3. PICK x \in S : t = n - x
  OBVIOUS
<1>4. \A y \in S : n - x <= n - y
  BY <1>2, <1>3
<1>5. \A y \in S : x >= y
  <2> SUFFICES ASSUME NEW y \in S PROVE x >= y
    OBVIOUS
  <2>1. x \in Nat /\ y \in Nat /\ n - x <= n - y
    BY SMT, <1>4
  <2> QED BY SMT, <2>1
<1>6. Max(S) \in S /\ \A y \in S : Max(S) >= y
  BY <1>5 DEF Max
<1> QED BY <1>6

\* parseArgs() gives every option the last value it has on the command line, asks
\* for help at the first problem, and throws when that problem is a value that is
\* not a number, for every command line and every table of numerals.
THEOREM ConfigAlwaysAsAsked == Spec => []ConfigAsAsked
<1>1. IInv => ConfigAsAsked
  <2> SUFFICES ASSUME IInv, main = "parsed"
               PROVE  IF Problems # {}
                      THEN LET k == Min(Problems) IN config.outcome = Verdict(args, k)
                      ELSE /\ config.outcome = "ok"
                           /\ \A o \in Options :
                                LET at == {k \in DOMAIN args : k % 2 = 1 /\ args[k] = o} IN
                                IF at = {} THEN o \notin DOMAIN config.set
                                ELSE config.set[o] = Converted(o, args[Max(at) + 1])
    BY DEF ConfigAsAsked, Verdict
  <2> DEFINE n == Len(args)
  <2>1. args \in Seq(STRING) /\ config = ParseArgs(args)
    BY DaemonAssumption DEF IInv, Parsing
  <2>2. n \in Nat /\ DOMAIN args = 1..n
    BY <2>1, LenProperties
  <2>3. ParsedOK(config, args, n)
    BY <2>1, ParseArgsOK
  <2>4. Problems = {k \in 1..n : ProblemAt(args, k)}
    BY <2>2 DEF Problems, ProblemAt
  <2> HIDE DEF n
  <2>5. CASE Problems # {}
    <3> DEFINE k == Min(Problems)
    <3>1. k \in Problems /\ \A y \in Problems : k <= y
      <4>1. Problems \subseteq Nat
        BY SMT, <2>2, <2>4
      <4> QED BY <2>5, <4>1, MinNat
    <3> HIDE DEF k
    <3>2. k \in 1..n /\ ProblemAt(args, k)
      BY <2>4, <3>1
    <3>3. PICK j \in 1..n : EndedAt(config, args, j)
      BY <2>3, <3>2 DEF ParsedOK, AllTaken
    <3>4. ProblemAt(args, j) /\ (\A i \in 1..(j - 1) : ~ProblemAt(args, i))
          /\ config.outcome = Verdict(args, j)
      BY <3>3 DEF EndedAt
    <3>5. k <= j
      BY <2>4, <3>1, <3>4
    <3>6. ~(k \in 1..(j - 1))
      BY <3>2, <3>4
    <3>7. k = j
      BY SMT, <2>2, <3>2, <3>5, <3>6
    <3> QED BY <2>5, <3>4, <3>7 DEF k
  <2>6. CASE Problems = {}
    <3>1. AllTaken(config, args, n)
      BY <2>3, <2>4, <2>6 DEF ParsedOK, EndedAt
    <3>2. ASSUME NEW o \in Options
          PROVE  LET at == {k \in DOMAIN args : k % 2 = 1 /\ args[k] = o} IN
                 IF at = {} THEN o \notin DOMAIN config.set
                 ELSE config.set[o] = Converted(o, args[Max(at) + 1])
      <4> DEFINE at == {k \in DOMAIN args : k % 2 = 1 /\ args[k] = o}
      <4>1. at = {k \in 1..n : GivenAt(args, o, k)}
        BY <2>2 DEF GivenAt
      <4> HIDE DEF at
      <4>2. /\ (\A j \in 1..n : ~GivenAt(args, o, j)) => o \notin DOMAIN config.set
            /\ \A j \in 1..n :
                 GivenAt(args, o, j) /\ (\A i \in 1..n : GivenAt(args, o, i) => i <= j) =>
                   o \in DOMAIN config.set /\ config.set[o] = Converted(o, args[j + 1])
        BY <3>1 DEF AllTaken
      <4>3. CASE at = {}
        BY <4>1, <4>2, <4>3 DEF at
      <4>4. CASE at # {}
        <5>1. Max(at) \in at /\ \A y \in at : y <= Max(at)
          BY <2>2, <4>1, <4>4, MaxNat
        <5>2. config.set[o] = Converted(o, args[Max(at) + 1])
          BY <4>1, <4>2, <5>1
        <5> QED BY <4>4, <5>2 DEF at
      <4> QED BY <4>3, <4>4
    <3>3. config.outcome = "ok"
      BY <3>1 DEF AllTaken
    <3> QED BY <2>6, <3>2, <3>3
  <2> QED BY <2>5, <2>6
<1> QED BY <1>1, DaemonInvariant, PTL

=============================================================================
