------------------------- MODULE CommandProxyProofs -------------------------
(***************************************************************************)
(* The safety of the command proxy for every set of clients and the lines  *)
(* they send: the types, an acknowledged command is executed exactly once, *)
(* and a single process at a time.                                         *)
(***************************************************************************)
EXTENDS CommandProxy, FiniteSetTheorems, SequenceTheorems, TLAPS

(* Where the line a client waits for is: on its way, read, passed or acknowledged, in one place  *)
(* only.                                                                                         *)
LineInOnePlace(c) ==
  /\ line[c] # None => /\ client[c] = "waiting" /\ line[c] = Lines[c][acked[c] + 1]
                       /\ ~ack[c] /\ handler[c] \notin {"pass", "reply"}
  /\ ack[c] => client[c] = "waiting" /\ handler[c] \notin {"pass", "reply"}
  /\ handler[c] \in {"pass", "reply"} => client[c] \in {"waiting", "failed"} /\ acked[c] < Len(Lines[c])
  /\ handler[c] = "pass" => got[c] = Lines[c][acked[c] + 1]

(* A client has not connected, waits for its next line, or is over. *)
ClientsInOrder(c) ==
  /\ client[c] = "new" => acked[c] = 0 /\ link[c] = "none" /\ line[c] = None /\ ~ack[c]
  /\ client[c] = "waiting" => acked[c] < Len(Lines[c])
  /\ client[c] = "failed" => link[c] \in {"none", "down"}
  /\ link[c] \in {"none", "backlog"} => handler[c] = "none"

RegistersNew ==
  run = "register" => /\ accepted \in Conns
                      /\ link[accepted] \in {"open", "down"} /\ handler[accepted] = "none"

Taken(x) == executed[x] = IF handling = x THEN 0 ELSE 1
Untaken(x) == executed[x] = 0 /\ handling # x

(* The lines of a connection before the one the client waits for are taken, those after it are   *)
(* not, and that one is if it was passed.                                                        *)
TakenBefore(c, i) == i \leq acked[c] \/ (i = acked[c] + 1 /\ (ack[c] \/ handler[c] = "reply"))

UntakenAfter(c, i) ==
  \/ i > acked[c] + 1
  \/ i = acked[c] + 1 /\ (client[c] = "new" \/ line[c] # None \/ handler[c] = "pass")

TakenInOrder ==
  \A c \in Conns : \A i \in 1 .. Len(Lines[c]) :
    Lines[c][i] # Ping =>
      /\ TakenBefore(c, i) => Taken(Lines[c][i])
      /\ UntakenAfter(c, i) => Untaken(Lines[c][i])

Connections == \A c \in Conns : LineInOnePlace(c) /\ ClientsInOrder(c)

ServerInv == ServerTypeOK /\ Connections /\ RegistersNew /\ TakenInOrder

(* Only the current command may have a process that is not done, or one whose end is not printed. *)
OnlyCurrent ==
  /\ \A x \in Command : process[x] \in {"running", "exited", "finished"} => x = current
  /\ screen \subseteq { x \in Command : process[x] \in {"running", "exited"} }

(* The executing goroutine has no process when it starts one or closes the server. *)
StepsOfCommand ==
  /\ exec # "idle" => handling \in Command
  /\ exec \in {"start", "close"} => current = None
  /\ exec \in {"stop", "killed"} => current \in Command

IInv == ServerInv /\ TypeOK /\ OnlyCurrent /\ StepsOfCommand

-----------------------------------------------------------------------------
(* The lines. *)

LEMMA LinesType ==
  ASSUME NEW c \in Conns
  PROVE  /\ Lines[c] \in Seq(Sent) /\ Len(Lines[c]) \in Nat \ {0}
         /\ \A i \in 1 .. Len(Lines[c]) : Lines[c][i] \in Sent /\ Lines[c][i] # None
<1>1. Lines[c] \in Seq(Sent) /\ Lines[c] # <<>>
  BY LinesAssumption
<1>2. Len(Lines[c]) \in Nat /\ Len(Lines[c]) # 0
  BY <1>1, LenProperties, EmptySeq
<1>3. \A i \in 1 .. Len(Lines[c]) : Lines[c][i] \in Sent
  BY <1>1, ElementOfSeq
<1>4. QED
  BY <1>1, <1>2, <1>3, ConnsAssumption

(* A command is a line of one place of one connection. *)
LEMMA LinesDiffer ==
  ASSUME NEW c \in Conns, NEW d \in Conns,
         NEW i \in 1 .. Len(Lines[c]), NEW j \in 1 .. Len(Lines[d]),
         Lines[c][i] = Lines[d][j], Lines[c][i] # Ping
  PROVE  c = d /\ i = j
<1>1. DOMAIN Lines[c] = 1 .. Len(Lines[c]) /\ DOMAIN Lines[d] = 1 .. Len(Lines[d])
  BY LinesType, LenProperties
<1>2. Lines[c][i] \in Range(Lines[c]) \cap Range(Lines[d])
  BY <1>1 DEF Range
<1>3. c = d
  BY <1>2, LinesAssumption
<1>4. QED
  BY <1>1, <1>3, LinesAssumption DEF IsInjective

LEMMA LineIsCommand ==
  ASSUME NEW c \in Conns, NEW i \in 1 .. Len(Lines[c]), Lines[c][i] # Ping
  PROVE  Lines[c][i] \in Command
BY LinesType DEF Command


-----------------------------------------------------------------------------
(* The steps of the clients, of the server and of the connections. *)

LEMMA DialServerInv ==
  ASSUME ServerInv, NEW c \in Conns, Dial(c)
  PROVE  ServerInv'
<1> USE LinesType DEF ServerInv, Dial, clients, serving, executing
<1>1. ServerTypeOK'
  BY DEF ServerTypeOK, Connections, ClientsInOrder, LineInOnePlace, RegistersNew
<1>2. Connections'
  BY DEF ServerTypeOK, Connections, ClientsInOrder, LineInOnePlace, RegistersNew
<1>3. RegistersNew'
  BY DEF ServerTypeOK, Connections, ClientsInOrder, RegistersNew
<1>4. TakenInOrder'
  BY DEF ServerTypeOK, Connections, ClientsInOrder, LineInOnePlace, TakenInOrder, TakenBefore, UntakenAfter, Taken, Untaken
<1>5. QED
  BY <1>1, <1>2, <1>3, <1>4

LEMMA DialFailsServerInv ==
  ASSUME ServerInv, NEW c \in Conns, DialFails(c)
  PROVE  ServerInv'
<1> USE LinesType DEF ServerInv, DialFails, clients, serving, executing
<1>1. ServerTypeOK'
  BY DEF ServerTypeOK, Connections, ClientsInOrder, LineInOnePlace, RegistersNew
<1>2. Connections'
  BY DEF ServerTypeOK, Connections, ClientsInOrder, LineInOnePlace, RegistersNew
<1>3. RegistersNew'
  BY DEF ServerTypeOK, Connections, ClientsInOrder, RegistersNew
<1>4. TakenInOrder'
  BY DEF ServerTypeOK, Connections, ClientsInOrder, LineInOnePlace, TakenInOrder, TakenBefore, UntakenAfter, Taken, Untaken
<1>5. QED
  BY <1>1, <1>2, <1>3, <1>4

LEMMA ReceiveAckServerInv ==
  ASSUME ServerInv, NEW c \in Conns, ReceiveAck(c)
  PROVE  ServerInv'
<1> USE LinesType DEF ServerInv, ReceiveAck, clients, serving, executing
<1>1. ServerTypeOK'
  <2>1. client[c] = "waiting" /\ acked[c] \in Nat /\ acked[c] + 1 \leq Len(Lines[c])
    BY DEF ServerTypeOK, Connections, ClientsInOrder
  <2>2. acked' \in [Conns -> Nat] /\ \A d \in Conns : acked'[d] \leq Len(Lines[d])
    BY <2>1 DEF ServerTypeOK
  <2>3. line' \in [Conns -> Sent \cup {None}]
    <3>1. CASE acked'[c] < Len(Lines[c])
      <4>1. Lines[c][acked'[c] + 1] \in Sent
        BY <2>1, <3>1 DEF ServerTypeOK
      <4>2. QED
        BY <3>1, <4>1 DEF ServerTypeOK
    <3>2. QED
      BY <3>1 DEF ServerTypeOK
  <2>4. client' \in [Conns -> {"new", "waiting", "done", "failed"}] /\ ack' \in [Conns -> BOOLEAN]
    BY DEF ServerTypeOK
  <2>5. QED
    BY <2>2, <2>3, <2>4 DEF ServerTypeOK
<1>2. Connections'
  BY DEF ServerTypeOK, Connections, ClientsInOrder, LineInOnePlace, RegistersNew
<1>3. RegistersNew'
  BY DEF ServerTypeOK, Connections, ClientsInOrder, RegistersNew
<1>4. TakenInOrder'
  BY DEF ServerTypeOK, Connections, ClientsInOrder, LineInOnePlace, TakenInOrder, TakenBefore, UntakenAfter, Taken, Untaken
<1>5. QED
  BY <1>1, <1>2, <1>3, <1>4

LEMMA MissAckServerInv ==
  ASSUME ServerInv, NEW c \in Conns, MissAck(c)
  PROVE  ServerInv'
<1> USE LinesType DEF ServerInv, MissAck, clients, serving, executing
<1>1. ServerTypeOK'
  BY DEF ServerTypeOK, Connections, ClientsInOrder, LineInOnePlace, RegistersNew
<1>2. Connections'
  BY DEF ServerTypeOK, Connections, ClientsInOrder, LineInOnePlace, RegistersNew
<1>3. RegistersNew'
  BY DEF ServerTypeOK, Connections, ClientsInOrder, RegistersNew
<1>4. TakenInOrder'
  BY DEF ServerTypeOK, Connections, ClientsInOrder, LineInOnePlace, TakenInOrder, TakenBefore, UntakenAfter, Taken, Untaken
<1>5. QED
  BY <1>1, <1>2, <1>3, <1>4

LEMMA HangUpServerInv ==
  ASSUME ServerInv, NEW c \in Conns, HangUp(c)
  PROVE  ServerInv'
<1> USE LinesType DEF ServerInv, HangUp, clients, serving, executing
<1>1. ServerTypeOK'
  BY DEF ServerTypeOK, Connections, ClientsInOrder, LineInOnePlace, RegistersNew
<1>2. Connections'
  BY DEF ServerTypeOK, Connections, ClientsInOrder, LineInOnePlace, RegistersNew
<1>3. RegistersNew'
  BY DEF ServerTypeOK, Connections, ClientsInOrder, RegistersNew
<1>4. TakenInOrder'
  BY DEF ServerTypeOK, Connections, ClientsInOrder, LineInOnePlace, TakenInOrder, TakenBefore, UntakenAfter, Taken, Untaken
<1>5. QED
  BY <1>1, <1>2, <1>3, <1>4

LEMMA RunServerInv ==
  ASSUME ServerInv, RunNext
  PROVE  ServerInv'
<1> USE LinesType DEF ServerInv, RunNext, Accept, Register, AcceptFails, Return, HandlersDone, clients, serving, executing
<1>1. ServerTypeOK'
  BY DEF ServerTypeOK, Connections, ClientsInOrder, LineInOnePlace, RegistersNew
<1>2. Connections'
  BY DEF ServerTypeOK, Connections, ClientsInOrder, LineInOnePlace, RegistersNew
<1>3. RegistersNew'
  BY DEF ServerTypeOK, Connections, ClientsInOrder, RegistersNew
<1>4. TakenInOrder'
  BY DEF ServerTypeOK, Connections, ClientsInOrder, LineInOnePlace, TakenInOrder, TakenBefore, UntakenAfter, Taken, Untaken
<1>5. QED
  BY <1>1, <1>2, <1>3, <1>4

LEMMA ScanServerInv ==
  ASSUME ServerInv, NEW c \in Conns, Scan(c)
  PROVE  ServerInv'
<1> USE LinesType DEF ServerInv, Scan, clients, serving, executing
<1>1. ServerTypeOK'
  <2>1. line' \in [Conns -> Sent \cup {None}] /\ got' \in [Conns -> Sent \cup {None}]
    BY DEF ServerTypeOK
  <2>2. handler' \in [Conns -> {"none", "scan", "pass", "reply", "close", "done"}]
    BY DEF ServerTypeOK
  <2>3. active' \subseteq { d \in Conns : handler'[d] \notin {"none", "done"} }
    BY DEF ServerTypeOK
  <2>4. run' # "returned"
    BY DEF ServerTypeOK
  <2>5. QED
    BY <2>1, <2>2, <2>3, <2>4 DEF ServerTypeOK
<1>2. Connections'
  BY DEF ServerTypeOK, Connections, ClientsInOrder, LineInOnePlace, RegistersNew
<1>3. RegistersNew'
  BY DEF ServerTypeOK, Connections, ClientsInOrder, RegistersNew
<1>4. TakenInOrder'
  BY DEF ServerTypeOK, Connections, ClientsInOrder, LineInOnePlace, TakenInOrder, TakenBefore, UntakenAfter, Taken, Untaken
<1>5. QED
  BY <1>1, <1>2, <1>3, <1>4

LEMMA ReplyServerInv ==
  ASSUME ServerInv, NEW c \in Conns, Reply(c)
  PROVE  ServerInv'
<1> USE LinesType DEF ServerInv, Reply, AfterPass, clients, serving, executing
<1>1. ServerTypeOK'
  BY DEF ServerTypeOK, Connections, ClientsInOrder, LineInOnePlace, RegistersNew
<1>2. Connections'
  BY DEF ServerTypeOK, Connections, ClientsInOrder, LineInOnePlace, RegistersNew
<1>3. RegistersNew'
  BY DEF ServerTypeOK, Connections, ClientsInOrder, RegistersNew
<1>4. TakenInOrder'
  BY DEF ServerTypeOK, Connections, ClientsInOrder, LineInOnePlace, TakenInOrder, TakenBefore, UntakenAfter, Taken, Untaken
<1>5. QED
  BY <1>1, <1>2, <1>3, <1>4

LEMMA CloseConnServerInv ==
  ASSUME ServerInv, NEW c \in Conns, CloseConn(c)
  PROVE  ServerInv'
<1> USE LinesType DEF ServerInv, CloseConn, Forget, clients, serving, executing
<1>1. ServerTypeOK'
  BY DEF ServerTypeOK, Connections, ClientsInOrder, LineInOnePlace, RegistersNew
<1>2. Connections'
  BY DEF ServerTypeOK, Connections, ClientsInOrder, LineInOnePlace, RegistersNew
<1>3. RegistersNew'
  BY DEF ServerTypeOK, Connections, ClientsInOrder, RegistersNew
<1>4. TakenInOrder'
  BY DEF ServerTypeOK, Connections, ClientsInOrder, LineInOnePlace, TakenInOrder, TakenBefore, UntakenAfter, Taken, Untaken
<1>5. QED
  BY <1>1, <1>2, <1>3, <1>4

LEMMA PassServerInv ==
  ASSUME ServerInv, NEW c \in Conns, Pass(c)
  PROVE  ServerInv'
<1> USE LinesType DEF ServerInv, Pass, clients, serving, executing
<1>1. ServerTypeOK'
  BY DEF ServerTypeOK, Connections, ClientsInOrder, LineInOnePlace, RegistersNew
<1>2. Connections'
  BY DEF ServerTypeOK, Connections, ClientsInOrder, LineInOnePlace, RegistersNew
<1>3. RegistersNew'
  BY DEF ServerTypeOK, Connections, ClientsInOrder, RegistersNew
<1>4. TakenInOrder'
  <2> SUFFICES ASSUME NEW d \in Conns, NEW i \in 1 .. Len(Lines[d]), Lines[d][i] # Ping
               PROVE  /\ TakenBefore(d, i)' => Taken(Lines[d][i])'
                      /\ UntakenAfter(d, i)' => Untaken(Lines[d][i])'
    BY DEF TakenInOrder
  <2> DEFINE n == acked[c] + 1
  <2>1. n \in 1 .. Len(Lines[c]) /\ got[c] = Lines[c][n] /\ line[c] = None /\ ~ack[c] /\ client[c] # "new"
    BY DEF ServerTypeOK, Connections, LineInOnePlace
  <2>2. handling = None /\ handling' = Lines[c][n] /\ Lines[d][i] # None
    BY <2>1
  <2>3. CASE d = c /\ i = n
    <3>1. Untaken(Lines[d][i])
      BY <2>1, <2>3 DEF TakenInOrder, UntakenAfter
    <3>2. Taken(Lines[d][i])'
      BY <2>2, <2>3, <3>1 DEF Taken, Untaken
    <3>3. ~UntakenAfter(d, i)'
      BY <2>1, <2>3 DEF UntakenAfter, ServerTypeOK
    <3>4. QED
      BY <3>2, <3>3
  <2>4. CASE ~(d = c /\ i = n)
    <3>1. handling' # Lines[d][i]
      BY <2>1, <2>2, <2>4, LinesDiffer
    <3>2. TakenBefore(d, i)' => TakenBefore(d, i)
      BY <2>1, <2>4 DEF TakenBefore, ServerTypeOK
    <3>3. UntakenAfter(d, i)' => UntakenAfter(d, i)
      BY DEF UntakenAfter, ServerTypeOK
    <3>4. QED
      BY <2>2, <3>1, <3>2, <3>3 DEF TakenInOrder, Taken, Untaken
  <2>5. QED
    BY <2>3, <2>4
<1>5. QED
  BY <1>1, <1>2, <1>3, <1>4

LEMMA HandlePingServerInv ==
  ASSUME ServerInv, HandlePing
  PROVE  ServerInv'
<1> USE LinesType DEF ServerInv, HandlePing, clients, serving, executing
<1>1. ServerTypeOK'
  BY DEF ServerTypeOK, Connections, ClientsInOrder, LineInOnePlace, RegistersNew
<1>2. Connections'
  BY DEF ServerTypeOK, Connections, ClientsInOrder, LineInOnePlace, RegistersNew
<1>3. RegistersNew'
  BY DEF ServerTypeOK, Connections, ClientsInOrder, RegistersNew
<1>4. TakenInOrder'
  BY DEF ServerTypeOK, Connections, ClientsInOrder, LineInOnePlace, TakenInOrder, TakenBefore, UntakenAfter, Taken, Untaken
<1>5. QED
  BY <1>1, <1>2, <1>3, <1>4

LEMMA ServeServerInv == ASSUME ServerInv, ServeNext PROVE ServerInv'
BY DialServerInv, DialFailsServerInv, ReceiveAckServerInv, MissAckServerInv, HangUpServerInv, RunServerInv,
   ScanServerInv, PassServerInv, ReplyServerInv, CloseConnServerInv, HandlePingServerInv
   DEF ServeNext, ClientNext, HandlerNext

(* The execution of the command that is handled. *)
LEMMA ExecutedServerInv ==
  ASSUME ServerInv, handling \in Command, Executed, UNCHANGED <<clients, link, serving, closer>>
  PROVE  ServerInv'
<1> USE LinesType DEF ServerInv, Executed, clients, serving
<1>1. ServerTypeOK'
  BY DEF ServerTypeOK
<1>2. Connections' /\ RegistersNew'
  BY DEF Connections, ClientsInOrder, LineInOnePlace, RegistersNew
<1>3. TakenInOrder'
  <2> SUFFICES ASSUME NEW c \in Conns, NEW i \in 1 .. Len(Lines[c]), Lines[c][i] # Ping
               PROVE  /\ TakenBefore(c, i)' => Taken(Lines[c][i])'
                      /\ UntakenAfter(c, i)' => Untaken(Lines[c][i])'
    BY DEF TakenInOrder
  <2>1. TakenBefore(c, i)' = TakenBefore(c, i) /\ UntakenAfter(c, i)' = UntakenAfter(c, i)
    BY DEF TakenBefore, UntakenAfter
  <2>2. Lines[c][i] \in Command /\ Lines[c][i] # None
    BY LineIsCommand
  <2>3. Taken(Lines[c][i]) => Taken(Lines[c][i])'
    BY <2>2 DEF Taken, ServerTypeOK
  <2>4. Untaken(Lines[c][i]) => Untaken(Lines[c][i])'
    BY <2>2 DEF Untaken, ServerTypeOK
  <2>5. QED
    BY <2>1, <2>3, <2>4 DEF TakenInOrder
<1>4. QED
  BY <1>1, <1>2, <1>3

LEMMA CloseServerInv ==
  ASSUME ServerInv, CloseConns \/ CloseListener, UNCHANGED executing
  PROVE  ServerInv'
<1> USE DEF ServerInv, CloseConns, CloseListener, DropBacklog, clients, serving, executing
<1>1. ServerTypeOK'
  BY DEF ServerTypeOK
<1>2. Connections'
  BY DEF ServerTypeOK, Connections, ClientsInOrder, LineInOnePlace
<1>3. RegistersNew'
  BY DEF ServerTypeOK, RegistersNew
<1>4. TakenInOrder'
  BY DEF TakenInOrder, TakenBefore, UntakenAfter, Taken, Untaken
<1>5. QED
  BY <1>1, <1>2, <1>3, <1>4

LEMMA UnchangedServerInv == ASSUME ServerInv, UNCHANGED serverVars PROVE ServerInv'
BY DEF serverVars, clients, serving, executing, ServerInv, ServerTypeOK, Connections, ClientsInOrder,
   LineInOnePlace, RegistersNew, TakenInOrder, TakenBefore, UntakenAfter, Taken, Untaken

-----------------------------------------------------------------------------
(* The invariant of the proxy. *)

LEMMA InitIInv == ProxyInit => IInv
<1> SUFFICES ASSUME ProxyInit PROVE IInv
  OBVIOUS
<1> USE LinesType DEF ProxyInit, ServerInit
<1>1. ServerTypeOK
  BY DEF ServerTypeOK
<1>2. Connections /\ RegistersNew
  BY DEF Connections, ClientsInOrder, LineInOnePlace, RegistersNew
<1>3. TakenInOrder
  <2> SUFFICES ASSUME NEW c \in Conns, NEW i \in 1 .. Len(Lines[c]), Lines[c][i] # Ping
               PROVE  ~TakenBefore(c, i) /\ Untaken(Lines[c][i])
    BY DEF TakenInOrder
  <2>1. Lines[c][i] \in Command /\ Lines[c][i] # None
    BY LineIsCommand
  <2>2. QED
    BY <2>1 DEF TakenBefore, Untaken
<1>4. TypeOK /\ OnlyCurrent /\ StepsOfCommand
  BY <1>1 DEF TypeOK, OnlyCurrent, StepsOfCommand
<1>5. QED
  BY <1>1, <1>2, <1>3, <1>4 DEF IInv, ServerInv

(* The executing goroutine keeps the command it handles while the server goes on. *)
LEMMA ServeIInv == ASSUME IInv, ServeNext, UNCHANGED proxyVars PROVE IInv'
<1>1. ServerInv'
  BY ServeServerInv DEF IInv
<1>2. handling \in Command => handling' = handling
  BY ConnsAssumption DEF ServeNext, ClientNext, HandlerNext, RunNext, Dial, DialFails, ReceiveAck, MissAck, HangUp,
     Accept, Register, AcceptFails, Return, Scan, Pass, Reply, CloseConn, HandlePing, executing, Command
<1>3. StepsOfCommand'
  BY <1>2 DEF IInv, StepsOfCommand, proxyVars
<1>4. TypeOK'
  BY <1>1, <1>2, <1>3, ConnsAssumption DEF IInv, TypeOK, ServerInv, StepsOfCommand, Command, proxyVars
<1>5. OnlyCurrent'
  BY DEF IInv, OnlyCurrent, proxyVars
<1>6. QED
  BY <1>1, <1>3, <1>4, <1>5 DEF IInv

LEMMA ExecIInv == ASSUME IInv, ExecNext PROVE IInv'
<1> USE DEF IInv, TypeOK, OnlyCurrent, StepsOfCommand
<1>1. None \notin Command
  BY ConnsAssumption DEF Command
<1>2. CASE Interrupt
  <2>1. ServerInv'
    BY <1>2, UnchangedServerInv DEF Interrupt
  <2>2. QED
    BY <1>1, <1>2, <2>1 DEF Interrupt, Replaced, ServerInv, serverVars, executing
<1>3. CASE GraceOver \/ Stopped
  <2>1. ServerInv'
    BY <1>3, UnchangedServerInv DEF GraceOver, Stopped
  <2>2. QED
    BY <1>1, <1>3, <2>1 DEF GraceOver, Stopped, Kill, ExitIsSeen, Replaced, ServerInv, serverVars, executing
<1>4. CASE Ignore
  BY <1>1, <1>4, ExecutedServerInv DEF Ignore, proxyVars, ServerInv
<1>5. CASE Start
  <2>1. ServerInv'
    BY <1>5, ExecutedServerInv DEF Start
  <2>2. QED
    BY <1>1, <1>5, <2>1 DEF Start, ServerInv
<1>6. CASE CloseServer
  <2>1. ServerInv'
    BY <1>6, CloseServerInv DEF CloseServer
  <2>2. QED
    BY <1>1, <1>6, <2>1 DEF CloseServer, proxyVars, executing, ServerInv
<1>7. CASE EndQuit
  <2>1. ServerInv'
    BY <1>7, ExecutedServerInv DEF EndQuit, GoOnExecuting
  <2>2. QED
    BY <1>1, <1>7, <2>1 DEF EndQuit, GoOnExecuting, ServerInv
<1>8. QED
  BY <1>2, <1>3, <1>4, <1>5, <1>6, <1>7 DEF ExecNext

LEMMA ProcessIInv == ASSUME IInv, NEW x \in Command, Exit(x) \/ Wait(x) PROVE IInv'
<1>1. ServerInv'
  BY UnchangedServerInv DEF IInv, Exit, Wait
<1>2. QED
  BY <1>1 DEF IInv, ServerInv, TypeOK, OnlyCurrent, StepsOfCommand, Exit, Wait, PrintEnd, Moves, serverVars, executing

LEMMA StepIInv == IInv /\ [ProxyNext]_vars => IInv'
<1> SUFFICES ASSUME IInv, [ProxyNext]_vars PROVE IInv'
  OBVIOUS
<1>1. CASE UNCHANGED vars
  <2>1. ServerInv'
    BY <1>1, UnchangedServerInv DEF IInv, vars
  <2>2. QED
    BY <1>1, <2>1 DEF vars, proxyVars, serverVars, executing, IInv, ServerInv, TypeOK, OnlyCurrent, StepsOfCommand
<1>2. QED
  BY <1>1, ServeIInv, ExecIInv, ProcessIInv DEF ProxyNext, Ended, Quiet

-----------------------------------------------------------------------------

(* The invariant holds: each line in one place, taken in order, and one process. *)
THEOREM Invariance == ProxySpec => []IInv
BY InitIInv, StepIInv, PTL DEF ProxySpec

(* Types, and no connection goroutine that could send on the channel of lines once Run has       *)
(* closed it, however the clients, the commands and Close interleave.                            *)
THEOREM TypeCorrectness == ProxySpec => []TypeOK
<1>1. IInv => TypeOK
  BY DEF IInv
<1>2. QED
  BY <1>1, Invariance, PTL

(* A command that a client sees acknowledged is executed exactly once, or is the one being       *)
(* handled: also by a server that is closing.                                                    *)
THEOREM AcknowledgedIsTaken == ProxySpec => []AckedIsTaken
<1>1. IInv => AckedIsTaken
  <2> SUFFICES ASSUME IInv, NEW c \in Conns, NEW i \in 1 .. acked[c], Lines[c][i] # Ping
               PROVE  Taken(Lines[c][i])
    BY DEF AckedIsTaken, Taken
  <2>1. i \in 1 .. Len(Lines[c]) /\ i \leq acked[c]
    BY LinesType DEF IInv, ServerInv, ServerTypeOK
  <2>2. QED
    BY <2>1 DEF IInv, ServerInv, TakenInOrder, TakenBefore
<1>2. QED
  BY <1>1, Invariance, PTL

(* A single process runs at a time, and its end is printed before the next one is started. *)
THEOREM SingleProcess == ProxySpec => []OneProcess
<1>1. IInv => OneProcess
  <2> SUFFICES ASSUME IInv PROVE OneProcess
    OBVIOUS
  <2> DEFINE alive == { x \in Command : process[x] \in {"running", "exited"} }
  <2>1. alive \in SUBSET {current} /\ screen \in SUBSET {current}
    BY DEF IInv, OnlyCurrent
  <2>2. IsFiniteSet({current}) /\ Cardinality({current}) = 1
    BY FS_Singleton
  <2>3. Cardinality(alive) \leq 1 /\ Cardinality(screen) \leq 1
    BY <2>1, <2>2, FS_Subset
  <2>4. QED
    BY <2>3 DEF OneProcess
<1>2. QED
  BY <1>1, Invariance, PTL

=============================================================================
