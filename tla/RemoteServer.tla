---------------------------- MODULE RemoteServer ----------------------------
(***************************************************************************)
(* The server receiving commands over a local socket, and its clients      *)
(* (remotectl/server.go, remotectl/send.go).                               *)
(*                                                                         *)
(* The goroutine of Run accepts the connections.  Each one is served by a  *)
(* goroutine of its own, which passes the lines it reads to a single       *)
(* goroutine executing them, over an unbuffered channel, and acknowledges  *)
(* a line once it is passed, before it is executed.  Close may be called   *)
(* by any goroutine; it closes the connections it knows of, and then the   *)
(* listener.                                                               *)
(*                                                                         *)
(* Each client sends its lines one by one, waiting for the acknowledgement *)
(* of each, and hangs up.  A ping is a line that is not executed.          *)
(***************************************************************************)
EXTENDS SequencesExt, FiniteSets, Naturals

CONSTANTS
  Conns,    (* the connections clients make to the socket                     *)
  Lines,    (* Lines[c]: the lines sent over the connection c                 *)
  Linger,   (* the connections of the clients that do not hang up             *)
  Ping, None

Sent == UNION { Range(Lines[c]) : c \in Conns }
Command == Sent \ {Ping}

(* A line stands for one call of Send. *)
ASSUME ConnsAssumption == Linger \subseteq Conns /\ None \notin Conns \cup Sent
ASSUME LinesAssumption ==
  /\ \A c \in Conns : Lines[c] \in Seq(Sent) \ {<<>>} /\ IsInjective(Lines[c])
  /\ \A c, d \in Conns : c # d => Range(Lines[c]) \cap Range(Lines[d]) \subseteq {Ping}

VARIABLES
  client,      (* client[c]: "new", "waiting" for an acknowledgement, "done", and "failed"      *)
  acked,       (* acked[c]: how many of the lines are acknowledged                              *)
  link,        (* link[c]: "none", "backlog" before it is accepted, "open", and "down"          *)
  line,        (* line[c]: what the client has sent and the server has not read, or None        *)
  ack,         (* ack[c]: an acknowledgement is in the connection                               *)
  run,         (* the goroutine of Run: "accept", "register" a connection, "wait" for the       *)
               (* others, and "returned"                                                        *)
  accepted,    (* the connection to register, or None                                           *)
  handler,     (* handler[c]: the goroutine of the connection: "none", "scan", "pass" a line to *)
               (* the channel, "reply", "close" the connection, and "done"                      *)
  got,         (* got[c]: the line it has read                                                  *)
  active,      (* activeConnections                                                             *)
  handling,    (* the line the executing goroutine has received, or None                        *)
  executed,    (* history: how many times each command was executed                             *)
  closer       (* Close: "no", "connections" are closed, and "done"                             *)

clients == <<client, acked, line, ack>>
serving == <<run, accepted, handler, got, active>>
executing == <<handling, executed>>
serverVars == <<clients, link, serving, executing, closer>>

ServerInit ==
  /\ client = [c \in Conns |-> "new"]
  /\ acked = [c \in Conns |-> 0]
  /\ link = [c \in Conns |-> "none"]
  /\ line = [c \in Conns |-> None]
  /\ ack = [c \in Conns |-> FALSE]
  /\ run = "accept"
  /\ accepted = None
  /\ handler = [c \in Conns |-> "none"]
  /\ got = [c \in Conns |-> None]
  /\ active = {}
  /\ handling = None
  /\ executed = [x \in Command |-> 0]
  /\ closer = "no"

-----------------------------------------------------------------------------
(* The clients. *)

(* The connection is made: it waits to be accepted. *)
Dial(c) ==
  /\ client[c] = "new"
  /\ closer # "done"
  /\ client' = [client EXCEPT ![c] = "waiting"]
  /\ link' = [link EXCEPT ![c] = "backlog"]
  /\ line' = [line EXCEPT ![c] = Head(Lines[c])]
  /\ UNCHANGED <<acked, ack, serving, executing, closer>>

(* Nobody listens. *)
DialFails(c) ==
  /\ client[c] = "new"
  /\ closer = "done"
  /\ client' = [client EXCEPT ![c] = "failed"]
  /\ UNCHANGED <<acked, link, line, ack, serving, executing, closer>>

(* The acknowledgement is followed by the next line. *)
ReceiveAck(c) ==
  /\ client[c] = "waiting" /\ ack[c]
  /\ ack' = [ack EXCEPT ![c] = FALSE]
  /\ acked' = [acked EXCEPT ![c] = @ + 1]
  /\ IF acked'[c] < Len(Lines[c])
       THEN /\ line' = [line EXCEPT ![c] = Lines[c][acked'[c] + 1]]
            /\ UNCHANGED client
       ELSE /\ client' = [client EXCEPT ![c] = "done"]
            /\ UNCHANGED line
  /\ UNCHANGED <<link, serving, executing, closer>>

(* The connection is closed; the acknowledgement in it may be lost with it. *)
MissAck(c) ==
  /\ client[c] = "waiting" /\ link[c] = "down"
  /\ client' = [client EXCEPT ![c] = "failed"]
  /\ line' = [line EXCEPT ![c] = None]
  /\ ack' = [ack EXCEPT ![c] = FALSE]
  /\ UNCHANGED <<acked, link, serving, executing, closer>>

HangUp(c) ==
  /\ client[c] \in {"done", "failed"}
  /\ link[c] \in {"backlog", "open"} /\ c \notin Linger
  /\ link' = [link EXCEPT ![c] = "down"]
  /\ UNCHANGED <<clients, serving, executing, closer>>

-----------------------------------------------------------------------------
(* The goroutine of Run. *)

Accept ==
  /\ run = "accept" /\ closer # "done"
  /\ \E c \in Conns :
       /\ link[c] = "backlog"
       /\ link' = [link EXCEPT ![c] = "open"]
       /\ accepted' = c
  /\ run' = "register"
  /\ UNCHANGED <<clients, handler, got, active, executing, closer>>

(* The connection is added to activeConnections, and its goroutine is started. *)
Register ==
  /\ run = "register"
  /\ active' = active \cup {accepted}
  /\ handler' = [handler EXCEPT ![accepted] = "scan"]
  /\ accepted' = None
  /\ run' = "accept"
  /\ UNCHANGED <<clients, link, got, executing, closer>>

AcceptFails ==
  /\ run = "accept" /\ closer = "done"
  /\ run' = "wait"
  /\ UNCHANGED <<clients, link, accepted, handler, got, active, executing, closer>>

(* Run waits for the goroutines of the connections, and closes the channel of the lines; as a    *)
(* mutant, it does not wait.                                                                     *)
WaitForNone == TRUE
HandlersDone == \A c \in Conns : handler[c] \in {"none", "done"}

Return ==
  /\ run = "wait"
  /\ HandlersDone
  /\ run' = "returned"
  /\ UNCHANGED <<clients, link, accepted, handler, got, active, executing, closer>>

-----------------------------------------------------------------------------
(* The goroutine of a connection. *)

Scan(c) ==
  /\ handler[c] = "scan"
  /\ \/ /\ link[c] = "open" /\ line[c] # None
        /\ handler' = [handler EXCEPT ![c] = "pass"]
        /\ got' = [got EXCEPT ![c] = line[c]]
        /\ line' = [line EXCEPT ![c] = None]
     \/ /\ link[c] = "down"
        /\ handler' = [handler EXCEPT ![c] = "close"]
        /\ UNCHANGED <<got, line>>
  /\ UNCHANGED <<client, acked, ack, link, run, accepted, active, executing, closer>>

(* The line is passed to the executing goroutine, when that is free. *)
Pass(c) ==
  /\ handler[c] = "pass"
  /\ handling = None
  /\ handling' = got[c]
  /\ handler' = [handler EXCEPT ![c] = "reply"]
  /\ got' = [got EXCEPT ![c] = None]
  /\ UNCHANGED <<clients, link, run, accepted, active, executed, closer>>

(* The line is acknowledged, unless the connection is closed; as a mutant, before it is passed.  *)
AfterRead == {"pass", "reply"}
AfterPass == {"reply"}

Reply(c) ==
  /\ handler[c] \in AfterPass
  /\ ack' = [ack EXCEPT ![c] = link[c] = "open"]
  /\ handler' = [handler EXCEPT ![c] = "scan"]
  /\ UNCHANGED <<client, acked, line, link, run, accepted, got, active, executing, closer>>

(* The connection is removed from activeConnections. *)
Forget(c) == active' = active \ {c}

CloseConn(c) ==
  /\ handler[c] = "close"
  /\ handler' = [handler EXCEPT ![c] = "done"]
  /\ link' = [link EXCEPT ![c] = "down"]
  /\ Forget(c)
  /\ UNCHANGED <<clients, run, accepted, got, executing, closer>>

-----------------------------------------------------------------------------
(* The executing goroutine. *)

(* A ping is only acknowledged. *)
HandlePing ==
  /\ handling = Ping
  /\ handling' = None
  /\ UNCHANGED <<clients, link, serving, executed, closer>>

(* A command is executed. *)
Executed ==
  /\ handling' = None
  /\ executed' = [executed EXCEPT ![handling] = @ + 1]

-----------------------------------------------------------------------------
(* Close. *)

(* The registered connections are closed, under the lock. *)
CloseConns ==
  /\ closer = "no"
  /\ link' = [c \in Conns |-> IF c \in active THEN "down" ELSE link[c]]
  /\ active' = {}
  /\ closer' = "connections"
  /\ UNCHANGED <<clients, run, accepted, handler, got>>

(* The listener is closed, and the connections it has not accepted with it; as a mutant, they    *)
(* are left.                                                                                     *)
LeaveBacklog == UNCHANGED link
DropBacklog == link' = [c \in Conns |-> IF link[c] = "backlog" THEN "down" ELSE link[c]]

CloseListener ==
  /\ closer = "connections"
  /\ DropBacklog
  /\ closer' = "done"
  /\ UNCHANGED <<clients, serving>>

-----------------------------------------------------------------------------

ClientNext(c) == Dial(c) \/ DialFails(c) \/ ReceiveAck(c) \/ MissAck(c) \/ HangUp(c)

HandlerNext(c) == Scan(c) \/ Pass(c) \/ Reply(c) \/ CloseConn(c)

RunNext == Accept \/ Register \/ AcceptFails \/ Return

(* What does not depend on the executor. *)
ServeNext == RunNext \/ HandlePing \/ \E c \in Conns : ClientNext(c) \/ HandlerNext(c)

(* The goroutines are scheduled, and the clients that have got an answer hang up. *)
ServeFairness ==
  /\ WF_serverVars(RunNext)
  /\ WF_serverVars(HandlePing)
  /\ \A c \in Conns :
       /\ WF_serverVars(ReceiveAck(c) \/ MissAck(c) \/ HangUp(c))
       /\ SF_serverVars(Pass(c))
       /\ WF_serverVars(Scan(c) \/ Reply(c) \/ CloseConn(c))

(* A server with an executor that only takes its time, closed by another goroutine. *)
Execute ==
  /\ handling \in Command
  /\ Executed
  /\ UNCHANGED <<clients, link, serving, closer>>

Close == CloseConns /\ UNCHANGED executing
EndClose == CloseListener /\ UNCHANGED executing

Finished ==
  /\ run = "returned" /\ handling = None
  /\ \A c \in Conns : client[c] # "waiting"
  /\ UNCHANGED serverVars

Next == ServeNext \/ Execute \/ Close \/ EndClose \/ Finished

Init == ServerInit

Spec ==
  Init /\ [][Next]_serverVars
    /\ ServeFairness /\ WF_serverVars(Execute) /\ WF_serverVars(EndClose)

-----------------------------------------------------------------------------
(* Properties. *)

ServerTypeOK ==
  /\ client \in [Conns -> {"new", "waiting", "done", "failed"}]
  /\ acked \in [Conns -> Nat]
  /\ \A c \in Conns : acked[c] \leq Len(Lines[c])
  /\ link \in [Conns -> {"none", "backlog", "open", "down"}]
  /\ line \in [Conns -> Sent \cup {None}]
  /\ ack \in [Conns -> BOOLEAN]
  /\ run \in {"accept", "register", "wait", "returned"}
  /\ accepted \in Conns \cup {None}
  /\ handler \in [Conns -> {"none", "scan", "pass", "reply", "close", "done"}]
  /\ got \in [Conns -> Sent \cup {None}]
  /\ active \subseteq { c \in Conns : handler[c] \notin {"none", "done"} }
  /\ handling \in Sent \cup {None}
  /\ executed \in [Command -> Nat]
  /\ closer \in {"no", "connections", "done"}
  \* the channel of the lines is not closed while a goroutine may send to it, which would panic
  /\ run = "returned" => \A c \in Conns : handler[c] \notin {"scan", "pass", "reply"}

(* A command that is acknowledged is executed once, or will be: the acknowledgement is not sent  *)
(* for a line that a closing server might drop.                                                  *)
AckedIsTaken ==
  \A c \in Conns : \A i \in 1 .. acked[c] :
    LET x == Lines[c][i] IN x # Ping => executed[x] = IF handling = x THEN 0 ELSE 1

(* Every Send returns, with the acknowledgement or an error. *)
SendReturns == \A c \in Conns : client[c] = "waiting" ~> client[c] # "waiting"

(* Once the server is closed Run returns.                                                        *)
RunReturns == closer = "done" ~> run = "returned"

=============================================================================
