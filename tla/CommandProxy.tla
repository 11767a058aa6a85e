---------------------------- MODULE CommandProxy ----------------------------
(***************************************************************************)
(* The command proxy of a helper pane (remotectl/exeproxy/proxy.go): a     *)
(* server executing the commands it receives, one process at a time.  A    *)
(* command replaces the one that runs: this one is interrupted, and killed *)
(* if it does not exit in time.  Each process has a goroutine waiting for  *)
(* its exit.  The command quit stops the process and closes the server.    *)
(*                                                                         *)
(* The process tree is external: a process may exit at any time, and has   *)
(* to when it is killed.                                                   *)
(***************************************************************************)
EXTENDS RemoteServer

CONSTANT Quit   (* the command quit *)

ASSUME QuitAssumption == Quit \in Command

VARIABLES
  exec,       (* the executing goroutine within a command: "idle", "stop" waiting for pDone or    *)
              (* for the grace period, "killed" waiting for pDone, "start", and "close" closing   *)
              (* the server                                                                       *)
  current,    (* p and pDone: the command they belong to, or None                                 *)
  process,    (* process[x]: "none", "running", "exited", "finished" when that is printed, and    *)
              (* "done" when pDone is closed                                                      *)
  screen      (* history: the commands whose start is printed, and not their end                  *)

proxyVars == <<exec, current, process, screen>>
vars == <<serverVars, proxyVars>>

ProxyInit ==
  /\ ServerInit
  /\ exec = "idle"
  /\ current = None
  /\ process = [x \in Command |-> "none"]
  /\ screen = {}

-----------------------------------------------------------------------------
(* The executing goroutine. *)

(* What follows the stop of the process. *)
Replaced == IF handling = Quit THEN "close" ELSE "start"

(* exec: the process, if there is one, is interrupted, even if it has exited already. *)
Interrupt ==
  /\ exec = "idle"
  /\ handling \in Command
  /\ exec' = IF current = None THEN Replaced ELSE "stop"
  /\ UNCHANGED <<serverVars, current, process, screen>>

(* exec: a command without arguments is ignored. *)
Ignore ==
  /\ exec = "idle"
  /\ handling \in Command \ {Quit}
  /\ Executed
  /\ UNCHANGED <<clients, link, serving, closer, proxyVars>>

(* The grace period is over, and the process is killed; as a mutant, it is only waited for. *)
GoOnWaiting == FALSE
Kill == exec' = "killed"

GraceOver ==
  /\ exec = "stop"
  /\ process[current] # "done"
  /\ Kill
  /\ UNCHANGED <<serverVars, current, process, screen>>

(* pDone is closed. *)
ExitIsSeen == process[current] = "done"

Stopped ==
  /\ exec \in {"stop", "killed"}
  /\ ExitIsSeen
  /\ current' = None
  /\ exec' = Replaced
  /\ UNCHANGED <<serverVars, process, screen>>

(* The header is printed and the process started, or the start fails, which is printed too. *)
Start ==
  /\ exec = "start"
  /\ \/ /\ process' = [process EXCEPT ![handling] = "running"]
        /\ current' = handling
        /\ screen' = screen \cup {handling}
     \/ UNCHANGED <<process, current, screen>>
  /\ exec' = "idle"
  /\ Executed
  /\ UNCHANGED <<clients, link, serving, closer>>

(* quit closes the server. *)
CloseServer ==
  /\ exec = "close"
  /\ CloseConns \/ CloseListener
  /\ UNCHANGED <<executing, proxyVars>>

(* The goroutine goes on with the next command; as a mutant, quit is the last one. *)
StopExecuting == exec' = "ended" /\ UNCHANGED executing
GoOnExecuting == exec' = "idle" /\ Executed

EndQuit ==
  /\ exec = "close" /\ closer = "done"
  /\ GoOnExecuting
  /\ UNCHANGED <<clients, link, serving, closer, current, process, screen>>

ExecNext == Interrupt \/ Ignore \/ GraceOver \/ Stopped \/ Start \/ CloseServer \/ EndQuit

-----------------------------------------------------------------------------
(* The processes, and the goroutines waiting for them. *)

Moves(x, from, to) == process[x] = from /\ process' = [process EXCEPT ![x] = to]

(* The process and the ones it has started exit. *)
Exit(x) ==
  /\ Moves(x, "running", "exited")
  /\ UNCHANGED <<serverVars, exec, current, screen>>

ExitsKilled(x) == exec = "killed" /\ current = x /\ Exit(x)

(* The exit is seen: the foreground is restored and the end of the command is printed, before    *)
(* pDone is closed; as a mutant, after it.                                                       *)
PrintLater(x) ==
  \/ Moves(x, "exited", "done") /\ UNCHANGED screen
  \/ process[x] = "done" /\ UNCHANGED process /\ screen' = screen \ {x}

PrintEnd(x) ==
  \/ Moves(x, "exited", "finished") /\ screen' = screen \ {x}
  \/ Moves(x, "finished", "done") /\ UNCHANGED screen

Wait(x) ==
  /\ PrintEnd(x)
  /\ UNCHANGED <<serverVars, exec, current>>

-----------------------------------------------------------------------------

(* The server is closed and idle. *)
Ended ==
  /\ run = "returned" /\ handling = None
  /\ \A c \in Conns : client[c] # "waiting"
  /\ UNCHANGED vars

(* No client comes any more. *)
Quiet ==
  /\ run = "accept" /\ handling = None
  /\ \A c \in Conns : client[c] \in {"done", "failed"} /\ handler[c] \in {"none", "done"}
  /\ UNCHANGED vars

ProxyNext ==
  \/ ServeNext /\ UNCHANGED proxyVars
  \/ ExecNext
  \/ \E x \in Command : Exit(x) \/ Wait(x)
  \/ Ended \/ Quiet

(* A process that is not killed may run forever. *)
ProxySpec ==
  /\ ProxyInit /\ [][ProxyNext]_vars
  /\ ServeFairness
  /\ WF_vars(ExecNext)
  /\ \A x \in Command : WF_vars(ExitsKilled(x)) /\ WF_vars(Wait(x))

-----------------------------------------------------------------------------
(* Properties. *)

TypeOK ==
  /\ ServerTypeOK
  /\ exec \in {"idle", "stop", "killed", "start", "close"}
  /\ exec # "idle" => handling # None
  /\ current \in Command \cup {None}
  /\ process \in [Command -> {"none", "running", "exited", "finished", "done"}]
  /\ screen \subseteq Command

(* A proxy maintains a single process: the next one is not started while another one runs, nor   *)
(* before the end of the other one is printed.                                                   *)
OneProcess ==
  /\ Cardinality({ x \in Command : process[x] \in {"running", "exited"} }) \leq 1
  /\ Cardinality(screen) \leq 1

(* A command replaces the process, however that reacts to the interrupt: it is executed.         *)
CommandsAreExecuted == handling # None ~> handling = None

=============================================================================
