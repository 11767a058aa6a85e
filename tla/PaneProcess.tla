---------------------------- MODULE PaneProcess ----------------------------
(***************************************************************************)
(* The helper processes of the editor: a command proxy or an image viewer  *)
(* in a terminal pane (cmd/che/pane.go, runner.go, imgviewer.go), and the  *)
(* socket they listen on (remotectl/server.go, NewServer).                 *)
(*                                                                         *)
(* Each item to show, or command to run, is delivered by a goroutine of    *)
(* its own.  It sends the item to the process that listens on the socket   *)
(* of the tab; if that fails, it launches a process and tries again until  *)
(* it answers or the time is over.  Several editors may run in a tab.      *)
(*                                                                         *)
(* A process takes the socket when it starts.  The file of a socket        *)
(* outlives a process that is killed, so a new process that finds one      *)
(* checks whether somebody listens, and replaces it otherwise.  Nothing    *)
(* makes these steps one: other processes go on between any two of them.   *)
(* A process that is closed removes the file by its name.                  *)
(***************************************************************************)
EXTENDS Naturals, FiniteSets

CONSTANTS
  Editors,
  Items,       (* what is delivered, each item once                           *)
  Procs,       (* the processes that may be launched                          *)
  Killed,      (* a process killed before, which may have left its file       *)
  MaxEnds,     (* a bound: how many processes users close or kill             *)
  None

(* A delivery launches at most one process, so there is one left whenever one is launched. *)
ASSUME ProcsAssumption ==
  /\ IsFiniteSet(Procs) /\ IsFiniteSet(Items) /\ Cardinality(Procs) \geq Cardinality(Items)
  /\ Killed \notin Procs
  /\ MaxEnds \in Nat
  /\ None \notin Procs \cup Items \cup {Killed}

VARIABLES
  owner,       (* owner[it]: the editor that delivers the item; it does not change              *)
  delivery,    (* delivery[it]: "new"; "waiting" for the lock; "send"; "sent", waiting for the  *)
               (* acknowledgement; "launch"; "retry", before the next try; "done"; "failed"     *)
  conn,        (* conn[it]: the process the item is sent to                                     *)
  lock,        (* lock[e]: the delivery of the editor that holds the mutex, or None             *)
  launcher,    (* launcher[p]: the delivery that has launched the process, or None              *)
  proc,        (* proc[p]: "none"; "listen"; "stat", "dial" and "remove", when the file is      *)
               (* there; "again", the second Listen; "bound", before listen(2); "up";           *)
               (* "closing", the file removed; "gone"                                           *)
  path,        (* the process whose socket the file is, or None                                 *)
  inbox,       (* inbox[p]: the items sent to the process and not taken by it                   *)
  taken,       (* taken[it][p]: how many times the process has taken the item                   *)
  ends,        (* how many processes were closed or killed                                      *)
  stolen,      (* history: the file of a running process was removed by another                 *)
  reliable     (* launches succeed, and what is launched listens before the timeout             *)

deliveries == <<owner, delivery, conn, lock>>
processes == <<proc, path, ends, stolen>>
vars == <<deliveries, launcher, processes, inbox, taken, reliable>>

Alive(p) == p \in Procs /\ proc[p] \notin {"none", "gone"}

ComingUp(p) == proc[p] \in {"listen", "stat", "dial", "remove", "again", "bound"}

(* Somebody answers at the file. *)
Listening == path \in Procs /\ proc[path] = "up"

Init ==
  /\ owner \in [Items -> Editors]
  /\ delivery = [it \in Items |-> "new"]
  /\ conn = [it \in Items |-> None]
  /\ lock = [e \in Editors |-> None]
  /\ launcher = [p \in Procs |-> None]
  /\ proc = [p \in Procs |-> "none"]
  /\ path \in {Killed, None}
  /\ inbox = [p \in Procs |-> {}]
  /\ taken = [it \in Items |-> [p \in Procs |-> 0]]
  /\ ends = 0
  /\ stolen = FALSE
  /\ reliable \in BOOLEAN

-----------------------------------------------------------------------------
(* The deliveries. *)

Goto(it, from, to) == delivery[it] = from /\ delivery' = [delivery EXCEPT ![it] = to]

(* ExecuteCommand, Show: the goroutine of the delivery starts. *)
Request(it) ==
  /\ Goto(it, "new", "waiting")
  /\ UNCHANGED <<owner, conn, lock, launcher, processes, inbox, taken, reliable>>

(* The deliveries of an editor are made one at a time; as mutants, all at once, or without the   *)
(* lock being taken.                                                                             *)
AnyTime(e) == TRUE
IsFree(e) == lock[e] = None

BeginUnlocked(it) ==
  /\ IsFree(owner[it])
  /\ Goto(it, "waiting", "send")
  /\ UNCHANGED <<owner, conn, lock, launcher, processes, inbox, taken, reliable>>

Begin(it) ==
  /\ IsFree(owner[it])
  /\ Goto(it, "waiting", "send")
  /\ lock' = [lock EXCEPT ![owner[it]] = it]
  /\ UNCHANGED <<owner, conn, launcher, processes, inbox, taken, reliable>>

(* The lock is released however the delivery ends; as a mutant, it is kept. *)
EndLocked(it, from, result) == Goto(it, from, result) /\ UNCHANGED lock

End(it, from, result) ==
  /\ Goto(it, from, result)
  /\ lock' = [lock EXCEPT ![owner[it]] = None]

HasLaunched(it) == \E p \in Procs : launcher[p] = it

(* A send that fails is followed by the launch, once, and then by the next try; as a mutant, by  *)
(* a single one.                                                                                 *)
AfterOneTry(it) == IF HasLaunched(it) THEN "failed" ELSE "launch"

AfterFailure(it) == IF HasLaunched(it) THEN "retry" ELSE "launch"

(* Client dials the socket, and the item is sent; nobody may answer. *)
Send(it) ==
  /\ IF Listening
       THEN /\ Goto(it, "send", "sent")
            /\ conn' = [conn EXCEPT ![it] = path]
            /\ inbox' = [inbox EXCEPT ![path] = @ \cup {it}]
       ELSE /\ Goto(it, "send", AfterFailure(it))
            /\ UNCHANGED <<conn, inbox>>
  /\ UNCHANGED <<owner, lock, launcher, processes, taken, reliable>>

(* The acknowledgement follows the taking; the process may have ended since. *)
Acknowledged(it) ==
  /\ End(it, "sent", "done")
  /\ taken[it][conn[it]] > 0
  /\ UNCHANGED <<owner, conn, launcher, processes, inbox, taken, reliable>>

(* The connection ends with the process, and the acknowledgement may go with it.  As a mutant,   *)
(* the answer is waited for during a limited time.                                               *)
LinkSlow(it) == TRUE
LinkDown(it) == proc[conn[it]] \in {"closing", "gone"}

Disconnected(it) ==
  /\ Goto(it, "sent", AfterFailure(it))
  /\ LinkDown(it)
  /\ conn' = [conn EXCEPT ![it] = None]
  /\ UNCHANGED <<owner, lock, launcher, processes, inbox, taken, reliable>>

(* The terminal is told to run the process in a pane, which it may refuse. *)
Launch(it) ==
  \/ /\ Goto(it, "launch", "retry")
     /\ LET p == CHOOSE q \in Procs : proc[q] = "none"
        IN  /\ proc' = [proc EXCEPT ![p] = "listen"]
            /\ launcher' = [launcher EXCEPT ![p] = it]
     /\ UNCHANGED <<owner, conn, lock, path, ends, stolen, inbox, taken, reliable>>
  \/ /\ ~reliable
     /\ End(it, "launch", "failed")
     /\ UNCHANGED <<owner, conn, launcher, processes, inbox, taken, reliable>>

(* After a pause the item is sent again, as long as there is time. *)
Retry(it) ==
  /\ Goto(it, "retry", "send")
  /\ UNCHANGED <<owner, conn, lock, launcher, processes, inbox, taken, reliable>>

(* The timeout is longer than a reliable start and the pause after it. *)
TooLate == reliable => ~Listening /\ \A p \in Procs : ~ComingUp(p)

GiveUp(it) ==
  /\ TooLate
  /\ End(it, "retry", "failed")
  /\ UNCHANGED <<owner, conn, launcher, processes, inbox, taken, reliable>>

-----------------------------------------------------------------------------
(* NewServer: a process takes the socket. *)

Step(p, from, to) == proc[p] = from /\ proc' = [proc EXCEPT ![p] = to]

StartOnly == UNCHANGED <<deliveries, launcher, ends, inbox, taken, reliable>>

(* bind(2) fails if the file is there. *)
Bind(p, from, otherwise) ==
  IF path = None
    THEN Step(p, from, "bound") /\ path' = p
    ELSE Step(p, from, otherwise) /\ UNCHANGED path

Listen(p) ==
  /\ Bind(p, "listen", "stat")
  /\ UNCHANGED stolen
  /\ StartOnly

(* isStaleSocket: without a file there is nothing to replace, and the first error counts. *)
Stat(p) ==
  /\ Step(p, "stat", IF path = None THEN "gone" ELSE "dial")
  /\ UNCHANGED <<path, stolen>>
  /\ StartOnly

(* A socket nobody listens on is stale. *)
IsStale == ~Listening

Dial(p) ==
  /\ Step(p, "dial", IF IsStale THEN "remove" ELSE "gone")
  /\ UNCHANGED <<path, stolen>>
  /\ StartOnly

(* The file goes, whosever it is. *)
Unlink(p) ==
  /\ path' = None
  /\ stolen' = (stolen \/ \E q \in Procs \ {p} : path = q /\ Alive(q))

Remove(p) ==
  /\ Step(p, "remove", "again")
  /\ Unlink(p)
  /\ StartOnly

ListenAgain(p) ==
  /\ Bind(p, "again", "gone")
  /\ UNCHANGED stolen
  /\ StartOnly

(* listen(2): from here on connections are accepted. *)
Accept(p) ==
  /\ Step(p, "bound", "up")
  /\ UNCHANGED <<path, stolen>>
  /\ StartOnly

-----------------------------------------------------------------------------
(* The processes. *)

(* The item is taken from the connection: it is executed or shown. *)
Take(p, it) ==
  /\ proc[p] \in {"up", "closing"}
  /\ it \in inbox[p]
  /\ inbox' = [inbox EXCEPT ![p] = @ \ {it}]
  /\ taken' = [taken EXCEPT ![it][p] = @ + 1]
  /\ UNCHANGED <<deliveries, launcher, processes, reliable>>

(* The user quits the process: its connections are closed, the file is removed, then the socket  *)
(* is closed.                                                                                    *)
Close(p) ==
  /\ ends < MaxEnds
  /\ ends' = ends + 1
  /\ Step(p, "up", "closing")
  /\ Unlink(p)
  /\ UNCHANGED <<deliveries, launcher, inbox, taken, reliable>>

Gone(p) ==
  /\ proc' = [proc EXCEPT ![p] = "gone"]
  /\ inbox' = [inbox EXCEPT ![p] = {}]
  /\ UNCHANGED <<deliveries, launcher, path, stolen, taken, reliable>>

EndClose(p) ==
  /\ proc[p] = "closing"
  /\ Gone(p)
  /\ UNCHANGED ends

(* The process is killed, at any moment, or its pane is closed. *)
Kill(p) ==
  /\ Alive(p)
  /\ ends < MaxEnds
  /\ ends' = ends + 1
  /\ Gone(p)

-----------------------------------------------------------------------------

Deliver(it) ==
  Begin(it) \/ Send(it) \/ Acknowledged(it) \/ Disconnected(it) \/ Launch(it) \/ Retry(it)

Start(p) == Listen(p) \/ Stat(p) \/ Dial(p) \/ Remove(p) \/ ListenAgain(p) \/ Accept(p)

(* Everything was delivered or given up, and nothing is coming up. *)
Finished ==
  /\ \A it \in Items : delivery[it] \in {"new", "done", "failed"}
  /\ UNCHANGED vars

Next ==
  \/ \E it \in Items : Request(it) \/ Deliver(it) \/ GiveUp(it)
  \/ \E p \in Procs : Start(p) \/ Close(p) \/ EndClose(p) \/ Kill(p)
  \/ \E p \in Procs, it \in Items : Take(p, it)
  \/ Finished

(* The goroutines and the processes run; the mutex is given to its waiters in turn; the time for *)
(* the tries is over some day.  Nobody has to ask for a delivery or to end a process.            *)
Fairness ==
  /\ \A it \in Items : WF_vars(Deliver(it)) /\ SF_vars(Begin(it)) /\ SF_vars(GiveUp(it))
  /\ \A p \in Procs : WF_vars(Start(p)) /\ WF_vars(EndClose(p))
  /\ \A p \in Procs, it \in Items : WF_vars(Take(p, it))

Spec == Init /\ [][Next]_vars /\ Fairness

-----------------------------------------------------------------------------
(* Properties. *)

TypeOK ==
  /\ owner \in [Items -> Editors]
  /\ delivery \in [Items -> {"new", "waiting", "send", "sent", "launch", "retry", "done", "failed"}]
  /\ conn \in [Items -> Procs \cup {None}]
  /\ lock \in [Editors -> Items \cup {None}]
  /\ launcher \in [Procs -> Items \cup {None}]
  /\ \A p \in Procs : launcher[p] = None <=> proc[p] = "none"
  /\ \A it \in Items : delivery[it] \in {"send", "sent", "launch", "retry"} <=> lock[owner[it]] = it
  /\ \A it \in Items : delivery[it] = "sent" => conn[it] \in Procs
  /\ proc \in [Procs -> {"none", "listen", "stat", "dial", "remove", "again", "bound", "up", "closing", "gone"}]
  /\ path \in Procs \cup {Killed, None}
  /\ inbox \in [Procs -> SUBSET Items]
  /\ taken \in [Items -> [Procs -> Nat]]
  /\ ends \in 0 .. MaxEnds
  /\ {stolen, reliable} \subseteq BOOLEAN
  \* whoever listens can be reached, so there is one at most, unless its file was taken from it
  /\ ~stolen => \A p \in Procs : proc[p] = "up" => path = p

(* An item that a process has taken is taken by another one only if the first was ended by its   *)
(* user: a retry does not run a command twice while the first run of it is still there to see.   *)
TakenByOne ==
  \A it \in Items, p \in Procs :
    /\ taken[it][p] \leq 1
    /\ \A q \in Procs \ {p} :
         proc[p] = "up" /\ proc[q] = "up" => taken[it][p] = 0 \/ taken[it][q] = 0

(* An editor does not launch a second process, however many items are delivered at once: unless  *)
(* one has ended, starts too late, or has lost its socket to another.                            *)
LaunchedOnce ==
  (reliable /\ ends = 0 /\ ~stolen) =>
    \A e \in Editors : Cardinality({p \in Procs : launcher[p] # None /\ owner[launcher[p]] = e}) \leq 1

IsTaken(it) == \E p \in Procs : taken[it][p] > 0

(* Every delivery ends, and lets the next one go. *)
DeliveriesEnd == \A it \in Items : delivery[it] = "waiting" ~> delivery[it] \in {"done", "failed"}

(* If launches are reliable and users end no process, every item is taken, though processes of   *)
(* several editors start at once and take the socket from each other.                            *)
ItemsAreTaken ==
  (reliable /\ [](ends = 0)) => \A it \in Items : delivery[it] = "waiting" ~> IsTaken(it)

=============================================================================
