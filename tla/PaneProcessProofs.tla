-------------------------- MODULE PaneProcessProofs --------------------------
(***************************************************************************)
(* The safety of the helper processes for every number of editors, items   *)
(* and processes: the types, a command is not run by two processes that    *)
(* are there at once, and an editor launches one process.                  *)
(***************************************************************************)
EXTENDS PaneProcess, FiniteSetTheorems, TLAPS

(* The socket file of a process is its own from bind(2) on, unless another process takes it. *)
HoldsFile == ~stolen => \A p \in Procs : proc[p] \in {"bound", "up"} => path = p

(* A delivery launches one process, and one that has not sent yet none. *)
LaunchesOnce ==
  /\ \A p, q \in Procs : launcher[p] = launcher[q] /\ launcher[p] # None => p = q
  /\ \A it \in Items : delivery[it] \in {"new", "waiting", "launch"} => ~HasLaunched(it)

(* An item is where it was sent last, unless the process it was sent to before has ended. *)
ItemAt(it, p) == proc[p] = "up" /\ conn[it] = p /\ delivery[it] \in {"sent", "done"}

ItemsSent ==
  \A it \in Items, p \in Procs :
    /\ taken[it][p] \leq 1
    /\ it \in inbox[p] => taken[it][p] = 0
    /\ it \in inbox[p] \/ taken[it][p] > 0 => proc[p] \in {"closing", "gone"} \/ ItemAt(it, p)

(* As long as no process ends: the file is that of a process that listens or is about to, or of  *)
(* one killed before, which the new processes replace, or one of them has just removed it.       *)
SocketInUse ==
  ends = 0 =>
    /\ \A p \in Procs : proc[p] # "closing"
    /\ path \in Procs => proc[path] \in {"bound", "up"}
    /\ path = Killed => \A p \in Procs : proc[p] \in {"none", "listen", "stat", "dial", "remove"}
    /\ path = None => \/ \E p \in Procs : proc[p] = "again"
                      \/ \A p \in Procs : proc[p] \in {"none", "listen"}

SentAreServed ==
  ends = 0 =>
    \A it \in Items : delivery[it] \in {"sent", "done"} => conn[it] \in Procs /\ proc[conn[it]] = "up"

Undisturbed == reliable /\ ends = 0 /\ ~stolen

SameEditor(p, q) == launcher[p] # None /\ launcher[q] # None /\ owner[launcher[p]] = owner[launcher[q]]

(* Then a delivery only launches a process if none of its editor has succeeded, and a delivery   *)
(* that has launched one does not fail.                                                          *)
OneForEditor ==
  Undisturbed =>
    /\ \A it \in Items : HasLaunched(it) => delivery[it] # "failed"
    /\ \A it, jt \in Items : delivery[it] = "launch" /\ owner[it] = owner[jt] => delivery[jt] # "done"
    /\ \A p, q \in Procs : SameEditor(p, q) => p = q

IInv ==
  TypeOK /\ HoldsFile /\ LaunchesOnce /\ ItemsSent /\ SocketInUse /\ SentAreServed /\ OneForEditor

-----------------------------------------------------------------------------
(* Facts used by several steps. *)

LEMMA KeptProcesses ==
  ASSUME HoldsFile, SocketInUse, UNCHANGED <<proc, path, ends, stolen>>
  PROVE  HoldsFile' /\ SocketInUse'
BY DEF HoldsFile, SocketInUse

(* As long as no process ends, one that is launched leads to one that listens. *)
LEMMA SomeoneComesUp ==
  ASSUME TypeOK, SocketInUse, ends = 0, NEW p \in Procs, launcher[p] # None
  PROVE  Listening \/ \E q \in Procs : ComingUp(q)
<1>1. proc[p] # "none" /\ path \in Procs \cup {Killed, None}
  BY DEF TypeOK
<1>2. CASE path \in Procs
  BY <1>2 DEF SocketInUse, Listening, ComingUp
<1>3. CASE path = Killed
  BY <1>1, <1>3 DEF SocketInUse, ComingUp
<1>4. CASE path = None
  BY <1>1, <1>4 DEF SocketInUse, ComingUp
<1>5. QED
  BY <1>1, <1>2, <1>3, <1>4

(* A delivery that has succeeded has left a process that listens. *)
LEMMA ServedListen ==
  ASSUME HoldsFile, SentAreServed, ends = 0, ~stolen, NEW it \in Items, delivery[it] \in {"sent", "done"}
  PROVE  Listening
BY DEF HoldsFile, SentAreServed, Listening

(* There is a process left for an item that has launched none. *)
LEMMA ProcessLeft ==
  ASSUME TypeOK, LaunchesOnce, NEW it \in Items, ~HasLaunched(it)
  PROVE  \E p \in Procs : proc[p] = "none"
<1> SUFFICES ASSUME \A p \in Procs : proc[p] # "none" PROVE FALSE
  OBVIOUS
<1> DEFINE T == Items \ {it}
           f == [p \in Procs |-> launcher[p]]
<1>1. f \in Injection(Procs, T)
  <2>1. \A p \in Procs : launcher[p] \in T
    BY DEF TypeOK, HasLaunched
  <2>2. \A p, q \in Procs : launcher[p] = launcher[q] => p = q
    BY DEF LaunchesOnce, TypeOK
  <2>3. f \in [Procs -> T] /\ \A p, q \in Procs : f[p] = f[q] => p = q
    BY <2>1, <2>2
  <2>4. QED
    BY <2>3 DEF Injection, IsInjective
<1>2. IsFiniteSet(T) /\ Cardinality(T) = Cardinality(Items) - 1
  BY FS_RemoveElement, ProcsAssumption
<1>3. Cardinality(Procs) \leq Cardinality(T)
  BY <1>1, <1>2, FS_Injection
<1>4. Cardinality(Items) \in Nat /\ Cardinality(Procs) \in Nat
  BY FS_CardinalityType, ProcsAssumption
<1>5. QED
  BY <1>2, <1>3, <1>4, ProcsAssumption

LEMMA InitIInv == Init => IInv
<1> SUFFICES ASSUME Init PROVE IInv
  OBVIOUS
<1>1. TypeOK
  <2>1. /\ taken \in [Items -> [Procs -> Nat]] /\ inbox \in [Procs -> SUBSET Items]
        /\ conn \in [Items -> Procs \cup {None}] /\ lock \in [Editors -> Items \cup {None}]
        /\ launcher \in [Procs -> Items \cup {None}]
    BY DEF Init
  <2>2. \A it \in Items : owner[it] \in Editors /\ lock[owner[it]] = None /\ it # None
    BY ProcsAssumption DEF Init
  <2>3. ends \in 0 .. MaxEnds
    BY ProcsAssumption DEF Init
  <2>4. stolen = FALSE /\ reliable \in BOOLEAN
    BY DEF Init
  <2>5. {stolen, reliable} \subseteq BOOLEAN
    BY <2>4, Zenon
  <2>6. QED
    BY <2>1, <2>2, <2>3, <2>5 DEF Init, TypeOK
<1>2. HoldsFile /\ LaunchesOnce /\ ItemsSent /\ SocketInUse /\ SentAreServed
  BY ProcsAssumption DEF Init, HoldsFile, LaunchesOnce, HasLaunched, ItemsSent, SocketInUse, SentAreServed
<1>3. OneForEditor
  BY DEF Init, OneForEditor, SameEditor
<1>4. QED
  BY <1>1, <1>2, <1>3 DEF IInv

-----------------------------------------------------------------------------
(* The deliveries. *)

LEMMA RequestIInv ==
  ASSUME IInv, NEW it \in Items, Request(it)
  PROVE  IInv'
<1> USE DEF IInv, Request, Goto
<1>1. \A jt \in Items : delivery'[jt] = IF jt = it THEN "waiting" ELSE delivery[jt]
  BY DEF TypeOK
<1>2. TypeOK'
  BY <1>1 DEF TypeOK, processes
<1>3. LaunchesOnce' /\ ItemsSent' /\ SentAreServed' /\ OneForEditor'
  BY <1>1 DEF LaunchesOnce, HasLaunched, ItemsSent, ItemAt, SentAreServed, OneForEditor, Undisturbed, SameEditor, processes
<1>4. QED
  BY <1>2, <1>3, KeptProcesses DEF processes

LEMMA BeginIInv ==
  ASSUME IInv, NEW it \in Items, Begin(it)
  PROVE  IInv'
<1> USE DEF IInv, Begin, Goto
<1>1. \A jt \in Items : delivery'[jt] = IF jt = it THEN "send" ELSE delivery[jt]
  BY DEF TypeOK
<1>2. \A jt \in Items : owner[jt] \in Editors /\ lock'[owner[jt]] = IF owner[jt] = owner[it] THEN it ELSE lock[owner[jt]]
  BY DEF TypeOK
<1>3. TypeOK'
  BY <1>1, <1>2, ProcsAssumption DEF TypeOK, IsFree, processes
<1>4. LaunchesOnce' /\ ItemsSent' /\ SentAreServed' /\ OneForEditor'
  BY <1>1 DEF LaunchesOnce, HasLaunched, ItemsSent, ItemAt, SentAreServed, OneForEditor, Undisturbed, SameEditor, processes
<1>5. QED
  BY <1>3, <1>4, KeptProcesses DEF processes

LEMMA SendIInv ==
  ASSUME IInv, NEW it \in Items, Send(it)
  PROVE  IInv'
<1> USE DEF IInv, Send, Goto
<1>1. CASE Listening
  <2>1. /\ path \in Procs /\ proc[path] = "up"
        /\ \A jt \in Items : delivery'[jt] = IF jt = it THEN "sent" ELSE delivery[jt]
        /\ \A jt \in Items : conn'[jt] = IF jt = it THEN path ELSE conn[jt]
        /\ \A p \in Procs : inbox'[p] = IF p = path THEN inbox[p] \cup {it} ELSE inbox[p]
        /\ delivery[it] = "send"
    BY <1>1 DEF TypeOK, Listening
  <2>2. TypeOK'
    <3>1. inbox' \in [Procs -> SUBSET Items] /\ conn' \in [Items -> Procs \cup {None}]
      <4>1. inbox' = [inbox EXCEPT ![path] = @ \cup {it}] /\ conn' = [conn EXCEPT ![it] = path]
        BY <1>1
      <4>2. inbox \in [Procs -> SUBSET Items] /\ conn \in [Items -> Procs \cup {None}]
        BY DEF TypeOK
      <4>3. QED
        BY <2>1, <4>1, <4>2
    <3>2. delivery' \in [Items -> {"new", "waiting", "send", "sent", "launch", "retry", "done", "failed"}]
      BY <1>1 DEF TypeOK
    <3>3. \A jt \in Items : delivery'[jt] \in {"send", "sent", "launch", "retry"} <=> lock[owner[jt]] = jt
      BY <2>1 DEF TypeOK
    <3>4. \A jt \in Items : delivery'[jt] = "sent" => conn'[jt] \in Procs
      BY <2>1 DEF TypeOK
    <3>5. QED
      BY <3>1, <3>2, <3>3, <3>4 DEF TypeOK, processes
  <2>3. LaunchesOnce' /\ OneForEditor'
    BY <2>1 DEF LaunchesOnce, HasLaunched, OneForEditor, Undisturbed, SameEditor, processes
  <2>4. ItemsSent'
    <3> SUFFICES ASSUME NEW jt \in Items, NEW p \in Procs
                 PROVE  /\ taken[jt][p] \leq 1
                        /\ jt \in inbox'[p] => taken[jt][p] = 0
                        /\ jt \in inbox'[p] \/ taken[jt][p] > 0 => proc[p] \in {"closing", "gone"} \/ ItemAt(jt, p)'
      BY DEF ItemsSent, processes
    <3>1. /\ taken[jt][p] \leq 1 /\ taken[jt][p] \in Nat
          /\ jt \in inbox[p] => taken[jt][p] = 0
          /\ jt \in inbox[p] \/ taken[jt][p] > 0 => proc[p] \in {"closing", "gone"} \/ ItemAt(jt, p)
      BY DEF ItemsSent, TypeOK
    <3>2. CASE jt = it
      <4>1. ~ItemAt(it, p)
        BY <2>1 DEF ItemAt
      <4>2. CASE p = path
        <5>1. it \notin inbox[p] /\ taken[it][p] = 0
          BY <2>1, <3>1, <3>2, <4>1, <4>2
        <5>2. ItemAt(it, p)'
          BY <2>1, <4>2 DEF ItemAt, processes
        <5>3. QED
          BY <3>2, <5>1, <5>2
      <4>3. CASE p # path
        BY <2>1, <3>1, <3>2, <4>1, <4>3
      <4>4. QED
        BY <4>2, <4>3
    <3>3. CASE jt # it
      BY <2>1, <3>1, <3>3 DEF ItemAt, processes
    <3>4. QED
      BY <3>2, <3>3
  <2>5. SentAreServed'
    BY <2>1 DEF SentAreServed, processes
  <2>6. QED
    BY <2>2, <2>3, <2>4, <2>5, KeptProcesses DEF processes
<1>2. CASE ~Listening
  <2>1. /\ \A jt \in Items : delivery'[jt] = IF jt = it THEN AfterFailure(it) ELSE delivery[jt]
        /\ delivery[it] = "send" /\ UNCHANGED <<conn, inbox>>
    BY <1>2 DEF TypeOK
  <2>2. AfterFailure(it) \in {"launch", "retry"} /\ (AfterFailure(it) = "launch" => ~HasLaunched(it))
    BY DEF AfterFailure
  <2>3. TypeOK'
    BY <1>2, <2>1, <2>2 DEF TypeOK, processes
  <2>4. LaunchesOnce' /\ ItemsSent' /\ SentAreServed'
    BY <2>1, <2>2 DEF LaunchesOnce, HasLaunched, ItemsSent, ItemAt, SentAreServed, processes
  <2>5. OneForEditor'
    <3>1. ends = 0 /\ ~stolen => \A jt \in Items : delivery[jt] \notin {"sent", "done"}
      BY <1>2, ServedListen
    <3>2. QED
      BY <2>1, <2>2, <3>1 DEF OneForEditor, Undisturbed, HasLaunched, SameEditor, processes
  <2>6. QED
    BY <2>1, <2>3, <2>4, <2>5, KeptProcesses DEF processes
<1>3. QED
  BY <1>1, <1>2

LEMMA AcknowledgedIInv ==
  ASSUME IInv, NEW it \in Items, Acknowledged(it)
  PROVE  IInv'
<1> USE DEF IInv, Acknowledged, End, Goto
<1>1. /\ \A jt \in Items : delivery'[jt] = IF jt = it THEN "done" ELSE delivery[jt]
      /\ \A jt \in Items : owner[jt] \in Editors /\ lock'[owner[jt]] = IF owner[jt] = owner[it] THEN None ELSE lock[owner[jt]]
      /\ delivery[it] = "sent" /\ lock[owner[it]] = it
  BY DEF TypeOK
<1>2. TypeOK'
  BY <1>1, ProcsAssumption DEF TypeOK, processes
<1>3. LaunchesOnce' /\ ItemsSent' /\ SentAreServed'
  BY <1>1 DEF LaunchesOnce, HasLaunched, ItemsSent, ItemAt, SentAreServed, processes
<1>4. OneForEditor'
  <2>1. \A jt \in Items : delivery[jt] = "launch" => lock[owner[jt]] = jt
    BY DEF TypeOK
  <2>2. \A jt \in Items : owner[jt] = owner[it] => delivery'[jt] # "launch"
    BY <1>1, <2>1
  <2>3. QED
    BY <1>1, <2>2 DEF OneForEditor, Undisturbed, HasLaunched, SameEditor, processes
<1>5. QED
  BY <1>2, <1>3, <1>4, KeptProcesses DEF processes

LEMMA DisconnectedIInv ==
  ASSUME IInv, NEW it \in Items, Disconnected(it)
  PROVE  IInv'
<1> USE DEF IInv, Disconnected, Goto
<1>1. /\ \A jt \in Items : delivery'[jt] = IF jt = it THEN AfterFailure(it) ELSE delivery[jt]
      /\ \A jt \in Items : conn'[jt] = IF jt = it THEN None ELSE conn[jt]
      /\ delivery[it] = "sent" /\ conn[it] \in Procs /\ proc[conn[it]] \in {"closing", "gone"}
  BY DEF TypeOK, LinkDown
<1>2. AfterFailure(it) \in {"launch", "retry"} /\ (AfterFailure(it) = "launch" => ~HasLaunched(it))
  BY DEF AfterFailure
<1>3. TypeOK'
  BY <1>1, <1>2 DEF TypeOK, processes
<1>4. LaunchesOnce'
  BY <1>1, <1>2 DEF LaunchesOnce, HasLaunched
<1>5. ItemsSent'
  BY <1>1, <1>2 DEF ItemsSent, ItemAt, processes
<1>6. ends # 0
  BY <1>1 DEF SentAreServed
<1>7. SentAreServed' /\ OneForEditor'
  BY <1>6 DEF SentAreServed, OneForEditor, Undisturbed, processes
<1>8. QED
  BY <1>3, <1>4, <1>5, <1>7, KeptProcesses DEF processes

LEMMA RetryIInv ==
  ASSUME IInv, NEW it \in Items, Retry(it)
  PROVE  IInv'
<1> USE DEF IInv, Retry, Goto
<1>1. /\ \A jt \in Items : delivery'[jt] = IF jt = it THEN "send" ELSE delivery[jt]
      /\ delivery[it] = "retry"
  BY DEF TypeOK
<1>2. TypeOK'
  BY <1>1 DEF TypeOK, processes
<1>3. LaunchesOnce' /\ ItemsSent' /\ SentAreServed' /\ OneForEditor'
  BY <1>1 DEF LaunchesOnce, HasLaunched, ItemsSent, ItemAt, SentAreServed, OneForEditor, Undisturbed, SameEditor, processes
<1>4. QED
  BY <1>2, <1>3, KeptProcesses DEF processes

(* A delivery ends without success. *)
LEMMA FailedIInv ==
  ASSUME IInv, NEW it \in Items, NEW from \in {"launch", "retry"}, End(it, from, "failed"),
         Undisturbed => ~HasLaunched(it),
         UNCHANGED <<owner, conn, launcher, processes, inbox, taken, reliable>>
  PROVE  IInv'
<1> USE DEF IInv, End, Goto
<1>1. /\ \A jt \in Items : delivery'[jt] = IF jt = it THEN "failed" ELSE delivery[jt]
      /\ \A jt \in Items : owner[jt] \in Editors /\ lock'[owner[jt]] = IF owner[jt] = owner[it] THEN None ELSE lock[owner[jt]]
      /\ delivery[it] = from /\ lock[owner[it]] = it
  BY DEF TypeOK
<1>2. TypeOK'
  BY <1>1, ProcsAssumption DEF TypeOK, processes
<1>3. LaunchesOnce' /\ ItemsSent' /\ SentAreServed' /\ OneForEditor'
  BY <1>1 DEF LaunchesOnce, HasLaunched, ItemsSent, ItemAt, SentAreServed, OneForEditor, Undisturbed, SameEditor, processes
<1>4. QED
  BY <1>2, <1>3, KeptProcesses DEF processes

LEMMA GiveUpIInv ==
  ASSUME IInv, NEW it \in Items, GiveUp(it)
  PROVE  IInv'
<1>1. Undisturbed => ~HasLaunched(it)
  <2> SUFFICES ASSUME Undisturbed, NEW p \in Procs, launcher[p] = it PROVE FALSE
    BY DEF HasLaunched
  <2>1. Listening \/ \E q \in Procs : ComingUp(q)
    BY SomeoneComesUp, ProcsAssumption DEF IInv, Undisturbed
  <2>2. QED
    BY <2>1 DEF GiveUp, TooLate, Undisturbed
<1>2. QED
  BY <1>1, FailedIInv DEF GiveUp

LEMMA LaunchIInv ==
  ASSUME IInv, NEW it \in Items, Launch(it)
  PROVE  IInv'
<1> USE DEF IInv
<1>1. CASE ~reliable /\ End(it, "launch", "failed") /\ UNCHANGED <<owner, conn, launcher, processes, inbox, taken, reliable>>
  BY <1>1, FailedIInv DEF Undisturbed
<1>2. CASE /\ Goto(it, "launch", "retry")
           /\ LET p == CHOOSE q \in Procs : proc[q] = "none"
              IN  /\ proc' = [proc EXCEPT ![p] = "listen"]
                  /\ launcher' = [launcher EXCEPT ![p] = it]
           /\ UNCHANGED <<owner, conn, lock, path, ends, stolen, inbox, taken, reliable>>
  <2>1. delivery[it] = "launch" /\ ~HasLaunched(it)
    BY <1>2 DEF Goto, LaunchesOnce
  <2>2. PICK p \in Procs : /\ proc[p] = "none"
                           /\ proc' = [proc EXCEPT ![p] = "listen"]
                           /\ launcher' = [launcher EXCEPT ![p] = it]
    <3>1. \E q \in Procs : proc[q] = "none"
      BY <2>1, ProcessLeft
    <3>2. QED
      BY <1>2, <3>1
  <2>3. /\ \A jt \in Items : delivery'[jt] = IF jt = it THEN "retry" ELSE delivery[jt]
        /\ \A q \in Procs : proc'[q] = IF q = p THEN "listen" ELSE proc[q]
        /\ \A q \in Procs : launcher'[q] = IF q = p THEN it ELSE launcher[q]
        /\ launcher[p] = None /\ it # None
    BY <1>2, <2>2, ProcsAssumption DEF Goto, TypeOK
  <2>4. \A q \in Procs : launcher[q] # it
    BY <2>1 DEF HasLaunched
  <2>5. TypeOK'
    BY <1>2, <2>1, <2>2, <2>3 DEF TypeOK, Goto
  <2>6. HoldsFile' /\ SocketInUse'
    BY <1>2, <2>2, <2>3 DEF HoldsFile, SocketInUse
  <2>7. LaunchesOnce'
    BY <2>3, <2>4 DEF LaunchesOnce, HasLaunched
  <2>8. ItemsSent' /\ SentAreServed'
    <3>1. \A jt \in Items : delivery'[jt] \in {"sent", "done"} <=> delivery[jt] \in {"sent", "done"}
      BY <2>1, <2>3
    <3>2. UNCHANGED <<conn, inbox, taken, ends>>
      BY <1>2
    <3>3. SentAreServed'
      BY <2>2, <2>3, <3>1, <3>2 DEF SentAreServed
    <3>4. ItemsSent'
      BY <2>2, <2>3, <3>1, <3>2 DEF ItemsSent, ItemAt
    <3>5. QED
      BY <3>3, <3>4
  <2>9. OneForEditor'
    <3> SUFFICES ASSUME Undisturbed
                 PROVE  /\ \A jt \in Items : HasLaunched(jt)' => delivery'[jt] # "failed"
                        /\ \A jt, kt \in Items : delivery'[jt] = "launch" /\ owner[jt] = owner[kt] => delivery'[kt] # "done"
                        /\ \A q, r \in Procs : SameEditor(q, r)' => q = r
      BY <1>2 DEF OneForEditor, Undisturbed
    <3>1. \A jt \in Items : HasLaunched(jt)' => delivery'[jt] # "failed"
      BY <2>3 DEF OneForEditor, HasLaunched
    <3>2. \A jt, kt \in Items : delivery'[jt] = "launch" /\ owner[jt] = owner[kt] => delivery'[kt] # "done"
      BY <2>3 DEF OneForEditor
    <3>3. \A q \in Procs : launcher[q] # None => owner[launcher[q]] # owner[it]
      <4> SUFFICES ASSUME NEW q \in Procs, launcher[q] # None, owner[launcher[q]] = owner[it] PROVE FALSE
        OBVIOUS
      <4> DEFINE jt == launcher[q]
      <4>1. jt \in Items /\ HasLaunched(jt) /\ jt # it
        BY <2>4 DEF TypeOK, HasLaunched
      <4>2. delivery[jt] \notin {"new", "waiting", "launch", "failed", "done"}
        BY <2>1, <4>1 DEF LaunchesOnce, OneForEditor
      <4>3. lock[owner[jt]] = jt /\ lock[owner[it]] = it
        BY <2>1, <4>1, <4>2 DEF TypeOK
      <4>4. QED
        BY <4>1, <4>3
    <3>4. \A q, r \in Procs : SameEditor(q, r)' => q = r
      BY <1>2, <2>3, <3>3 DEF OneForEditor, SameEditor
    <3>5. QED
      BY <3>1, <3>2, <3>4
  <2>10. QED
    BY <2>5, <2>6, <2>7, <2>8, <2>9
<1>3. QED
  BY <1>1, <1>2 DEF Launch

-----------------------------------------------------------------------------
(* The processes. *)

Starting == {"listen", "stat", "dial", "remove", "again", "bound"}

(* A process that starts changes nothing but its own place and the file. *)
LEMMA StartKeeps ==
  ASSUME IInv, NEW p \in Procs, proc[p] \in Starting,
         NEW to \in Starting \cup {"up", "gone"}, proc' = [proc EXCEPT ![p] = to],
         path' \in Procs \cup {Killed, None}, stolen' \in BOOLEAN, stolen => stolen', StartOnly,
         HoldsFile', SocketInUse'
  PROVE  IInv'
<1> USE DEF IInv, StartOnly, deliveries
<1>1. \A q \in Procs : proc'[q] = IF q = p THEN to ELSE proc[q]
  BY DEF TypeOK
<1>2. proc[p] \notin {"none", "closing", "gone", "up"} /\ to \notin {"none", "closing"}
  BY DEF Starting
<1>3. TypeOK'
  <2>1. proc' \in [Procs -> {"none", "listen", "stat", "dial", "remove", "again", "bound", "up", "closing", "gone"}]
    BY DEF TypeOK, Starting
  <2>2. \A q \in Procs : launcher[q] = None <=> proc'[q] = "none"
    BY <1>1, <1>2 DEF TypeOK
  <2>3. ~stolen' => \A q \in Procs : proc'[q] = "up" => path' = q
    BY DEF HoldsFile
  <2>4. QED
    BY <2>1, <2>2, <2>3 DEF TypeOK
<1>4. LaunchesOnce'
  BY DEF LaunchesOnce, HasLaunched
<1>5. ItemsSent'
  BY <1>1, <1>2 DEF ItemsSent, ItemAt
<1>6. SentAreServed'
  BY <1>1, <1>2 DEF SentAreServed
<1>7. OneForEditor'
  BY DEF OneForEditor, Undisturbed, HasLaunched, SameEditor
<1>8. QED
  BY <1>3, <1>4, <1>5, <1>6, <1>7

LEMMA BindIInv ==
  ASSUME IInv, NEW p \in Procs, NEW from \in {"listen", "again"}, NEW otherwise,
         from = "listen" => otherwise = "stat", from = "again" => otherwise = "gone",
         Bind(p, from, otherwise), UNCHANGED stolen, StartOnly
  PROVE  IInv'
<1> USE DEF IInv, Bind, Step, StartOnly
<1>1. proc[p] = from /\ proc[p] \in Starting
  BY DEF Starting
<1>2. stolen' \in BOOLEAN /\ (stolen => stolen')
  BY DEF TypeOK
<1>3. CASE path = None
  <2>1. /\ path' = p /\ proc' = [proc EXCEPT ![p] = "bound"]
        /\ \A q \in Procs : proc'[q] = IF q = p THEN "bound" ELSE proc[q]
    BY <1>3 DEF TypeOK
  <2>2. HoldsFile'
    BY <1>3, <2>1, ProcsAssumption DEF HoldsFile
  <2>3. SocketInUse'
    BY <2>1, ProcsAssumption DEF SocketInUse
  <2>4. "bound" \in Starting \cup {"up", "gone"} /\ path' \in Procs \cup {Killed, None}
    BY <2>1 DEF Starting
  <2>5. QED
    BY <1>1, <1>2, <2>1, <2>2, <2>3, <2>4, StartKeeps
<1>4. CASE path # None
  <2>1. /\ path' = path /\ proc' = [proc EXCEPT ![p] = otherwise] /\ otherwise \in {"stat", "gone"}
        /\ \A q \in Procs : proc'[q] = IF q = p THEN otherwise ELSE proc[q]
    BY <1>4 DEF TypeOK
  <2>2. HoldsFile'
    BY <2>1 DEF HoldsFile
  <2>3. SocketInUse'
    BY <1>1, <1>4, <2>1 DEF SocketInUse
  <2>4. otherwise \in Starting \cup {"up", "gone"} /\ path' \in Procs \cup {Killed, None}
    BY <2>1 DEF Starting, TypeOK
  <2>5. QED
    BY <1>1, <1>2, <2>1, <2>2, <2>3, <2>4, StartKeeps
<1>5. QED
  BY <1>3, <1>4

LEMMA ListenIInv ==
  ASSUME IInv, NEW p \in Procs, Listen(p)
  PROVE  IInv'
BY BindIInv DEF Listen

LEMMA ListenAgainIInv ==
  ASSUME IInv, NEW p \in Procs, ListenAgain(p)
  PROVE  IInv'
BY BindIInv DEF ListenAgain

(* A process looks at the file. *)
LEMMA LookIInv ==
  ASSUME IInv, NEW p \in Procs, NEW from \in {"stat", "dial"}, NEW to \in {"dial", "remove", "gone"},
         Step(p, from, to), UNCHANGED <<path, stolen>>, StartOnly,
         to = "gone" => path # Killed
  PROVE  IInv'
<1> USE DEF IInv, Step, StartOnly
<1>1. /\ proc[p] = from /\ proc[p] \in Starting /\ to \in Starting \cup {"up", "gone"}
      /\ proc' = [proc EXCEPT ![p] = to]
      /\ \A q \in Procs : proc'[q] = IF q = p THEN to ELSE proc[q]
  BY DEF Starting, TypeOK
<1>2. HoldsFile'
  BY <1>1 DEF HoldsFile
<1>3. SocketInUse'
  <2> SUFFICES ASSUME ends = 0
               PROVE  /\ \A q \in Procs : proc'[q] # "closing"
                      /\ path \in Procs => proc'[path] \in {"bound", "up"}
                      /\ path = Killed => \A q \in Procs : proc'[q] \in {"none", "listen", "stat", "dial", "remove"}
                      /\ path = None => \E q \in Procs : proc'[q] = "again"
    BY DEF SocketInUse
  <2>1. /\ \A q \in Procs : proc'[q] # "closing"
        /\ path \in Procs => proc'[path] \in {"bound", "up"}
    BY <1>1 DEF SocketInUse
  <2>2. path = Killed => \A q \in Procs : proc'[q] \in {"none", "listen", "stat", "dial", "remove"}
    BY <1>1 DEF SocketInUse
  <2>3. path = None => \E q \in Procs : proc'[q] = "again"
    <3> SUFFICES ASSUME path = None PROVE \E q \in Procs : proc'[q] = "again"
      OBVIOUS
    <3>1. PICK q \in Procs : proc[q] = "again"
      BY <1>1 DEF SocketInUse
    <3>2. QED
      BY <1>1, <3>1
  <2>4. QED
    BY <2>1, <2>2, <2>3
<1>4. path' \in Procs \cup {Killed, None} /\ stolen' \in BOOLEAN /\ (stolen => stolen')
  BY DEF TypeOK
<1>5. QED
  BY <1>1, <1>2, <1>3, <1>4, StartKeeps

LEMMA StatIInv ==
  ASSUME IInv, NEW p \in Procs, Stat(p)
  PROVE  IInv'
<1>1. CASE path = None
  BY <1>1, LookIInv, ProcsAssumption DEF Stat
<1>2. CASE path # None
  BY <1>2, LookIInv DEF Stat
<1>3. QED
  BY <1>1, <1>2

LEMMA DialIInv ==
  ASSUME IInv, NEW p \in Procs, Dial(p)
  PROVE  IInv'
<1>1. CASE Listening
  <2>1. path # Killed
    BY <1>1, ProcsAssumption DEF Listening
  <2>2. Step(p, "dial", "gone") /\ UNCHANGED <<path, stolen>> /\ StartOnly
    BY <1>1 DEF Dial, IsStale
  <2>3. QED
    BY <2>1, <2>2, LookIInv
<1>2. CASE ~Listening
  <2>1. Step(p, "dial", "remove") /\ UNCHANGED <<path, stolen>> /\ StartOnly
    BY <1>2 DEF Dial, IsStale
  <2>2. QED
    BY <2>1, LookIInv
<1>3. QED
  BY <1>1, <1>2

(* No process that has not lost its file holds one that is removed. *)
LEMMA UnlinkedFile ==
  ASSUME TypeOK, HoldsFile, NEW p \in Procs, Unlink(p), NEW to, to \notin {"bound", "up"},
         proc' = [proc EXCEPT ![p] = to]
  PROVE  HoldsFile' /\ stolen' \in BOOLEAN /\ (stolen => stolen')
<1>1. stolen' \in BOOLEAN /\ (stolen => stolen')
  BY DEF Unlink, TypeOK
<1>2. HoldsFile'
  <2> SUFFICES ASSUME ~stolen', NEW q \in Procs, proc'[q] \in {"bound", "up"} PROVE FALSE
    BY DEF HoldsFile
  <2>1. q # p /\ proc[q] \in {"bound", "up"}
    BY DEF TypeOK
  <2>2. path = q /\ Alive(q)
    BY <1>1, <2>1 DEF HoldsFile, Alive
  <2>3. QED
    BY <2>1, <2>2 DEF Unlink
<1>3. QED
  BY <1>1, <1>2

LEMMA RemoveIInv ==
  ASSUME IInv, NEW p \in Procs, Remove(p)
  PROVE  IInv'
<1> USE DEF IInv, Remove, Step
<1>1. /\ proc[p] = "remove" /\ proc[p] \in Starting /\ "again" \in Starting \cup {"up", "gone"}
      /\ proc' = [proc EXCEPT ![p] = "again"] /\ proc'[p] = "again"
      /\ path' = None /\ path' \in Procs \cup {Killed, None}
  BY DEF Starting, Unlink, TypeOK
<1>2. HoldsFile' /\ stolen' \in BOOLEAN /\ (stolen => stolen')
  BY <1>1, UnlinkedFile
<1>3. SocketInUse'
  <2>1. \A q \in Procs : proc'[q] = IF q = p THEN "again" ELSE proc[q]
    BY <1>1 DEF TypeOK
  <2>2. path' \notin Procs /\ path' # Killed
    BY <1>1, ProcsAssumption
  <2>3. UNCHANGED ends
    BY DEF StartOnly
  <2>4. QED
    BY <1>1, <2>1, <2>2, <2>3 DEF SocketInUse
<1>4. QED
  BY <1>1, <1>2, <1>3, StartKeeps

LEMMA AcceptIInv ==
  ASSUME IInv, NEW p \in Procs, Accept(p)
  PROVE  IInv'
<1> USE DEF IInv, Accept, Step, StartOnly
<1>1. /\ proc[p] = "bound" /\ proc[p] \in Starting /\ "up" \in Starting \cup {"up", "gone"}
      /\ proc' = [proc EXCEPT ![p] = "up"]
      /\ \A q \in Procs : proc'[q] = IF q = p THEN "up" ELSE proc[q]
  BY DEF Starting, TypeOK
<1>2. HoldsFile'
  BY <1>1 DEF HoldsFile
<1>3. SocketInUse'
  BY <1>1 DEF SocketInUse
<1>4. path' \in Procs \cup {Killed, None} /\ stolen' \in BOOLEAN /\ (stolen => stolen')
  BY DEF TypeOK
<1>5. QED
  BY <1>1, <1>2, <1>3, <1>4, StartKeeps

LEMMA TakeIInv ==
  ASSUME IInv, NEW p \in Procs, NEW it \in Items, Take(p, it)
  PROVE  IInv'
<1> USE DEF IInv, Take, deliveries
<1>1. taken[it][p] = 0
  BY DEF ItemsSent
<1>2. /\ \A q \in Procs : inbox'[q] = IF q = p THEN inbox[p] \ {it} ELSE inbox[q]
      /\ \A jt \in Items, q \in Procs : taken'[jt][q] = IF jt = it /\ q = p THEN 1 ELSE taken[jt][q]
      /\ inbox' \in [Procs -> SUBSET Items] /\ taken' \in [Items -> [Procs -> Nat]]
  BY <1>1 DEF TypeOK
<1>3. TypeOK'
  BY <1>2 DEF TypeOK, processes
<1>4. ItemsSent'
  BY <1>2 DEF ItemsSent, ItemAt, processes
<1>5. LaunchesOnce' /\ SentAreServed' /\ OneForEditor'
  BY DEF LaunchesOnce, HasLaunched, SentAreServed, OneForEditor, Undisturbed, SameEditor, processes
<1>6. QED
  BY <1>3, <1>4, <1>5, KeptProcesses DEF processes

(* A process ends. *)
LEMMA EndedIInv ==
  ASSUME IInv, NEW p \in Procs, NEW to \in {"closing", "gone"}, proc[p] # "none", proc[p] # "gone" \/ to = "gone",
         proc' = [proc EXCEPT ![p] = to],
         inbox' \in [Procs -> SUBSET Items], \A q \in Procs : inbox'[q] \subseteq inbox[q],
         path' \in Procs \cup {Killed, None}, stolen' \in BOOLEAN, HoldsFile',
         ends' \in 1 .. MaxEnds,
         UNCHANGED <<deliveries, launcher, taken, reliable>>
  PROVE  IInv'
<1> USE DEF IInv, deliveries
<1>1. \A q \in Procs : proc'[q] = IF q = p THEN to ELSE proc[q]
  BY DEF TypeOK
<1>2. TypeOK'
  <2>1. proc' \in [Procs -> {"none", "listen", "stat", "dial", "remove", "again", "bound", "up", "closing", "gone"}]
    BY DEF TypeOK
  <2>2. \A q \in Procs : launcher[q] = None <=> proc'[q] = "none"
    BY <1>1 DEF TypeOK
  <2>3. ~stolen' => \A q \in Procs : proc'[q] = "up" => path' = q
    BY DEF HoldsFile
  <2>4. ends' \in 0 .. MaxEnds /\ ends' # 0
    BY ProcsAssumption
  <2>5. QED
    BY <2>1, <2>2, <2>3, <2>4 DEF TypeOK
<1>3. ends' # 0
  OBVIOUS
<1>4. SocketInUse' /\ SentAreServed' /\ OneForEditor'
  BY <1>3 DEF SocketInUse, SentAreServed, OneForEditor, Undisturbed
<1>5. LaunchesOnce'
  BY DEF LaunchesOnce, HasLaunched
<1>6. ItemsSent'
  BY <1>1 DEF ItemsSent, ItemAt
<1>7. QED
  BY <1>2, <1>4, <1>5, <1>6

LEMMA CloseIInv ==
  ASSUME IInv, NEW p \in Procs, Close(p)
  PROVE  IInv'
<1> USE DEF IInv, Close, Step
<1>1. /\ proc[p] = "up" /\ proc' = [proc EXCEPT ![p] = "closing"]
      /\ inbox' \in [Procs -> SUBSET Items] /\ \A q \in Procs : inbox'[q] \subseteq inbox[q]
      /\ path' \in Procs \cup {Killed, None}
  BY DEF TypeOK, Unlink
<1>2. ends' \in 1 .. MaxEnds
  BY ProcsAssumption DEF TypeOK
<1>3. HoldsFile' /\ stolen' \in BOOLEAN
  BY <1>1, UnlinkedFile
<1>4. QED
  BY <1>1, <1>2, <1>3, EndedIInv

LEMMA GoneIInv ==
  ASSUME IInv, NEW p \in Procs, Gone(p), proc[p] # "none", ends' \in 1 .. MaxEnds
  PROVE  IInv'
<1> USE DEF IInv, Gone
<1>1. /\ proc' = [proc EXCEPT ![p] = "gone"]
      /\ inbox' \in [Procs -> SUBSET Items] /\ \A q \in Procs : inbox'[q] \subseteq inbox[q]
      /\ path' \in Procs \cup {Killed, None} /\ stolen' \in BOOLEAN
  BY DEF TypeOK
<1>2. HoldsFile'
  BY DEF HoldsFile, TypeOK
<1>3. QED
  BY <1>1, <1>2, EndedIInv

LEMMA KillIInv ==
  ASSUME IInv, NEW p \in Procs, Kill(p)
  PROVE  IInv'
<1>1. proc[p] # "none" /\ Gone(p) /\ ends' \in 1 .. MaxEnds
  BY ProcsAssumption DEF Kill, Alive, IInv, TypeOK
<1>2. QED
  BY <1>1, GoneIInv

LEMMA EndCloseIInv ==
  ASSUME IInv, NEW p \in Procs, EndClose(p)
  PROVE  IInv'
<1>1. proc[p] = "closing" /\ Gone(p) /\ ends' = ends
  BY DEF EndClose
<1>2. ends' \in 1 .. MaxEnds
  BY <1>1, ProcsAssumption DEF IInv, TypeOK, SocketInUse
<1>3. QED
  BY <1>1, <1>2, GoneIInv

-----------------------------------------------------------------------------

LEMMA StepIInv == IInv /\ [Next]_vars => IInv'
<1> SUFFICES ASSUME IInv, [Next]_vars PROVE IInv'
  OBVIOUS
<1>1. CASE UNCHANGED vars
  BY <1>1 DEF vars, deliveries, processes, IInv, TypeOK, HoldsFile, LaunchesOnce, HasLaunched, ItemsSent, ItemAt,
              SocketInUse, SentAreServed, OneForEditor, Undisturbed, SameEditor
<1>2. CASE \E it \in Items : Request(it) \/ Deliver(it) \/ GiveUp(it)
  BY <1>2, RequestIInv, BeginIInv, SendIInv, AcknowledgedIInv, DisconnectedIInv, LaunchIInv, RetryIInv, GiveUpIInv
     DEF Deliver
<1>3. CASE \E p \in Procs : Start(p) \/ Close(p) \/ EndClose(p) \/ Kill(p)
  BY <1>3, ListenIInv, StatIInv, DialIInv, RemoveIInv, ListenAgainIInv, AcceptIInv, CloseIInv, EndCloseIInv, KillIInv
     DEF Start
<1>4. CASE \E p \in Procs, it \in Items : Take(p, it)
  BY <1>4, TakeIInv
<1>5. QED
  BY <1>1, <1>2, <1>3, <1>4 DEF Next, Finished

(* The invariant holds: items are where they were sent, and as long as no process ends one of    *)
(* those that were launched listens or is about to.                                              *)
THEOREM Invariance == Spec => []IInv
BY InitIInv, StepIInv, PTL DEF Spec

(* Types: a delivery holds the lock of its editor exactly while it goes on, and whoever listens   *)
(* can be reached, unless its file was taken from it.                                            *)
THEOREM TypeCorrectness == Spec => []TypeOK
<1>1. IInv => TypeOK
  BY DEF IInv
<1>2. QED
  BY <1>1, Invariance, PTL

(* A command that is sent again, because its acknowledgement was lost or late, is not run by two *)
(* processes that are both still there, and by none of them twice.                               *)
THEOREM CommandsRunOnce == Spec => []TakenByOne
<1>1. IInv => TakenByOne
  <2> SUFFICES ASSUME IInv, NEW it \in Items, NEW p \in Procs
               PROVE  /\ taken[it][p] \leq 1
                      /\ \A q \in Procs \ {p} :
                           proc[p] = "up" /\ proc[q] = "up" => taken[it][p] = 0 \/ taken[it][q] = 0
    BY DEF TakenByOne
  <2>1. taken[it][p] \leq 1
    BY DEF IInv, ItemsSent
  <2>2. ASSUME NEW q \in Procs \ {p}, proc[p] = "up", proc[q] = "up", taken[it][p] # 0, taken[it][q] # 0
        PROVE  FALSE
    <3>1. taken[it][p] > 0 /\ taken[it][q] > 0
      BY <2>2 DEF IInv, TypeOK
    <3>2. conn[it] = p /\ conn[it] = q
      BY <2>2, <3>1 DEF IInv, ItemsSent, ItemAt
    <3>3. QED
      BY <2>2, <3>2
  <2>3. QED
    BY <2>1, <2>2
<1>2. QED
  BY <1>1, Invariance, PTL

(* An editor has launched one process at most, however many items it delivers at once and        *)
(* whatever the processes of other editors do, when launches are reliable and nobody ends a      *)
(* process or takes a socket file.                                                               *)
THEOREM OneLaunch == Spec => []LaunchedOnce
<1>1. IInv => LaunchedOnce
  <2> SUFFICES ASSUME IInv, Undisturbed, NEW e \in Editors
               PROVE  Cardinality({p \in Procs : launcher[p] # None /\ owner[launcher[p]] = e}) \leq 1
    BY DEF LaunchedOnce, Undisturbed
  <2> DEFINE mine == {p \in Procs : launcher[p] # None /\ owner[launcher[p]] = e}
  <2>1. CASE mine = {}
    <3>1. Cardinality({}) = 0
      BY FS_EmptySet
    <3>2. QED
      BY <2>1, <3>1
  <2>2. CASE mine # {}
    <3>1. PICK p \in Procs : p \in mine
      BY <2>2
    <3>2. \A q \in mine : q = p
      BY <3>1 DEF IInv, OneForEditor, SameEditor
    <3>3. mine = {p}
      BY <3>1, <3>2
    <3>4. Cardinality({p}) = 1
      BY FS_Singleton
    <3>5. QED
      BY <3>3, <3>4
  <2>3. QED
    BY <2>1, <2>2
<1>2. QED
  BY <1>1, Invariance, PTL

=============================================================================
