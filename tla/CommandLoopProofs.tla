------------------------- MODULE CommandLoopProofs -------------------------
(***************************************************************************)
(* The safety of the command loop for every set of goroutines, every set   *)
(* of commands they send, and every number of buffers: the types, a top    *)
(* buffer for every command, and a quit that closes the buffer it was      *)
(* asked for, without losing changes.                                      *)
(***************************************************************************)
EXTENDS CommandLoop, SequenceTheorems, TLAPS

(* A quit leaves no keys to handle: handleKeys returns at the key that quits, and no command is  *)
(* taken until the loop has closed the buffer.                                                   *)
QuitEndsKeys == quit # "no" => keys = <<>>

(* Only handleKeys holds keys. *)
KeysOfBatch == pc # "keys" => keys = <<>>

(* There is a buffer until the loop is over. *)
LoopHasTop == pc \in {"setup", "top", "wait", "keys"} => bufs # <<>>

IInv == TypeOK /\ QuitEndsKeys /\ KeysOfBatch /\ LoopHasTop /\ QuitLosesNothing

-----------------------------------------------------------------------------
(* The operations on the stack keep it a sequence of flags. *)

LEMMA WithTopType ==
  ASSUME NEW s \in Seq(BOOLEAN), s # <<>>, NEW d \in BOOLEAN
  PROVE  /\ [s EXCEPT ![Len(s)] = d] \in Seq(BOOLEAN)
         /\ [s EXCEPT ![Len(s)] = d] # <<>>
<1> DEFINE t == [s EXCEPT ![Len(s)] = d]
<1>1. t \in Seq(BOOLEAN)
  BY ExceptSeq, EmptySeq, LenProperties
<1>2. Len(t) = Len(s)
  BY ExceptSeq, LenProperties
<1>3. QED
  BY <1>1, <1>2, EmptySeq, LenProperties

LEMMA FrontType ==
  ASSUME NEW s \in Seq(BOOLEAN), s # <<>>
  PROVE  Front(s) \in Seq(BOOLEAN)
BY SMT DEF Front

LEMMA RemoveAtType ==
  ASSUME NEW s \in Seq(BOOLEAN), NEW i \in 1 .. Len(s)
  PROVE  RemoveAt(s, i) \in Seq(BOOLEAN)
BY SMT DEF RemoveAt

(* The results of SaveOutcomes and OpenOutcomes are non-empty stacks. *)
LEMMA SaveOutcomesType ==
  ASSUME bufs \in Seq(BOOLEAN), bufs # <<>>, NEW s \in SaveOutcomes
  PROVE  s \in Seq(BOOLEAN) /\ s # <<>>
BY WithTopType DEF SaveOutcomes, WithTop

LEMMA OpenOutcomesType ==
  ASSUME bufs \in Seq(BOOLEAN), bufs # <<>>, NEW b \in OpenOutcomes
  PROVE  b \in Seq(BOOLEAN) /\ b # <<>>
<1>1. CASE b = bufs
  BY <1>1
<1>2. ASSUME NEW s \in SaveOutcomes, b \in Activated(s)
      PROVE  b \in Seq(BOOLEAN) /\ b # <<>>
  <2>1. PICK i \in 1 .. Len(s) - 1 : b = Append(RemoveAt(s, i), s[i])
    BY <1>2 DEF Activated
  <2>2. s \in Seq(BOOLEAN)
    BY SaveOutcomesType
  <2>3. i \in 1 .. Len(s)
    BY <2>2, LenProperties
  <2>4. RemoveAt(s, i) \in Seq(BOOLEAN) /\ s[i] \in BOOLEAN
    BY <2>2, <2>3, RemoveAtType, ElementOfSeq
  <2>5. QED
    BY <2>1, <2>4, AppendProperties, EmptySeq
<1>3. ASSUME NEW s \in SaveOutcomes, b \in Pushed(s)
      PROVE  b \in Seq(BOOLEAN) /\ b # <<>>
  <2>1. b = Append(s, FALSE)
    BY <1>3 DEF Pushed
  <2>2. s \in Seq(BOOLEAN)
    BY SaveOutcomesType
  <2>3. Append(s, FALSE) \in Seq(BOOLEAN) /\ Append(s, FALSE) # <<>>
    BY <2>2, FALSE \in BOOLEAN, AppendProperties, Zenon
  <2>4. QED
    BY <2>1, <2>3
<1>4. b = bufs \/ \E s \in SaveOutcomes : b \in Activated(s) \/ b \in Pushed(s)
  BY DEF OpenOutcomes
<1>5. QED
  BY <1>1, <1>2, <1>3, <1>4

-----------------------------------------------------------------------------
(* One step. *)

LEMMA InitIInv == Init => IInv
<1> SUFFICES ASSUME Init PROVE IInv
  OBVIOUS
<1>1. keys \in Seq(Key) /\ bufs \in Seq(BOOLEAN) /\ bufs # <<>>
  BY EmptySeq DEF Init
<1>2. sender \in [Senders -> Command \cup {Idle, Stopped}]
  BY DEF Init
<1>3. TypeOK
  BY <1>1, <1>2 DEF Init, TypeOK
<1>4. QED
  BY <1>1, <1>3 DEF Init, IInv, QuitEndsKeys, KeysOfBatch, LoopHasTop, QuitLosesNothing

LEMMA SendingIInv ==
  ASSUME IInv, NEW s \in Senders, Sending(s)
  PROVE  IInv'
<1> USE DEF IInv, QuitEndsKeys, KeysOfBatch, LoopHasTop, QuitLosesNothing, Top, stack, channel, goroutines
<1>1. Sends[s] \subseteq Command
  BY SendersAssumption
<1>2. CASE BeginSend(s)
  BY <1>1, <1>2 DEF BeginSend, TypeOK
<1>3. CASE EndSend(s)
  BY <1>3 DEF EndSend, TypeOK, AfterSend, Idle, Stopped
<1>4. CASE DropSend(s)
  BY <1>4 DEF DropSend, TypeOK, AfterSend, Idle, Stopped
<1>5. CASE StopSender(s)
  BY <1>5 DEF StopSender, TypeOK, Stopped
<1>6. QED
  BY <1>2, <1>3, <1>4, <1>5 DEF Sending

(* The steps of the loop, one lemma per action. *)

LEMMA StartRunIInv == ASSUME IInv, StartRun PROVE IInv'
BY DEF StartRun, IInv, TypeOK, QuitEndsKeys, KeysOfBatch, LoopHasTop, QuitLosesNothing, Top, goroutines

LEMMA IterateIInv == ASSUME IInv, Iterate PROVE IInv'
<1> USE DEF IInv, TypeOK, QuitEndsKeys, KeysOfBatch, LoopHasTop, QuitLosesNothing, stack, channel, goroutines
<1>1. CASE exitRequested
  BY <1>1 DEF Iterate, Top
<1>2. CASE ~exitRequested
  <2>1. bufs # <<>>
    BY DEF Iterate
  <2>2. bufs' \in Seq(BOOLEAN)
    BY <1>2, <2>1, FrontType DEF Iterate
  <2>3. CASE bufs' = <<>>
    BY <1>2, <2>2, <2>3 DEF Iterate, StackEmptied
  <2>4. CASE bufs' # <<>>
    BY <1>2, <2>2, <2>4 DEF Iterate, StackEmptied
  <2>5. QED
    BY <2>3, <2>4
<1>3. QED
  BY <1>1, <1>2

(* A command leaves a non-empty stack, whatever it is. *)
LEMMA ExecuteType ==
  ASSUME IInv, pc = "wait", quit = "no", NEW c, Execute(c)
  PROVE  /\ bufs' \in Seq(BOOLEAN)
         /\ bufs' # <<>>
         /\ quit' \in {"no", "forced"}
         /\ renderRequested' \in BOOLEAN
         /\ exitRequested' = exitRequested
<1> USE DEF IInv, TypeOK, LoopHasTop
<1>0. bufs \in Seq(BOOLEAN) /\ bufs # <<>>
  OBVIOUS
<1>1. CASE EditTop
  BY <1>0, <1>1, WithTopType DEF WithTop, Execute, EditTop
<1>2. CASE OpenPath
  BY <1>0, <1>2, OpenOutcomesType DEF Execute, OpenPath
<1>3. CASE ReloadBuffer
  <2>1. ASSUME NEW i \in DOMAIN bufs, bufs' = [bufs EXCEPT ![i] = FALSE]
        PROVE  bufs' \in Seq(BOOLEAN) /\ bufs' # <<>>
    <3>1. i \in 1 .. Len(bufs)
      BY <1>0, <2>1, LenProperties
    <3>2. bufs' \in Seq(BOOLEAN) /\ Len(bufs') = Len(bufs)
      BY <1>0, <2>1, <3>1, ExceptSeq, LenProperties
    <3>3. QED
      BY <1>0, <3>2, EmptySeq, LenProperties
  <2>2. bufs' \in Seq(BOOLEAN) /\ bufs' # <<>>
    BY <1>0, <1>3, <2>1 DEF ReloadBuffer
  <2>3. QED
    BY <1>3, <2>2 DEF Execute, ReloadBuffer
<1>4. CASE RequestRender
  BY <1>0, <1>4 DEF Execute, RequestRender
<1>5. CASE QuitAll
  <2>1. Head(bufs) \in BOOLEAN
    BY <1>0
  <2>2. QED
    BY <1>5, <2>1 DEF Execute, QuitAll
<1>6. QED
  BY <1>1, <1>2, <1>3, <1>4, <1>5 DEF Execute

LEMMA TakeCommandIInv == ASSUME IInv, TakeCommand PROVE IInv'
<1> USE DEF IInv, TypeOK, QuitEndsKeys, KeysOfBatch, LoopHasTop, QuitLosesNothing, Top
<1>1. /\ pc = "wait" /\ quit = "no" /\ slot \in Command /\ slot' = Empty
      /\ UNCHANGED <<made, loopDone, sender, nilSend>>
  BY DEF TakeCommand, StaysInLoop, goroutines
<1>2. CASE slot.do = "keys"
  <2>1. slot.keys \in Seq(Key)
    BY <1>1, <1>2 DEF Command
  <2>2. QED
    BY <1>1, <1>2, <2>1 DEF TakeCommand, stack
<1>3. CASE slot.do # "keys"
  <2>1. Execute(slot) /\ UNCHANGED <<pc, keys>>
    BY <1>3 DEF TakeCommand
  <2>2. /\ bufs' \in Seq(BOOLEAN) /\ bufs' # <<>>
        /\ quit' \in {"no", "forced"}
        /\ renderRequested' \in BOOLEAN
        /\ exitRequested' = exitRequested
    BY <1>1, <2>1, ExecuteType
  <2>3. keys = <<>>
    BY <1>1
  <2>4. QED
    BY <1>1, <2>1, <2>2, <2>3
<1>4. QED
  BY <1>2, <1>3

LEMMA LeaveProcessCommandsIInv == ASSUME IInv, LeaveProcessCommands PROVE IInv'
BY DEF LeaveProcessCommands, IInv, TypeOK, QuitEndsKeys, KeysOfBatch, LoopHasTop, QuitLosesNothing, Top, stack,
       channel, goroutines

LEMMA EndKeysIInv == ASSUME IInv, EndKeys PROVE IInv'
BY DEF EndKeys, IInv, TypeOK, QuitEndsKeys, KeysOfBatch, LoopHasTop, QuitLosesNothing, Top, channel, goroutines

LEMMA EndLoopIInv == ASSUME IInv, EndLoop PROVE IInv'
BY DEF EndLoop, IInv, TypeOK, QuitEndsKeys, KeysOfBatch, LoopHasTop, QuitLosesNothing, Top, stack, goroutines

LEMMA CloseExtensionsIInv == ASSUME IInv, CloseExtensions PROVE IInv'
BY DEF CloseExtensions, IInv, TypeOK, QuitEndsKeys, KeysOfBatch, LoopHasTop, QuitLosesNothing, Top, stack,
       channel, goroutines

(* A key that does not quit the buffer keeps a non-empty stack. *)
LEMMA KeyEffectType ==
  ASSUME IInv, pc = "keys", NEW k, KeyEffect(k)
  PROVE  bufs' \in Seq(BOOLEAN) /\ bufs' # <<>> /\ exitRequested' \in BOOLEAN
<1>0. bufs \in Seq(BOOLEAN) /\ bufs # <<>> /\ exitRequested \in BOOLEAN
  BY DEF IInv, TypeOK, LoopHasTop
<1>1. exitRequested' \in BOOLEAN
  BY <1>0 DEF KeyEffect, Top
<1>2. CASE bufs' = WithTop(TRUE)
  BY <1>0, <1>1, <1>2, WithTopType DEF WithTop
<1>3. CASE bufs' \in SaveOutcomes
  BY <1>0, <1>1, <1>3, SaveOutcomesType
<1>4. CASE bufs' \in OpenOutcomes
  BY <1>0, <1>1, <1>4, OpenOutcomesType
<1>5. CASE UNCHANGED bufs
  BY <1>0, <1>1, <1>5
<1>6. QED
  BY <1>2, <1>3, <1>4, <1>5 DEF KeyEffect

LEMMA HandleKeyIInv == ASSUME IInv, HandleKey PROVE IInv'
<1> DEFINE k == Head(keys)
<1> USE DEF IInv, TypeOK, QuitEndsKeys, KeysOfBatch, LoopHasTop, QuitLosesNothing
<1>1. /\ pc = "keys" /\ keys # <<>> /\ keys \in Seq(Key) /\ quit = "no"
      /\ UNCHANGED <<pc, renderRequested, made, slot, loopDone, sender, nilSend>>
  BY DEF HandleKey, channel, goroutines
<1>2. CASE Quits(k)
  <2>1. keys' = <<>> /\ quit' = (IF Top THEN "forced" ELSE "clean") /\ UNCHANGED <<bufs, exitRequested>>
    BY <1>2 DEF HandleKey, DropKeys
  <2>2. quit' = "clean" => ~Top'
    BY <2>1 DEF Top
  <2>3. keys' \in Seq(Key)
    BY <2>1, EmptySeq
  <2>4. QED
    BY <1>1, <2>1, <2>2, <2>3
<1>3. CASE ~Quits(k)
  <2>1. keys' = Tail(keys) /\ KeyEffect(k) /\ UNCHANGED quit
    BY <1>3 DEF HandleKey
  <2>2. keys' \in Seq(Key)
    BY <1>1, <2>1
  <2>3. bufs' \in Seq(BOOLEAN) /\ bufs' # <<>> /\ exitRequested' \in BOOLEAN
    BY <1>1, <2>1, KeyEffectType
  <2>4. QED
    BY <1>1, <2>1, <2>2, <2>3
<1>4. QED
  BY <1>2, <1>3

(* The invariant is inductive. *)
LEMMA StepIInv == IInv /\ [Next]_vars => IInv'
<1> SUFFICES ASSUME IInv, [Next]_vars PROVE IInv'
  OBVIOUS
<1>1. CASE Loop
  BY <1>1, StartRunIInv, IterateIInv, TakeCommandIInv, LeaveProcessCommandsIInv, HandleKeyIInv,
     EndKeysIInv, EndLoopIInv, CloseExtensionsIInv DEF Loop
<1>2. CASE \E s \in Senders : Sending(s)
  BY <1>2, SendingIInv
<1>3. CASE UNCHANGED vars
  BY <1>3 DEF vars, stack, channel, goroutines, IInv, TypeOK, QuitEndsKeys, KeysOfBatch, LoopHasTop,
     QuitLosesNothing, Top
<1>4. QED
  BY <1>1, <1>2, <1>3 DEF Next, Terminated

(* Between the quit and the next iteration nothing is executed. *)
LEMMA StepQuitStops ==
  IInv /\ [Next]_vars => [quit # "no" => bufs' \in {bufs, Front(bufs)} /\ keys' = <<>>]_vars
<1> SUFFICES ASSUME IInv, Next, quit # "no"
             PROVE  bufs' \in {bufs, Front(bufs)} /\ keys' = <<>>
  BY DEF vars
<1>1. keys = <<>>
  BY DEF IInv, QuitEndsKeys
<1>2. CASE \E s \in Senders : Sending(s)
  BY <1>1, <1>2 DEF Sending, BeginSend, EndSend, DropSend, StopSender, stack, channel
<1>3. CASE Iterate
  BY <1>1, <1>3 DEF Iterate, stack
<1>4. CASE Loop /\ ~Iterate
  BY <1>1, <1>4 DEF Loop, StartRun, TakeCommand, StaysInLoop, LeaveProcessCommands, HandleKey, EndKeys,
     EndLoop, CloseExtensions, stack
<1>5. CASE Terminated
  BY <1>1, <1>5 DEF Terminated, vars, stack
<1>6. QED
  BY <1>2, <1>3, <1>4, <1>5 DEF Next

-----------------------------------------------------------------------------

(* The invariant holds: types, no keys left by a quit, and a top buffer until the loop is over. *)
THEOREM Invariance == Spec => []IInv
BY InitIInv, StepIInv, PTL DEF Spec

(* Types, and the channels made and closed where Run does, whatever the goroutines send. *)
THEOREM TypeCorrectness == Spec => []TypeOK
<1>1. IInv => TypeOK
  BY DEF IInv
<1>2. QED
  BY <1>1, Invariance, PTL

(* No command or key is executed with an empty stack of buffers: closing the last buffer ends    *)
(* the loop of Run before processCommands is called again.                                       *)
THEOREM TopForCommands == Spec => []CommandsHaveTop
<1>1. IInv => CommandsHaveTop
  BY DEF IInv, LoopHasTop, CommandsHaveTop
<1>2. QED
  BY <1>1, Invariance, PTL

(* A buffer closed with q has no unsaved changes when the loop closes it. *)
THEOREM CleanQuit == Spec => []QuitLosesNothing
<1>1. IInv => QuitLosesNothing
  BY DEF IInv
<1>2. QED
  BY <1>1, Invariance, PTL

(* After the key that quits a buffer no key and no command is executed before it is closed. *)
THEOREM QuitIsImmediate == Spec => QuitStopsCommands
BY Invariance, StepQuitStops, PTL DEF Spec, QuitStopsCommands

=============================================================================
