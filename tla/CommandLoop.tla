---------------------------- MODULE CommandLoop ----------------------------
(***************************************************************************)
(* The command loop of the editor: the goroutine of Editor.Run, the        *)
(* goroutines that submit commands to it with Editor.Send, and the         *)
(* shutdown that releases them (editor/loop.go, editor/edit.go,            *)
(* editor/input.go).                                                       *)
(*                                                                         *)
(* The editor state is owned by the loop: a goroutine that wants to change *)
(* it sends a command over cmdChannel, which holds a single command, and   *)
(* waits for the room in it, or for the end of the loop.  The channel is   *)
(* made by Run, so a goroutine that calls Send before sends to a nil       *)
(* channel, which blocks until the loop is over.                           *)
(*                                                                         *)
(* A buffer is abstracted to its dirty flag: the loop looks at nothing     *)
(* else of it to decide whether it may be closed.  A command is            *)
(* abstracted to what it does to the loop and to the stack of buffers.     *)
(***************************************************************************)
EXTENDS Naturals, SequencesExt

CONSTANTS
  Senders,       (* the goroutines calling Editor.Send                      *)
  ExtSenders,    (* those an extension waits for in its Close               *)
  EarlySenders,  (* those that may call Send before Run makes the channel   *)
  Sends,         (* Sends[s]: the commands the goroutine s submits          *)
  MaxBuffers     (* bound on the buffers open at once                       *)

(* What a key of a batch read from the terminal does.  "type" edits the top buffer, "save" is    *)
(* Ctrl+S, "open" covers the keys opening or activating a buffer, "close" is q, "forceClose"     *)
(* is :q with Enter, "exit" is Ctrl+Q, and "move" is any key that changes nothing modelled here. *)
Key == {"type", "save", "open", "close", "forceClose", "exit", "move"}

(* What a command does.  "keys" carries a batch of keys; "edit" is SendBufferCmd, a paste or     *)
(* the edits of an extension; "open" is GoTo or a file opened remotely; "reload" replaces the    *)
(* content of a buffer whose file has changed; "render" only requests a render.                  *)
Command == [do : {"keys"}, keys : Seq(Key)]
             \cup [do : {"edit", "open", "reload", "render", "quitAll"}]

(* No command is waiting in the channel. *)
Empty == [do |-> "none"]

(* Where a goroutine is when it is not inside Send. *)
Idle == [do |-> "idle"]
Stopped == [do |-> "stopped"]

ASSUME SendersAssumption ==
  /\ ExtSenders \subseteq Senders
  /\ EarlySenders \subseteq Senders
  /\ \A s \in Senders : Sends[s] \subseteq Command

ASSUME MaxBuffersAssumption == MaxBuffers \in Nat \ {0}

VARIABLES
  pc,              (* the goroutine of Run: "setup" before Run, then "top" of its for loop,  *)
                   (* "wait" in processCommands, "keys" within handleKeys, "over" when the   *)
                   (* for loop ends, "ext" when the extensions are closed, and "done"        *)
  keys,            (* the keys handleKeys has yet to handle                                  *)
  bufs,            (* the dirty flags of the stack of buffers, the top one is the last       *)
  quit,            (* quitRequested: "no", or what requested it: "clean" a key closing a     *)
                   (* buffer without unsaved changes, "forced" :q or the quit of everything  *)
  exitRequested,
  renderRequested,
  made,            (* Run has made cmdChannel                                                *)
  slot,            (* the command in cmdChannel, or Empty                                    *)
  loopDone,        (* the channel of the same name is closed                                 *)
  sender,          (* the command each goroutine is sending, or Idle, or Stopped             *)
  nilSend          (* the goroutines in a Send that has seen a nil cmdChannel                *)

stack == <<bufs, quit, exitRequested, renderRequested>>
channel == <<made, slot, loopDone>>
goroutines == <<sender, nilSend>>
vars == <<pc, keys, stack, channel, goroutines>>

Init ==
  /\ pc = "setup"
  /\ keys = <<>>
  /\ bufs = <<FALSE>>   \* main has opened something before Run
  /\ quit = "no"
  /\ exitRequested = FALSE
  /\ renderRequested = FALSE
  /\ made = FALSE
  /\ slot = Empty
  /\ loopDone = FALSE
  /\ sender = [s \in Senders |-> Idle]
  /\ nilSend = {}

-----------------------------------------------------------------------------
(* The stack of buffers. *)

Top == Last(bufs)

(* The stack with the dirty flag of the top buffer set to d. *)
WithTop(d) == [bufs EXCEPT ![Len(bufs)] = d]

(* The results of saving the top buffer: there is no path to write to; it is written; or the     *)
(* write fails, and the changes stay unsaved, with those of the formatting before it.            *)
SaveOutcomes == {bufs, WithTop(FALSE), WithTop(TRUE)}

(* A buffer of the stack s below the top one is moved to the top, or a new one is pushed on s. *)
Activated(s) == { Append(RemoveAt(s, i), s[i]) : i \in 1 .. Len(s) - 1 }
Pushed(s) == IF Len(s) < MaxBuffers THEN { Append(s, FALSE) } ELSE {}

(* The results of opening a file: it is the top buffer already, or the top one is saved and it   *)
(* becomes the top one, whether it is open or not.                                               *)
OpenOutcomes == {bufs} \cup UNION { Activated(s) \cup Pushed(s) : s \in SaveOutcomes }

-----------------------------------------------------------------------------
(* Senders. *)

(* A goroutine calls Send.  It evaluates cmdChannel once, before it waits. *)
BeginSend(s) ==
  /\ sender[s] = Idle
  /\ made \/ s \in EarlySenders
  /\ \E c \in Sends[s] : sender' = [sender EXCEPT ![s] = c]
  /\ nilSend' = IF made THEN nilSend ELSE nilSend \cup {s}
  /\ UNCHANGED <<pc, keys, stack, channel>>

(* The goroutine reading the input ends after the command that closes everything; the others     *)
(* go on to their next event.                                                                    *)
AfterSend(c) == IF c.do = "quitAll" THEN Stopped ELSE Idle

(* The channel takes the command. *)
EndSend(s) ==
  /\ sender[s] \in Command
  /\ s \notin nilSend
  /\ slot = Empty
  /\ slot' = sender[s]
  /\ sender' = [sender EXCEPT ![s] = AfterSend(sender[s])]
  /\ UNCHANGED <<pc, keys, stack, made, loopDone, nilSend>>

(* The loop is over: the command is dropped; as a mutant, Send only waits for the channel. *)
WaitForChannelOnly(s) == FALSE /\ UNCHANGED vars

DropSend(s) ==
  /\ sender[s] \in Command
  /\ loopDone
  /\ sender' = [sender EXCEPT ![s] = AfterSend(sender[s])]
  /\ nilSend' = nilSend \ {s}
  /\ UNCHANGED <<pc, keys, stack, channel>>

(* A goroutine with nothing to send sees that its context is cancelled by the end of Run, or by  *)
(* the Close of its extension.                                                                   *)
StopSender(s) ==
  /\ sender[s] = Idle
  /\ pc \in {"over", "ext", "done"}
  /\ sender' = [sender EXCEPT ![s] = Stopped]
  /\ UNCHANGED <<pc, keys, stack, channel, nilSend>>

-----------------------------------------------------------------------------
(* The loop. *)

(* Run makes the channel, starts the goroutines reading the input and the window changes, and    *)
(* enters the loop.                                                                              *)
StartRun ==
  /\ pc = "setup"
  /\ pc' = "top"
  /\ made' = TRUE
  /\ renderRequested' = TRUE
  /\ UNCHANGED <<keys, bufs, quit, exitRequested, slot, loopDone, goroutines>>

(* Whether the loop ends with the buffer it has just closed; as a mutant, only Ctrl+Q ends it. *)
NeverEmpty == FALSE
StackEmptied == bufs' = <<>>

(* One iteration of the for loop up to processCommands: the exit, or the quit of the top buffer, *)
(* which ends the loop if it was the last one, and the render.                                   *)
Iterate ==
  /\ pc = "top"
  /\ \/ /\ exitRequested
        /\ pc' = "over"
        /\ UNCHANGED stack
     \/ /\ ~exitRequested
        /\ bufs' = IF quit = "no" THEN bufs ELSE Front(bufs)
        /\ IF StackEmptied
             THEN /\ pc' = "over"
                  /\ UNCHANGED <<quit, renderRequested>>
             ELSE /\ pc' = "wait"
                  /\ quit' = "no"
                  /\ renderRequested' = FALSE
        /\ UNCHANGED exitRequested
  /\ UNCHANGED <<keys, channel, goroutines>>

(* The commands that are not a batch of keys. *)

(* execBufferCmd, which a command sent with SendBufferCmd calls. *)
EditTop ==
  /\ bufs' = WithTop(TRUE)
  /\ renderRequested' = TRUE
  /\ UNCHANGED quit

(* GoTo, and the files opened remotely. *)
OpenPath ==
  /\ bufs' \in OpenOutcomes
  /\ renderRequested' = TRUE
  /\ UNCHANGED quit

(* reloadBuffer: nothing is done if the buffer is closed, or its file is as it was. *)
ReloadBuffer ==
  \/ /\ \E i \in DOMAIN bufs : bufs' = [bufs EXCEPT ![i] = FALSE]
     /\ renderRequested' = TRUE
     /\ UNCHANGED quit
  \/ UNCHANGED <<bufs, renderRequested, quit>>

RequestRender ==
  /\ renderRequested' = TRUE
  /\ UNCHANGED <<bufs, quit>>

(* commandQuitAll leaves the first buffer to the loop. *)
QuitAll ==
  /\ bufs' = <<Head(bufs)>>
  /\ quit' = "forced"
  /\ UNCHANGED renderRequested

Execute(c) ==
  /\ \/ c.do = "edit" /\ EditTop
     \/ c.do = "open" /\ OpenPath
     \/ c.do = "reload" /\ ReloadBuffer
     \/ c.do = "render" /\ RequestRender
     \/ c.do = "quitAll" /\ QuitAll
  /\ UNCHANGED exitRequested

(* The condition of the loop in processCommands; as a mutant, it only stops on the timer. *)
LoopWithoutCondition == TRUE
StaysInLoop == quit = "no"

(* processCommands receives a command and runs it; a batch of keys is run key by key. *)
TakeCommand ==
  /\ pc = "wait"
  /\ StaysInLoop
  /\ slot # Empty
  /\ slot' = Empty
  /\ IF slot.do = "keys"
       THEN /\ pc' = "keys"
            /\ keys' = slot.keys
            /\ UNCHANGED stack
       ELSE /\ Execute(slot)
            /\ UNCHANGED <<pc, keys>>
  /\ UNCHANGED <<made, loopDone, goroutines>>

(* processCommands returns when a quit is requested, or when the render timer fires; as a        *)
(* mutant, it goes on while there are commands to run.                                           *)
LeaveWhenIdle ==
  /\ pc = "wait"
  /\ slot = Empty \/ quit # "no"
  /\ pc' = "top"
  /\ UNCHANGED <<keys, stack, channel, goroutines>>

LeaveProcessCommands ==
  /\ pc = "wait"
  /\ pc' = "top"
  /\ UNCHANGED <<keys, stack, channel, goroutines>>

(* The keys of the batch that quit the top buffer: :q always does, q only without changes. *)
Quits(k) == k = "forceClose" \/ (k = "close" /\ ~Top)

(* handleKey for a key that does not quit the buffer. *)
KeyEffect(k) ==
  /\ \/ k = "type" /\ bufs' = WithTop(TRUE)
     \/ k = "save" /\ bufs' \in SaveOutcomes
     \/ k = "open" /\ bufs' \in OpenOutcomes
     \/ k \in {"close", "exit", "move"} /\ UNCHANGED bufs
  /\ exitRequested' = IF k = "exit" THEN ~Top ELSE exitRequested

(* handleKeys returns at the key that quits; as a mutant, it goes on with the rest of the keys. *)
KeepKeys == keys' = Tail(keys)
DropKeys == keys' = <<>>

(* handleKeys handles the next key of the batch. *)
HandleKey ==
  /\ pc = "keys"
  /\ keys # <<>>
  /\ LET k == Head(keys) IN
       IF Quits(k)
         THEN /\ DropKeys
              /\ quit' = IF Top THEN "forced" ELSE "clean"
              /\ UNCHANGED <<bufs, exitRequested>>
         ELSE /\ keys' = Tail(keys)
              /\ KeyEffect(k)
              /\ UNCHANGED quit
  /\ UNCHANGED <<pc, renderRequested, channel, goroutines>>

(* handleKeys returns; it requests a render unless a key has quit the buffer. *)
EndKeys ==
  /\ pc = "keys"
  /\ keys = <<>>
  /\ pc' = "wait"
  /\ renderRequested' = (renderRequested \/ quit = "no")
  /\ UNCHANGED <<keys, bufs, quit, exitRequested, channel, goroutines>>

-----------------------------------------------------------------------------
(* Shutdown: the deferred function of Run. *)

(* loopDone is closed before the extensions are; as a mutant, only after them. *)
EndLoopKeepingDone ==
  /\ pc = "over"
  /\ pc' = "ext"
  /\ UNCHANGED <<keys, stack, channel, goroutines>>

EndLoop ==
  /\ pc = "over"
  /\ pc' = "ext"
  /\ loopDone' = TRUE
  /\ UNCHANGED <<keys, stack, made, slot, goroutines>>

(* The extensions are closed: Close waits for their goroutines.  The watcher is closed last. *)
CloseExtensions ==
  /\ pc = "ext"
  /\ \A s \in ExtSenders : sender[s] = Stopped
  /\ pc' = "done"
  /\ UNCHANGED <<keys, stack, channel, goroutines>>

(* Nothing is left to do. *)
Terminated ==
  /\ pc = "done"
  /\ \A s \in Senders : sender[s] = Stopped
  /\ UNCHANGED vars

-----------------------------------------------------------------------------

Loop == StartRun \/ Iterate \/ TakeCommand \/ LeaveProcessCommands \/ HandleKey \/ EndKeys
          \/ EndLoop \/ CloseExtensions

Sending(s) == BeginSend(s) \/ EndSend(s) \/ DropSend(s) \/ StopSender(s)

Next == Loop \/ (\E s \in Senders : Sending(s)) \/ Terminated

(* The goroutine of Run is scheduled.  processCommands chooses at random between the command and *)
(* the timer when both are ready, so neither is passed over forever; a blocked sender is served  *)
(* in its turn: the runtime queues the goroutines waiting on a channel.  A goroutine whose        *)
(* context is cancelled stops: its select does not choose the next event over it forever.        *)
(* Nothing makes a goroutine send.                                                               *)
Fairness ==
  /\ WF_vars(Loop)
  /\ SF_vars(TakeCommand)
  /\ SF_vars(LeaveProcessCommands)
  /\ \A s \in Senders :
       /\ SF_vars(EndSend(s))
       /\ WF_vars(DropSend(s))
       /\ SF_vars(StopSender(s))

Spec == Init /\ [][Next]_vars /\ Fairness

-----------------------------------------------------------------------------
(* Properties. *)

(* Types; the channels are made and closed by Run alone, at the places it goes through once. *)
TypeOK ==
  /\ pc \in {"setup", "top", "wait", "keys", "over", "ext", "done"}
  /\ made \in BOOLEAN
  /\ made <=> pc # "setup"
  /\ loopDone \in BOOLEAN
  /\ loopDone <=> pc \in {"ext", "done"}
  /\ keys \in Seq(Key)
  /\ bufs \in Seq(BOOLEAN)
  /\ quit \in {"no", "clean", "forced"}
  /\ exitRequested \in BOOLEAN
  /\ renderRequested \in BOOLEAN
  /\ slot \in Command \cup {Empty}
  /\ sender \in [Senders -> Command \cup {Idle, Stopped}]
  /\ nilSend \subseteq Senders

(* While commands are run there is a top buffer: closing the last one ends the loop before any   *)
(* command finds an empty stack (Editor.Top returns nil there, and most callers do not check).   *)
CommandsHaveTop == pc \in {"wait", "keys"} => bufs # <<>>

(* A buffer closed with q has no unsaved changes, whatever the goroutines have sent between the  *)
(* key and the moment the loop closes the buffer.                                                *)
QuitLosesNothing == quit = "clean" /\ bufs # <<>> => ~Top

(* Between the request to quit and the next iteration of the loop nothing is executed: the keys  *)
(* after the one quitting the buffer are ignored, and the buffer that is closed is the one the   *)
(* quit was asked for.                                                                           *)
QuitStopsCommands == [][quit # "no" => bufs' \in {bufs, Front(bufs)} /\ keys' = <<>>]_vars

(* Every Send returns: its command is taken by the loop, or dropped because the loop is over.    *)
(* One that came before the channel was made only returns when the loop is over.                 *)
SendReturns ==
  \A s \in Senders : sender[s] \in Command /\ s \notin nilSend ~> sender[s] \notin Command

(* Once the loop ends, Run returns: closing the extensions does not wait for goroutines that     *)
(* wait for the loop.                                                                            *)
RunReturns == pc = "over" ~> pc = "done"

(* A requested render happens, however many commands arrive, unless the loop ends first.         *)
RenderHappens == renderRequested ~> (~renderRequested \/ pc \in {"over", "ext", "done"})

=============================================================================
