------------------------------ MODULE FileSync ------------------------------
(***************************************************************************)
(* The buffers of text files and the files they are loaded from: opening,  *)
(* editing, saving, and the reload of a file that has changed              *)
(* (editor/stack.go, editor/filewatch.go, editor/cmd.go, content/save.go). *)
(*                                                                         *)
(* Three parties write here.  The loop of the editor owns the buffers and  *)
(* writes files.  Other programs write the same files.  The goroutine of   *)
(* the file watcher reads a file that has changed, some time after, and    *)
(* sends the data it has read to the loop as a command, which the loop     *)
(* runs later still: by then both the file and the buffer may have moved   *)
(* on.  The watcher itself is a library; it is modelled by what the editor *)
(* uses of it: after a change of a watched file it calls back, once for    *)
(* the changes made so far, and one callback at a time.                    *)
(*                                                                         *)
(* The content of a file is a model value: the fingerprints of two         *)
(* contents are equal only if the contents are.                            *)
(***************************************************************************)
EXTENDS Naturals, SequencesExt

CONSTANTS
  Paths,        (* the files                                                              *)
  Contents,     (* what a file may contain                                                *)
  Blank,        (* the empty content                                                      *)
  Foreign,      (* the files that other programs write                                    *)
  GapWrites,    (* whether they may do so between the load of a file and its watch        *)
  WatchFails    (* whether the watch of a file may fail                                   *)

ASSUME ContentsAssumption == Blank \in Contents
ASSUME ForeignAssumption == Foreign \subseteq Paths /\ {GapWrites, WatchFails} \subseteq BOOLEAN

CONSTANTS Absent,     (* the content of a file that does not exist                        *)
          NoPrint,    (* the fingerprint of a buffer that was never loaded or saved       *)
          Listing,    (* the directory listing che is started with, the first buffer      *)
          Elsewhere   (* a path that is not in Paths, for the saves of :w path            *)

ASSUME DistinctAssumption ==
  /\ Absent \notin Contents \cup Paths
  /\ NoPrint \notin Contents
  /\ Listing \notin Paths
  /\ Elsewhere \notin Paths

VARIABLES
  disk,      (* disk[p]: the content of the file                                          *)
  stack,     (* bufs: the open buffers, by path; the top one is the last                  *)
  text,      (* text[p]: the content of the buffer                                        *)
  dirty,     (* dirty[p]: the flag of the same name                                       *)
  print,     (* print[p]: srcFingerprint                                                  *)
  watched,   (* the buffers whose unwatch is set                                          *)
  opening,   (* the buffer that OpenFile has loaded and does not watch yet, or Absent     *)
  event,     (* the watched files with changes the watcher has not reported yet           *)
  reloads    (* the reloads sent and not run yet: one in cmdChannel, one in a blocked     *)
             (* Send; each names the buffer, or Absent if it is closed since              *)

loop == <<stack, text, dirty, print, watched, opening>>
vars == <<disk, loop, event, reloads>>

Open == Range(stack) \ {Listing}
Top == Last(stack)

Init ==
  /\ disk \in [Paths -> Contents \cup {Absent}]
  /\ stack = <<Listing>>
  /\ text = [p \in Paths |-> Blank]
  /\ dirty = [p \in Paths |-> FALSE]
  /\ print = [p \in Paths |-> NoPrint]
  /\ watched = {}
  /\ opening = Absent
  /\ event = {}
  /\ reloads = <<>>

-----------------------------------------------------------------------------
(* Other programs. *)

(* Another program writes a file, or removes it; the watcher notices. *)
ForeignWrite(p) ==
  /\ p \in Foreign
  /\ GapWrites \/ opening # p
  /\ \E c \in (Contents \cup {Absent}) \ {disk[p]} : disk' = [disk EXCEPT ![p] = c]
  /\ event' = event \cup ({p} \cap watched)
  /\ UNCHANGED <<loop, reloads>>

-----------------------------------------------------------------------------
(* Saving. *)

(* Save of the buffer p to the path dst: the formatter may change the text to c, then the file   *)
(* is written or not.  The error is dropped.  The fingerprint is the one of what was written to  *)
(* the buffer's own file; as a mutant, whatever the file.                                        *)
AnyPath(p, dst) == TRUE
SamePath(p, dst) == p = dst

SaveTo(p, dst) ==
  \E c \in Contents, ok \in BOOLEAN :
    /\ text' = [text EXCEPT ![p] = c]
    /\ IF ok
         THEN /\ dirty' = [dirty EXCEPT ![p] = FALSE]
              /\ disk' = IF dst = Elsewhere THEN disk ELSE [disk EXCEPT ![dst] = c]
              /\ print' = IF SamePath(p, dst) THEN [print EXCEPT ![p] = c] ELSE print
              /\ event' = event \cup ({dst} \cap watched)
         ELSE /\ dirty' = [dirty EXCEPT ![p] = @ \/ c # text[p]]
              /\ UNCHANGED <<disk, print, event>>

SaveNothing == UNCHANGED <<text, dirty, disk, print, event>>

(* saveTop: the top buffer is saved if it has unsaved changes. *)
SaveTop == IF Top # Listing /\ dirty[Top] THEN SaveTo(Top, Top) ELSE SaveNothing

-----------------------------------------------------------------------------
(* The stack of buffers: what the loop runs. *)

(* OpenFile is not in the middle of opening a file. *)
Ready == opening = Absent

(* selectBuffer: the i-th buffer becomes the top one; the one that was is saved first. *)
Select(i) ==
  /\ Ready
  /\ SaveTop
  /\ stack' = Append(RemoveAt(stack, i), stack[i])
  /\ UNCHANGED <<watched, opening, reloads>>

(* OpenFile reads the file of a buffer that is not open; a file that does not exist gets an      *)
(* empty buffer.                                                                                 *)
Load(p) ==
  /\ Ready
  /\ p \notin Range(stack)
  /\ opening' = p
  /\ text' = [text EXCEPT ![p] = IF disk[p] = Absent THEN Blank ELSE disk[p]]
  /\ print' = [print EXCEPT ![p] = IF disk[p] = Absent THEN NoPrint ELSE disk[p]]
  /\ dirty' = [dirty EXCEPT ![p] = FALSE]
  /\ UNCHANGED <<disk, stack, watched, event, reloads>>

(* The new buffer is pushed on the stack, after the top one is saved.  The one of a file that    *)
(* does not exist is not watched.                                                                *)
Push ==
  /\ ~Ready
  /\ opening \notin Range(stack)
  /\ SaveTop
  /\ stack' = Append(stack, opening)
  /\ opening' = IF print[opening] = NoPrint THEN Absent ELSE opening
  /\ UNCHANGED <<watched, reloads>>

(* watchFile starts the watch, unless the watcher fails. *)
Watch ==
  /\ ~Ready
  /\ opening \in Range(stack)
  /\ \/ watched' = watched \cup {opening}
     \/ WatchFails /\ watched' = watched
  /\ opening' = Absent
  /\ UNCHANGED <<disk, stack, text, dirty, print, event, reloads>>

(* An edit, an undo or a paste in the top buffer. *)
Edit ==
  /\ Ready
  /\ Top # Listing
  /\ \E c \in Contents : text' = [text EXCEPT ![Top] = c]
  /\ dirty' = [dirty EXCEPT ![Top] = TRUE]
  /\ UNCHANGED <<disk, stack, print, watched, opening, event, reloads>>

(* Ctrl+S, :w and :w path. *)
Save(dst) ==
  /\ Ready
  /\ Top # Listing
  /\ SaveTo(Top, dst)
  /\ UNCHANGED <<stack, watched, opening, reloads>>

(* The terminal loses focus. *)
FocusOut ==
  /\ Ready
  /\ SaveTop
  /\ UNCHANGED <<stack, watched, opening, reloads>>

(* The watch of a closed buffer is stopped; as a mutant, it goes on. *)
KeepWatch(p) == UNCHANGED <<watched, event>>

StopWatch(p) ==
  /\ watched' = watched \ {p}
  /\ event' = event \ {p}

(* q closes the top buffer if it has no unsaved changes, :q whatever they are.  The reloads on   *)
(* their way keep a reference to a buffer that is not in the stack.                              *)
Close ==
  /\ Ready
  /\ Top # Listing
  /\ stack' = Front(stack)
  /\ StopWatch(Top)
  /\ reloads' = [i \in DOMAIN reloads |->
                   IF reloads[i].buf = Top THEN [reloads[i] EXCEPT !.buf = Absent] ELSE reloads[i]]
  /\ text' = [text EXCEPT ![Top] = Blank]
  /\ dirty' = [dirty EXCEPT ![Top] = FALSE]
  /\ print' = [print EXCEPT ![Top] = NoPrint]
  /\ UNCHANGED <<disk, opening>>

-----------------------------------------------------------------------------
(* The reload of a changed file. *)

(* The callback of the watcher reads the file and sends the reload; it cannot read a file that   *)
(* was removed.  The callbacks are run one at a time: the next one waits for a blocked Send.  As *)
(* a mutant, the reload is dropped when the loop is busy.                                        *)
SendOrDrop(p) ==
  IF disk[p] = Absent \/ reloads # <<>>
    THEN UNCHANGED reloads
    ELSE reloads' = Append(reloads, [buf |-> p, data |-> disk[p]])

SendReload(p) ==
  IF disk[p] = Absent
    THEN UNCHANGED reloads
    ELSE reloads' = Append(reloads, [buf |-> p, data |-> disk[p]])

ReadChanged(p) ==
  /\ p \in event
  /\ Len(reloads) < 2
  /\ event' = event \ {p}
  /\ SendReload(p)
  /\ UNCHANGED <<disk, loop>>

(* reloadBuffer: the reload of a closed buffer, or one of the content that was last loaded or    *)
(* saved, is ignored; another one replaces the text, and the unsaved changes with it.            *)
Reload ==
  /\ Ready
  /\ reloads # <<>>
  /\ reloads' = Tail(reloads)
  /\ LET p == Head(reloads).buf
         data == Head(reloads).data
     IN  IF p = Absent \/ data = print[p]
           THEN UNCHANGED <<text, dirty, print>>
           ELSE /\ text' = [text EXCEPT ![p] = data]
                /\ dirty' = [dirty EXCEPT ![p] = FALSE]
                /\ print' = [print EXCEPT ![p] = data]
  /\ UNCHANGED <<disk, stack, watched, opening, event>>

-----------------------------------------------------------------------------

Next ==
  \/ \E p \in Paths : ForeignWrite(p) \/ Load(p) \/ ReadChanged(p)
  \/ \E i \in 1 .. Len(stack) - 1 : Select(i)
  \/ \E dst \in Paths \cup {Elsewhere} : Save(dst)
  \/ Push \/ Watch \/ Edit \/ FocusOut \/ Close \/ Reload

(* The loop finishes what it has begun.  It gets to the reload among the other commands, and the  *)
(* watcher to a changed file among the others: both are queued, so what is enabled again and     *)
(* again is not passed over forever.  Nobody has to type or to write.                            *)
Fairness ==
  /\ WF_vars(Push)
  /\ WF_vars(Watch)
  /\ SF_vars(Reload)
  /\ \A p \in Paths : SF_vars(ReadChanged(p))

Spec == Init /\ [][Next]_vars /\ Fairness

-----------------------------------------------------------------------------
(* Properties. *)

TypeOK ==
  /\ disk \in [Paths -> Contents \cup {Absent}]
  /\ stack \in Seq(Paths \cup {Listing})
  /\ stack # <<>>
  /\ IsInjective(stack)   \* a file is open once
  /\ text \in [Paths -> Contents]
  /\ dirty \in [Paths -> BOOLEAN]
  /\ print \in [Paths -> Contents \cup {NoPrint}]
  /\ watched \subseteq Open
  /\ opening \in Paths \cup {Absent}
  /\ event \subseteq watched
  /\ reloads \in Seq([buf : Open \cup {Absent}, data : Contents])
  /\ Len(reloads) \leq 2

(* A reload of the buffer p with the content of its file is on its way, or will be. *)
Noticed(p) ==
  \/ p \in event
  \/ \E i \in DOMAIN reloads : reloads[i].buf = p /\ reloads[i].data = disk[p]

(* The fingerprint of a watched buffer is the one of its file, unless a change is on its way to  *)
(* the loop: no order of saves, foreign writes and late reloads leaves the buffer on a content   *)
(* that nothing would correct.                                                                   *)
StaleIsNoticed ==
  \A p \in watched : print[p] = disk[p] \/ disk[p] = Absent \/ Noticed(p)

(* Once a watched file is not written any more, its buffer ends with the fingerprint of it.      *)
Converges ==
  <>[][FALSE]_disk =>
    \A p \in Paths : <>[](p \in watched => print[p] = disk[p] \/ disk[p] = Absent)

(* A file is reloaded if it is changed outside the editor: the saves of the editor alone never   *)
(* replace the text of the buffer.                                                               *)
OwnSavesKeepText == [][Foreign = {} /\ Reload => UNCHANGED text]_vars

=============================================================================
