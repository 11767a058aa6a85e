----------------------------- MODULE UndoStack -----------------------------
(***************************************************************************)
(* What the user is promised of undo and redo: the contents a buffer has   *)
(* gone through, one per step that is undone at once.  An edit makes a new *)
(* step or, while nothing has separated them, extends the last one.        *)
(***************************************************************************)
EXTENDS SequencesExt

CONSTANT Doc   (* the contents *)

VARIABLES
  doc,     (* the content                                                   *)
  past,    (* the contents the undo commands return to, the next one last   *)
  future,  (* the contents the redo commands return to, the next one first  *)
  sealed   (* the next edit is undone separately from the last one          *)

vars == <<doc, past, future, sealed>>

Init ==
  /\ doc \in Doc
  /\ past = <<>>
  /\ future = <<>>
  /\ sealed = FALSE

(* An edit that is a step of its own; what could be redone is dropped. *)
NewStep ==
  /\ doc' \in Doc
  /\ past' = Append(past, doc)
  /\ future' = <<>>
  /\ sealed' \in BOOLEAN

(* An edit that is undone together with the previous one. *)
ExtendStep ==
  /\ ~sealed
  /\ past # <<>>
  /\ future = <<>>
  /\ doc' \in Doc
  /\ UNCHANGED <<past, future, sealed>>

Seal ==
  /\ sealed' = TRUE
  /\ UNCHANGED <<doc, past, future>>

Undo ==
  /\ past # <<>>
  /\ doc' = Last(past)
  /\ past' = Front(past)
  /\ future' = <<doc>> \o future
  /\ UNCHANGED sealed

Redo ==
  /\ future # <<>>
  /\ doc' = Head(future)
  /\ past' = Append(past, doc)
  /\ future' = Tail(future)
  /\ UNCHANGED sealed

(* The content is replaced by the one of the file: nothing is undone past this. *)
Reload ==
  /\ doc' \in Doc
  /\ past' = <<>>
  /\ future' = <<>>
  /\ sealed' = FALSE

Next == NewStep \/ ExtendStep \/ Seal \/ Undo \/ Redo \/ Reload

Spec == Init /\ [][Next]_vars

=============================================================================
