--------------------------- MODULE ChangeHistory ---------------------------
(***************************************************************************)
(* The change tracker of a text buffer, which undo and redo are made of    *)
(* (content/change/list.go, and the callers in editor/buffer.go).          *)
(*                                                                         *)
(* Every change of the content goes through the tracker, which records it  *)
(* in the last group of changes or in a new one.  The groups up to         *)
(* currentPos are applied to the content; those after it may be redone.    *)
(* The columns of the changes only serve the cursor, and are left out.     *)
(***************************************************************************)
EXTENDS Integers, SequencesExt

CONSTANTS
  Line,      (* the lines of text                                           *)
  Loaded,    (* the contents a file is loaded with                          *)
  MaxLen,    (* bound on the length of a content                            *)
  MaxItems   (* bound on the changes kept in the list                       *)

ASSUME BoundsAssumption == {MaxLen, MaxItems} \subseteq Nat \ {0}

(* A document always has a line, if only an empty one. *)
Doc == UNION { [1 .. n -> Line] : n \in 1 .. MaxLen }

ASSUME LoadedAssumption == Loaded \subseteq Doc

(* An Item: the lines old, from the index pos on, are replaced with the lines new.  The old ones  *)
(* are empty for an insert, the new ones for a delete, and each is a single line for an update.   *)
Item == [op : {"update", "delete", "insert"}, pos : 1 .. MaxLen + 1, old : Seq(Line), new : Seq(Line)]

VARIABLES
  base,     (* list.Base                                                    *)
  tracker   (* doc: the tracked content; edits: the groups of list.Edits;   *)
            (* currentPos; groupRequested; and made: the tracker exists     *)

vars == <<base, tracker>>

Fresh(d, made) ==
  [doc |-> d, edits |-> <<>>, currentPos |-> 0, groupRequested |-> FALSE, made |-> made]

Init ==
  /\ base \in Loaded
  /\ tracker = Fresh(base, FALSE)

-----------------------------------------------------------------------------
(* Items and groups. *)

Replace(doc, pos, len, lines) == SubSeq(doc, 1, pos - 1) \o lines \o SubSeq(doc, pos + len, Len(doc))

Apply(doc, item) == Replace(doc, item.pos, Len(item.old), item.new)
Revert(doc, item) == Replace(doc, item.pos, Len(item.new), item.old)

ApplyGroup(doc, group) == FoldLeft(Apply, doc, group)

(* The changes of a group are reverted backwards; as a mutant, in their order. *)
RevertForward(doc, group) == FoldLeft(Revert, doc, group)
RevertGroup(doc, group) == FoldLeft(Revert, doc, Reverse(group))

(* Replay of the first n groups. *)
Replay(n) == FoldLeft(ApplyGroup, base, SubSeq(tracker.edits, 1, n))

-----------------------------------------------------------------------------
(* The tracker: the operators take it in a state t and return it in the next one. *)

(* How many groups are applied.  There is a position before there is a group. *)
Applied(t) == IF t.currentPos < Len(t.edits) THEN t.currentPos + 1 ELSE Len(t.edits)

(* A new group drops the groups that were undone; as a mutant, it keeps them. *)
AppendGroup(t, item) ==
  [t EXCEPT !.edits = Append(@, <<item>>), !.currentPos = Len(t.edits), !.groupRequested = FALSE]

StartNewGroup(t, item) ==
  LET edits == Append(SubSeq(t.edits, 1, Applied(t)), <<item>>) IN
    [t EXCEPT !.edits = edits, !.currentPos = Len(edits) - 1, !.groupRequested = FALSE]

(* An update of the line that was updated last is merged into that update, which keeps its old    *)
(* line.                                                                                          *)
MergeUpdate(group, item) == Append(Front(group), [Last(group) EXCEPT !.new = item.new])

AddToGroup(group, item) ==
  IF item.op = "update" /\ Last(group).op = "update" /\ Last(group).pos = item.pos
    THEN MergeUpdate(group, item)
    ELSE Append(group, item)

(* trackChange: late says that maxGroupDelay has passed since the last change of the last group.  *)
TrackChange(t, item, late) ==
  LET l == Len(t.edits) IN
    IF l = 0 \/ t.currentPos # l - 1 \/ t.groupRequested \/ late
      THEN StartNewGroup(t, item)
      ELSE [t EXCEPT !.edits[l] = AddToGroup(@, item)]

(* Insert, Update and Delete. *)
Change(t, item, late) == TrackChange([t EXCEPT !.doc = Apply(@, item), !.made = TRUE], item, late)

(* The changes that may be made to a content: Insert and Delete return early if they are given no *)
(* lines, and a content keeps a line.                                                             *)
Updates(doc) ==
  { [op |-> "update", pos |-> p, old |-> <<doc[p]>>, new |-> <<l>>] : p \in DOMAIN doc, l \in Line }

Inserts(doc) ==
  { [op |-> "insert", pos |-> p, old |-> <<>>, new |-> lines] :
      p \in 1 .. Len(doc) + 1, lines \in UNION { [1 .. n -> Line] : n \in 1 .. MaxLen - Len(doc) } }

Delete(doc, p, q) == [op |-> "delete", pos |-> p, old |-> SubSeq(doc, p, q), new |-> <<>>]

Deletes(doc) ==
  (UNION { { Delete(doc, p, q) : q \in p .. Len(doc) } : p \in DOMAIN doc }) \ { Delete(doc, 1, Len(doc)) }

Changes(doc) == Updates(doc) \cup Inserts(doc) \cup Deletes(doc)

(* An edit command is one change, or two: DeleteSpan and InsertText update a line, and delete or  *)
(* insert the lines after it.  The second one is not late.                                        *)
Twice(t, late) ==
  UNION { { Change(u, c, FALSE) : c \in Inserts(u.doc) \cup Deletes(u.doc) } :
            u \in { Change(t, c, late) : c \in Updates(t.doc) } }

Edited(t, late) == { Change(t, c, late) : c \in Changes(t.doc) } \cup Twice(t, late)

Split(t) == [t EXCEPT !.groupRequested = TRUE, !.made = TRUE]

InBounds(t) == Len(FlattenSeq(t.edits)) \leq MaxItems

-----------------------------------------------------------------------------
(* What a buffer does. *)

(* An edit through Mutate, as typing does. *)
Edit ==
  /\ \E late \in BOOLEAN : tracker' \in Edited(tracker, late)
  /\ InBounds(tracker')
  /\ UNCHANGED base

(* MutateAsGroup: a paste, the edits of a formatter, the replacements of a search.                *)
Grouped(t) == { Split(u) : u \in Edited(Split(t), FALSE) }

EditAsGroup ==
  /\ tracker' \in Grouped(tracker)
  /\ InBounds(tracker')
  /\ UNCHANGED base

(* setMode, to another mode: nothing is to be separated before the first change. *)
SetMode ==
  /\ tracker.made
  /\ tracker' = Split(tracker)
  /\ UNCHANGED base

HasUndo == tracker.edits # <<>> /\ tracker.currentPos >= 0
HasRedo == tracker.currentPos < Len(tracker.edits) - 1

(* A command with nothing to undo or redo makes the tracker all the same. *)
NothingDone == tracker' = [tracker EXCEPT !.made = TRUE]

Undo ==
  /\ LET n == tracker.currentPos + 1 IN
       IF HasUndo
         THEN tracker' = [tracker EXCEPT !.doc = RevertGroup(@, tracker.edits[n]), !.currentPos = @ - 1]
         ELSE NothingDone
  /\ UNCHANGED base

Redo ==
  /\ LET n == tracker.currentPos + 2 IN
       IF HasRedo
         THEN tracker' = [tracker EXCEPT !.doc = ApplyGroup(@, tracker.edits[n]), !.currentPos = @ + 1]
         ELSE NothingDone
  /\ UNCHANGED base

(* replaceContent: the next change makes a new tracker, with a list of its own. *)
ReplaceContent ==
  /\ base' \in Loaded
  /\ tracker' = Fresh(base', FALSE)

Next == Edit \/ EditAsGroup \/ SetMode \/ Undo \/ Redo \/ ReplaceContent

Spec == Init /\ [][Next]_vars

-----------------------------------------------------------------------------
(* Properties. *)

(* The content is what the list of changes says: its base with the groups that are not undone,    *)
(* however the changes were merged, split, undone and redone.                                     *)
TypeOK ==
  /\ base \in Doc
  /\ tracker.doc = Replay(Applied(tracker))
  /\ tracker.edits \in Seq(Seq(Item))
  /\ tracker.currentPos \in -1 .. Len(tracker.edits)
  /\ tracker.currentPos < Len(tracker.edits) \/ tracker.edits = <<>>
  /\ tracker.groupRequested \in BOOLEAN
  /\ tracker.edits # <<>> \/ tracker.groupRequested => tracker.made

(* Undo and redo walk the contents the buffer has had: an undo returns the exact content before   *)
(* the last step, a redo the one after it, a change made as a group is a step of its own, and an  *)
(* edit after an undo drops what could be redone.                                                 *)
Steps == INSTANCE UndoStack WITH
  doc <- tracker.doc,
  past <- [i \in 1 .. Applied(tracker) |-> Replay(i - 1)],
  future <- [i \in 1 .. Len(tracker.edits) - Applied(tracker) |-> Replay(Applied(tracker) + i)],
  sealed <- tracker.groupRequested

UndoesSteps == Steps!Spec

=============================================================================
