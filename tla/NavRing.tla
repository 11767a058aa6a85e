------------------------------ MODULE NavRing ------------------------------
(***************************************************************************)
(* The navigation history of the editor, a list of visited locations kept  *)
(* in a ring buffer (editor/navigation/history.go).                        *)
(*                                                                         *)
(* The ring is filled from the index 0 up; once it is full, ringEnd is the *)
(* index of its oldest location, which the next one overwrites.  The       *)
(* indexes are those of the code.                                          *)
(***************************************************************************)
EXTENDS Integers, Functions

CONSTANTS
  Path, Pos,   (* the files, and the cursor positions                       *)
  Nowhere,     (* the zero Location                                         *)
  Size         (* maxSize                                                   *)

ASSUME SizeAssumption == Size \in Nat \ {0}

Location == [path : Path, position : Pos]

ASSUME NowhereAssumption == Nowhere \notin Location

VARIABLES
  ring,      (* records, pos and ringEnd                                     *)
  disabled

ringVars == <<ring, disabled>>

Ring(records, len, pos, ringEnd) == [records |-> records, len |-> len, pos |-> pos, ringEnd |-> ringEnd]

RingInit ==
  /\ ring = Ring(<<>>, 0, 0, 0)
  /\ disabled = FALSE

-----------------------------------------------------------------------------
(* The operators take a ring r and return it. *)

Current(r) == r.records[r.pos]

(* updateIfMatch: the current location follows the cursor in its file. *)
Matches(r, from) == r.len > 0 /\ from # Nowhere /\ Current(r).path = from.path

UpdateCurrent(r, from) == [r EXCEPT !.records[r.pos].position = from.position]

(* copy(s[lo:hi], s[lo+1:hi]) *)
ShiftLeft(s, lo, hi) == [i \in DOMAIN s |-> IF lo <= i /\ i + 1 < hi THEN s[i + 1] ELSE s[i]]

(* rotateRecords: the location at pos becomes the newest one, those after it are shifted.  It may  *)
(* have to cross the end of the ring.  As a mutant, the location that crosses it is not moved.     *)
RotateNoWrap(r, pos) ==
  LET s == r.records
  IN  IF pos >= r.ringEnd
        THEN [ShiftLeft(s, pos, r.len) EXCEPT ![r.len - 1] = s[pos]]
        ELSE [ShiftLeft(s, pos, r.ringEnd) EXCEPT ![r.ringEnd - 1] = s[pos]]

Rotate(r, pos) ==
  LET s == r.records
      data == s[pos]
      wrapped == [ShiftLeft(s, pos, r.len) EXCEPT ![r.len - 1] = IF r.ringEnd > 0 THEN s[0] ELSE data]
      from == IF pos >= r.ringEnd THEN 0 ELSE pos
      shifted == IF pos >= r.ringEnd THEN wrapped ELSE s
  IN  IF from < r.ringEnd
        THEN [ShiftLeft(shifted, from, r.ringEnd) EXCEPT ![r.ringEnd - 1] = data]
        ELSE shifted

RingPush(r, loc) ==
  LET grown == IF r.len < Size THEN r.len + 1 ELSE r.len
  IN  Ring([i \in 0 .. grown - 1 |-> IF i = r.ringEnd THEN loc ELSE r.records[i]],
           grown, r.ringEnd, (r.ringEnd + 1) % Size)

(* The current location is the newest one before the next one. *)
Record(r, loc) == RingPush(IF r.len = 0 THEN r ELSE [r EXCEPT !.records = Rotate(r, r.pos)], loc)

Leave(r, from) ==
  IF from = Nowhere THEN r ELSE IF Matches(r, from) THEN UpdateCurrent(r, from) ELSE Record(r, from)

Arrive(r, to) == IF to = Nowhere \/ (r.len > 0 /\ Current(r) = to) THEN r ELSE Record(r, to)

PrevIndex(r) == (r.pos - 1 + Size) % Size
NextIndex(r) == (r.pos + 1) % Size

(* canMove; as a mutant, the ring is taken for full. *)
CanMoveBackInFull(r) == r.len > 0 /\ r.pos # r.ringEnd
CanMoveBack(r) == r.len > 0 /\ r.pos # r.ringEnd /\ PrevIndex(r) < r.len
CanMoveForward(r) == r.len > 0 /\ NextIndex(r) # r.ringEnd /\ NextIndex(r) < r.len

-----------------------------------------------------------------------------

RecordJump(from, to) ==
  /\ ~disabled
  /\ ring' = Arrive(Leave(ring, from), to)
  /\ UNCHANGED disabled

(* The location left is updated, and the place moves. *)
MoveTo(from, i) ==
  /\ ring' = [(IF Matches(ring, from) THEN UpdateCurrent(ring, from) ELSE ring) EXCEPT !.pos = i]
  /\ UNCHANGED disabled

MovePrev(from) == CanMoveBack(ring) /\ MoveTo(from, PrevIndex(ring))
MoveNext(from) == CanMoveForward(ring) /\ MoveTo(from, NextIndex(ring))

EnableRecording(enabled) == disabled' = ~enabled /\ UNCHANGED ring

Anywhere == Location \cup {Nowhere}

RingNext ==
  \/ \E from, to \in Anywhere : RecordJump(from, to)
  \/ \E from \in Anywhere : MovePrev(from) \/ MoveNext(from)
  \/ \E enabled \in BOOLEAN : EnableRecording(enabled)

RingSpec == RingInit /\ [][RingNext]_ringVars

-----------------------------------------------------------------------------
(* Properties. *)

(* The locations in their order, and the place in them, as if nothing wrapped around. *)
Unwrapped == [i \in 1 .. ring.len |-> ring.records[(ring.ringEnd + i - 1) % ring.len]]
Place == IF ring.len = 0 THEN 0 ELSE ((ring.pos - ring.ringEnd + ring.len) % ring.len) + 1

(* The types; and the way back and the way forward end where the list does, though the indexes   *)
(* never do.                                                                                     *)
RingTypeOK ==
  /\ ring.len \in 0 .. Size
  /\ ring.records \in [0 .. ring.len - 1 -> Location]
  /\ ring.pos \in 0 .. Size - 1
  /\ ring.len > 0 => ring.pos < ring.len
  /\ ring.ringEnd \in 0 .. Size - 1
  /\ ring.len < Size => ring.ringEnd = ring.len
  /\ disabled \in BOOLEAN
  /\ CanMoveBack(ring) <=> Place > 1
  /\ CanMoveForward(ring) <=> Place < ring.len

(* The ring is a list: its locations in their order, and the place in it, are those of a list     *)
(* that nothing wraps around in.                                                                  *)
List == INSTANCE NavList WITH list <- Unwrapped, at <- Place

RingIsList == List!Spec

=============================================================================
