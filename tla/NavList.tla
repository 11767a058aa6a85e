------------------------------ MODULE NavList ------------------------------
(***************************************************************************)
(* What the user is promised of the navigation history: a list of visited  *)
(* locations, the oldest first, and the place in it.  A new jump moves the *)
(* place to the end of the list together with the location left.           *)
(***************************************************************************)
EXTENDS Naturals, SequencesExt

CONSTANTS
  Path, Pos,   (* the files, and the cursor positions                       *)
  Nowhere,     (* no location: the top buffer is not a text file            *)
  Size         (* how many locations are kept                               *)

Location == [path : Path, position : Pos]

VARIABLES
  list,
  at,        (* the place in the list, or 0 if the list is empty             *)
  disabled   (* jumps are not recorded                                       *)

vars == <<list, at, disabled>>

Init == list = <<>> /\ at = 0 /\ disabled = FALSE

-----------------------------------------------------------------------------
(* The operators take the list and the place in it, and return them.          *)

Visits(l, i) == [list |-> l, at |-> i]

(* The current location is replaced by one in the same file. *)
Follows(v, from) == v.at > 0 /\ from # Nowhere /\ v.list[v.at].path = from.path
Update(v, from) == Visits([v.list EXCEPT ![v.at] = from], v.at)

(* The current location goes to the end, the new one after it, and the oldest one is forgotten if *)
(* there are too many.                                                                            *)
Record(v, loc) ==
  LET moved == IF v.at = 0 THEN v.list ELSE Append(RemoveAt(v.list, v.at), v.list[v.at])
      all == Append(moved, loc)
      kept == IF Len(all) > Size THEN Tail(all) ELSE all
  IN  Visits(kept, Len(kept))

Leave(v, from) ==
  IF from = Nowhere THEN v ELSE IF Follows(v, from) THEN Update(v, from) ELSE Record(v, from)

Arrive(v, to) == IF to = Nowhere \/ (v.at > 0 /\ v.list[v.at] = to) THEN v ELSE Record(v, to)

Becomes(v) == list' = v.list /\ at' = v.at

-----------------------------------------------------------------------------

Jump(from, to) ==
  /\ ~disabled
  /\ Becomes(Arrive(Leave(Visits(list, at), from), to))
  /\ UNCHANGED disabled

Move(from, i) ==
  /\ at > 0 /\ i \in DOMAIN list
  /\ LET v == Visits(list, at) IN Becomes([(IF Follows(v, from) THEN Update(v, from) ELSE v) EXCEPT !.at = i])
  /\ UNCHANGED disabled

Enable == disabled' \in BOOLEAN /\ UNCHANGED <<list, at>>

Next ==
  \/ \E from, to \in Location \cup {Nowhere} : Jump(from, to)
  \/ \E from \in Location \cup {Nowhere} : Move(from, at - 1) \/ Move(from, at + 1)
  \/ Enable

Spec == Init /\ [][Next]_vars

=============================================================================
