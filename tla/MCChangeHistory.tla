-------------------------- MODULE MCChangeHistory --------------------------
(* An instance of ChangeHistory for TLC: two lines are enough to tell which of them has moved,   *)
(* and three changes to have a group before and one after the current one.                       *)
EXTENDS ChangeHistory

CONSTANTS a, b

TwoLines == {a, b}
MCLoaded == { <<a, b>>, <<a>> }

=============================================================================
