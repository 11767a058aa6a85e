--------------------------- MODULE MCBufferStack ---------------------------
(* An instance of BufferStack for TLC: two files with two places each, a history of two.       *)
EXTENDS BufferStack

CONSTANTS source, notes, start, end

TwoPaths == {source, notes}
TwoPositions == {start, end}
SomeQueries == {TwoPaths, {notes}}
OneListing == {{notes}}
TwoPickers == {1, 2}

=============================================================================
