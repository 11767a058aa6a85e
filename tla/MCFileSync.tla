----------------------------- MODULE MCFileSync -----------------------------
(* Instances of FileSync for TLC.  Two contents are enough to tell a stale text from a current   *)
(* one, and a file and its buffer from each other.                                               *)
EXTENDS FileSync

CONSTANTS file, second, blank, other

OneFile == {file}
TwoFiles == {file, second}
NoFile == {}
TwoContents == {blank, other}

=============================================================================
