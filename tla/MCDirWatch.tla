----------------------------- MODULE MCDirWatch -----------------------------
(* An instance of DirWatch for TLC: a directory with another one, which has a file in it, and a  *)
(* file; and a directory that sorts after it with an entry of the same name.                     *)
EXTENDS DirWatch

SomeFolders == {<<1>>, <<1, 1>>, <<2>>}
SomeEntries == SomeFolders \cup {<<1, 2>>, <<1, 1, 3>>, <<2, 1>>}

=============================================================================
