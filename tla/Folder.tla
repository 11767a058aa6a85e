------------------------------- MODULE Folder -------------------------------
(***************************************************************************)
(* The listing of a directory tree (content/folder.go): a line for each    *)
(* entry of the root, and below the line of an expanded directory a line   *)
(* for each of its entries.  A path is the tuple of its names, a name is a *)
(* number, compared like the strings are; the root is the empty path.  A   *)
(* position is counted from 1, the code's from 0.                          *)
(***************************************************************************)
EXTENDS Integers, SequencesExt

CONSTANTS
  Entries,     (* the paths of files and directories that may exist under the root *)
  Folders      (* those of directories                                             *)

ASSUME EntriesAssumption ==
  /\ Entries \subseteq Seq(Nat \ {0}) \ {<<>>}
  /\ \A p \in Entries : Front(p) \in Folders \cup {<<>>}
  /\ Folders \subseteq Entries

Root == <<>>
Directories == Folders \cup {Root}

(* A line: the path of its entry, or, if err, of the directory that could not be read; its level; *)
(* its own idea of where it is; whether it is an expanded directory (expIdx).                     *)
Line == [path : Entries, level : Nat, pos : Nat, open : BOOLEAN, err : BOOLEAN]

(* What `c' is in the code past the end of the lines. *)
NoLine == [path |-> Root, level |-> 0, pos |-> 0, open |-> FALSE, err |-> TRUE]

IsDir(line) == ~line.err /\ line.path \in Folders
Name(line) == IF line.err THEN 0 ELSE Last(line.path)

(* Two lines show the same entry; as a mutant, entries of two directories are not told apart. *)
SameName(a, b) == ~a.err /\ ~b.err /\ Name(a) = Name(b)

SamePath(a, b) == ~a.err /\ ~b.err /\ a.path = b.path

-----------------------------------------------------------------------------
(* Reading a directory. *)

Children(disk, dir) == {p \in disk : Front(p) = dir}

(* Directories come first, then the names decide. *)
ListedBefore(p, q) ==
  \/ p \in Folders /\ q \notin Folders
  \/ (p \in Folders <=> q \in Folders) /\ Last(p) < Last(q)

Sorted(T) ==
  CHOOSE s \in [1 .. Cardinality(T) -> T] :
    /\ Range(s) = T
    /\ \A a, b \in DOMAIN s : a < b => ListedBefore(s[a], s[b])

(* The lines of the entries of a directory that go after the position pos, or one showing that   *)
(* it cannot be read.                                                                            *)
ReadLines(disk, dir, level, pos) ==
  IF dir \in disk \cup {Root}
    THEN LET entries == Sorted(Children(disk, dir))
         IN  [k \in DOMAIN entries |->
                [path |-> entries[k], level |-> level, pos |-> pos + k, open |-> FALSE, err |-> FALSE]]
    ELSE <<[path |-> dir, level |-> level, pos |-> pos + 1, open |-> FALSE, err |-> TRUE]>>

(* LoadFolder: the collapsed listing. *)
Load(disk) == ReadLines(disk, Root, 0, 0)

-----------------------------------------------------------------------------
(* Expanding and collapsing. *)

Moved(lines, by) == [k \in DOMAIN lines |-> [lines[k] EXCEPT !.pos = @ + by]]

(* New lines after the position pos move the ones behind; as a mutant, these are not told. *)
InsertUnmoved(lines, pos, new) ==
  SubSeq(lines, 1, pos) \o new \o SubSeq(lines, pos + 1, Len(lines))

InsertLines(lines, pos, new) ==
  SubSeq(lines, 1, pos) \o new \o Moved(SubSeq(lines, pos + 1, Len(lines)), Len(new))

(* The lines below the one at pos, up to the next of its level or higher, are removed. *)
Collapse(lines, pos) ==
  IF pos >= Len(lines)
    THEN lines
    ELSE LET rest == {k \in pos + 1 .. Len(lines) : lines[k].level \leq lines[pos].level}
             end == Min(rest \cup {Len(lines) + 1})
         IN  SubSeq(lines, 1, pos) \o Moved(SubSeq(lines, end, Len(lines)), pos + 1 - end)

(* Engage on the k-th line, of a directory: it goes by the position the line itself holds. *)
Engage(disk, lines, k) ==
  LET toggled == [lines EXCEPT ![k].open = ~@]
      at == lines[k].pos
  IN  IF lines[k].open
        THEN Collapse(toggled, at)
        ELSE InsertLines(toggled, at, ReadLines(disk, lines[k].path, lines[at].level + 1, at))

-----------------------------------------------------------------------------
(* What the listing shows. *)

(* ExpandedDirs *)
Shown(lines) == {Root} \cup {lines[k].path : k \in {i \in DOMAIN lines : IsDir(lines[i]) /\ lines[i].open}}

(* The entries listed for a directory. *)
Listed(lines, dir) == {lines[k].path : k \in {i \in DOMAIN lines : ~lines[i].err /\ Front(lines[i].path) = dir}}

(* All that is shown of the directory is what is in it. *)
UpToDate(disk, lines, dir) ==
  /\ Listed(lines, dir) = Children(disk, dir)
  /\ (\E k \in DOMAIN lines : lines[k].err /\ lines[k].path = dir) <=> dir \notin disk \cup {Root}

Current(disk, lines) == \A dir \in Shown(lines) : UpToDate(disk, lines, dir)

(* The directory that a line is in, or that it says cannot be read. *)
DirOf(line) == IF line.err THEN line.path ELSE Front(line.path)

(* The k-th line is listed below the m-th, the one of its directory. *)
IsBelow(lines, k, m) ==
  /\ lines[m].path = DirOf(lines[k]) /\ lines[m].open
  /\ \A x \in m + 1 .. k - 1 : lines[x].level >= lines[k].level

(* The entries of a directory are listed in order. *)
InOrder(lines) ==
  \A k, m \in DOMAIN lines :
    (k < m /\ ~lines[k].err /\ ~lines[m].err /\ Front(lines[k].path) = Front(lines[m].path))
      => ListedBefore(lines[k].path, lines[m].path)

(* The lines are those of a tree of which some directories are expanded, in order: the reference *)
(* of what a listing is.                                                                         *)
IsTree(lines) ==
  /\ \A k \in DOMAIN lines :
       LET line == lines[k]
       IN  /\ line.pos = k
           /\ line.level = Len(DirOf(line))
           /\ DirOf(line) # Root => \E m \in 1 .. k - 1 : IsBelow(lines, k, m)
           /\ line.err => ~line.open /\ (k < Len(lines) => lines[k + 1].level < line.level)
           /\ line.open => IsDir(line)
  /\ InOrder(lines)

=============================================================================
