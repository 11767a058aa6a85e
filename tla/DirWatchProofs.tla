--------------------------- MODULE DirWatchProofs ---------------------------
(***************************************************************************)
(* Proofs about DirWatch, for every set of entries, of any depth, and any  *)
(* number of changes: the lines of a listing are those of a tree, whatever *)
(* is expanded, collapsed and synchronised, and what they do not show any  *)
(* more is noticed.                                                        *)
(*                                                                         *)
(* The first part is about the operators of Folder: the entries of a       *)
(* directory have an order, and Engage keeps a tree a tree.                *)
(***************************************************************************)
EXTENDS DirWatch, SequenceTheorems, FiniteSetTheorems, WellFoundedInduction, TLAPS

-----------------------------------------------------------------------------
(* Paths. *)

LEMMA PathFacts ==
  ASSUME NEW p \in Entries
  PROVE  /\ p \in Seq(Nat \ {0}) /\ p # Root
         /\ Len(p) \in Nat \ {0} /\ Last(p) \in Nat \ {0}
         /\ Front(p) \in Seq(Nat \ {0}) /\ Len(Front(p)) = Len(p) - 1
         /\ Front(p) \in Directories
<1>1. p \in Seq(Nat \ {0}) /\ p # Root
  BY EntriesAssumption DEF Root
<1>2. Len(p) \in Nat \ {0}
  BY <1>1, LenProperties, EmptySeq DEF Root
<1>3. Last(p) \in Nat \ {0}
  BY <1>1, <1>2, ElementOfSeq DEF Last
<1>4. Front(p) \in Seq(Nat \ {0}) /\ Len(Front(p)) = Len(p) - 1
  <2>1. \A x \in 1 .. Len(p) - 1 : p[x] \in Nat \ {0}
    BY <1>1, <1>2, ElementOfSeq
  <2>2. \A n \in Int : n = Len(p) - 1 =>
           /\ SubSeq(p, 1, n) \in Seq(Nat \ {0})
           /\ Len(SubSeq(p, 1, n)) = IF 1 \leq n THEN n - 1 + 1 ELSE 0
    BY <2>1, SubSeqProperties
  <2>3. \A n \in Int : n = Len(p) - 1 => SubSeq(p, 1, n) \in Seq(Nat \ {0}) /\ Len(SubSeq(p, 1, n)) = n
    BY <2>2, <1>2
  <2>4. Len(p) - 1 \in Int
    BY <1>2
  <2>5. QED
    BY <2>3, <2>4, Zenon DEF Front
<1>5. Front(p) \in Directories
  BY EntriesAssumption DEF Directories, Root
<1>6. QED
  BY <1>1, <1>2, <1>3, <1>4, <1>5

(* An entry is told from the others in its directory by its name. *)
LEMMA NameTells ==
  ASSUME NEW p \in Entries, NEW q \in Entries, Front(p) = Front(q), Last(p) = Last(q)
  PROVE  p = q
<1>1. p \in Seq(Nat \ {0}) /\ q \in Seq(Nat \ {0}) /\ Len(p) \in Nat \ {0} /\ Len(q) \in Nat \ {0}
  BY PathFacts
<1>2. Len(p) = Len(q)
  BY <1>1, PathFacts
<1>3. ASSUME NEW x \in 1 .. Len(p)
      PROVE  p[x] = q[x]
  <2>1. CASE x = Len(p)
    BY <2>1, <1>2 DEF Last
  <2>2. CASE x # Len(p)
    <3>1. x \in 1 .. Len(p) - 1
      BY <2>2, <1>1
    <3>2. Front(p)[x] = p[x] /\ Front(q)[x] = q[x]
      BY <3>1, <1>1, <1>2 DEF Front
    <3>3. QED
      BY <3>2
  <2>3. QED
    BY <2>1, <2>2
<1>4. QED
  BY <1>1, <1>2, <1>3, SeqEqual

-----------------------------------------------------------------------------
(* The entries of a directory in order. *)

LEMMA SmallestNat ==
  ASSUME NEW T, T \subseteq Nat, T # {}
  PROVE  \E x \in T : \A y \in T : x \leq y
<1>1. PICK x \in T : \A y \in T : ~ (<<y, x>> \in OpToRel(<, Nat))
  BY WFMin, NatLessThanWellFounded
<1>2. \A y \in T : ~ (y < x)
  BY <1>1 DEF OpToRel
<1>3. QED
  BY <1>2

LEMMA MinIs ==
  ASSUME NEW T, T \subseteq Nat, T # {}
  PROVE  Min(T) \in T /\ \A y \in T : Min(T) \leq y
BY SmallestNat DEF Min

(* A set that holds 0, and with a number the next one, holds them all. *)
LEMMA InductiveSet ==
  ASSUME NEW S, 0 \in S, \A n \in Nat : n \in S => n + 1 \in S
  PROVE  \A n \in Nat : n \in S
<1> SUFFICES ASSUME NEW m \in Nat, m \notin S
             PROVE  FALSE
  OBVIOUS
<1> DEFINE T == {n \in Nat : n \notin S}
<1>1. PICK x \in T : \A y \in T : x \leq y
  BY SmallestNat
<1>2. x - 1 \in Nat /\ x - 1 \notin T
  BY <1>1
<1>3. QED
  BY <1>1, <1>2

Siblings(T) == T \subseteq Entries /\ \A p, q \in T : Front(p) = Front(q)

LEMMA FirstListed ==
  ASSUME NEW T, Siblings(T), T # {}
  PROVE  \E p \in T : \A q \in T \ {p} : ListedBefore(p, q)
<1> DEFINE U == IF T \cap Folders # {} THEN T \cap Folders ELSE T
           names == {Last(p) : p \in U}
<1>1. U \subseteq T /\ U # {} /\ T \subseteq Entries
  BY DEF Siblings
<1>2. names \subseteq Nat /\ names # {}
  BY <1>1, PathFacts
<1>3. PICK least \in names : \A y \in names : least \leq y
  BY <1>2, SmallestNat
<1>4. PICK p \in U : Last(p) = least
  BY <1>3
<1>5. ASSUME NEW q \in T \ {p}
      PROVE  ListedBefore(p, q)
  <2>1. CASE q \in U
    <3>1. Last(p) \leq Last(q)
      BY <1>3, <1>4, <2>1
    <3>2. Last(p) # Last(q)
      BY <1>1, NameTells DEF Siblings
    <3>3. Last(p) \in Nat /\ Last(q) \in Nat
      BY <1>1, PathFacts
    <3>4. p \in Folders <=> q \in Folders
      BY <2>1
    <3>5. QED
      BY <3>1, <3>2, <3>3, <3>4 DEF ListedBefore
  <2>2. CASE q \notin U
    BY <2>2, <1>1 DEF ListedBefore
  <2>3. QED
    BY <2>1, <2>2
<1>6. QED
  BY <1>1, <1>5

InListedOrder(T, n, s) ==
  /\ s \in [1 .. n -> T]
  /\ Range(s) = T
  /\ \A a, b \in 1 .. n : a < b => ListedBefore(s[a], s[b])

(* The first one goes before the others sorted. *)
LEMMA SortedAfterFirst ==
  ASSUME NEW T, NEW n \in Nat, NEW p \in T, NEW s,
         \A q \in T \ {p} : ListedBefore(p, q), InListedOrder(T \ {p}, n, s)
  PROVE  InListedOrder(T, n + 1, [a \in 1 .. n + 1 |-> IF a = 1 THEN p ELSE s[a - 1]])
<1> DEFINE t == [a \in 1 .. n + 1 |-> IF a = 1 THEN p ELSE s[a - 1]]
<1>1. \A a \in 1 .. n + 1 : a # 1 => a - 1 \in 1 .. n /\ t[a] = s[a - 1] /\ t[a] \in T \ {p}
  BY DEF InListedOrder
<1>2. t[1] = p /\ DOMAIN t = 1 .. n + 1 /\ 1 \in 1 .. n + 1
  OBVIOUS
<1> HIDE DEF t
<1>3. \A a \in 1 .. n + 1 : t[a] \in T
  BY <1>1, <1>2
<1>4. t \in [1 .. n + 1 -> T]
  BY <1>3, Zenon DEF t
<1>5. Range(t) = T
  <2>1. ASSUME NEW q \in T \ {p}
        PROVE  \E a \in 1 .. n + 1 : t[a] = q
    <3>1. PICK b \in 1 .. n : s[b] = q
      BY DEF InListedOrder, Range
    <3>2. b + 1 \in 1 .. n + 1 /\ b + 1 # 1 /\ (b + 1) - 1 = b
      OBVIOUS
    <3>3. QED
      BY <3>1, <3>2, <1>1
  <2>2. \A q \in T : \E a \in 1 .. n + 1 : t[a] = q
    BY <2>1, <1>2
  <2>3. QED
    BY <2>2, <1>2, <1>3 DEF Range
<1>6. ASSUME NEW a \in 1 .. n + 1, NEW b \in 1 .. n + 1, a < b
      PROVE  ListedBefore(t[a], t[b])
  <2>1. b # 1
    BY <1>6
  <2>2. CASE a = 1
    BY <2>1, <2>2, <1>1, <1>2
  <2>3. CASE a # 1
    <3>1. a - 1 < b - 1
      BY <1>6
    <3>2. QED
      BY <3>1, <2>1, <2>3, <1>1 DEF InListedOrder
  <2>4. QED
    BY <2>2, <2>3
<1>7. QED
  BY <1>4, <1>5, <1>6 DEF InListedOrder, t

LEMMA CanBeSorted ==
  ASSUME NEW T, Siblings(T), IsFiniteSet(T)
  PROVE  \E s : InListedOrder(T, Cardinality(T), s)
<1> DEFINE S == {n \in Nat : \A U \in SUBSET T :
                    IsFiniteSet(U) /\ Cardinality(U) = n => \E s : InListedOrder(U, n, s)}
<1>1. 0 \in S
  <2> SUFFICES ASSUME NEW U \in SUBSET T, IsFiniteSet(U), Cardinality(U) = 0
               PROVE  \E s : InListedOrder(U, 0, s)
    OBVIOUS
  <2>1. U = {}
    BY FS_EmptySet
  <2>2. InListedOrder({}, 0, <<>>)
    <3>1. 1 .. 0 = {} /\ DOMAIN <<>> = {}
      BY EmptySeq, LenProperties
    <3>2. <<>> \in [1 .. 0 -> {}]
      BY EmptySeq, LenProperties
    <3>3. QED
      BY <3>1, <3>2 DEF InListedOrder, Range
  <2>3. QED
    BY <2>1, <2>2
<1>2. ASSUME NEW n \in Nat, n \in S
      PROVE  n + 1 \in S
  <2> SUFFICES ASSUME NEW U \in SUBSET T, IsFiniteSet(U), Cardinality(U) = n + 1
               PROVE  \E s : InListedOrder(U, n + 1, s)
    OBVIOUS
  <2>1. U # {}
    BY FS_EmptySet
  <2>2. PICK p \in U : \A q \in U \ {p} : ListedBefore(p, q)
    BY <2>1, FirstListed DEF Siblings
  <2>3. IsFiniteSet(U \ {p}) /\ Cardinality(U \ {p}) = n
    <3>1. IsFiniteSet(U \ {p}) /\ Cardinality(U \ {p}) = Cardinality(U) - 1
      BY FS_RemoveElement
    <3>2. QED
      BY <3>1
  <2>4. PICK s : InListedOrder(U \ {p}, n, s)
    BY <2>3, <1>2
  <2>5. QED
    BY <2>2, <2>4, SortedAfterFirst
<1>3. \A n \in Nat : n \in S
  <2> HIDE DEF S
  <2> QED
    BY <1>1, <1>2, InductiveSet
<1>4. Cardinality(T) \in S
  BY <1>3, FS_CardinalityType
<1>5. QED
  BY <1>4

LEMMA SortedIs ==
  ASSUME NEW T, Siblings(T), IsFiniteSet(T)
  PROVE  Cardinality(T) \in Nat /\ InListedOrder(T, Cardinality(T), Sorted(T))
<1> DEFINE n == Cardinality(T)
<1>1. PICK s : InListedOrder(T, n, s)
  BY CanBeSorted
<1>2. s \in [1 .. n -> T] /\ Range(s) = T /\ \A a, b \in DOMAIN s : a < b => ListedBefore(s[a], s[b])
  BY <1>1 DEF InListedOrder
<1>3. /\ Sorted(T) \in [1 .. n -> T]
      /\ Range(Sorted(T)) = T
      /\ \A a, b \in DOMAIN Sorted(T) : a < b => ListedBefore(Sorted(T)[a], Sorted(T)[b])
  BY <1>2, Zenon DEF Sorted
<1>4. DOMAIN Sorted(T) = 1 .. n
  BY <1>3
<1>5. QED
  BY <1>3, <1>4, FS_CardinalityType DEF InListedOrder

-----------------------------------------------------------------------------
(* Reading a directory. *)

OnDisk(d) == d \subseteq Entries /\ IsFiniteSet(d) /\ \A p \in d : Front(p) \in d \cup {Root}

(* The lines just read are those of the entries of the directory, or the one of the error. *)
AreRead(new, d, dir, level, pos) ==
  /\ new \in Seq(Line)
  /\ \A x \in 1 .. Len(new) :
       /\ new[x].level = level /\ new[x].pos = pos + x /\ ~new[x].open
       /\ DirOf(new[x]) = dir
       /\ new[x].err => Len(new) = 1 /\ dir \notin d \cup {Root}
       /\ ~new[x].err => new[x].path \in d
  /\ \A x, y \in 1 .. Len(new) : x < y => ListedBefore(new[x].path, new[y].path)
  /\ \A p \in Children(d, dir) : \E x \in 1 .. Len(new) : ~new[x].err /\ new[x].path = p
  /\ dir \notin d \cup {Root} => \E x \in 1 .. Len(new) : new[x].err

LEMMA LineFields ==
  ASSUME NEW line \in Line
  PROVE  /\ line.path \in Entries /\ line.level \in Nat /\ line.pos \in Nat
         /\ line.open \in BOOLEAN /\ line.err \in BOOLEAN
BY DEF Line

LEMMA ReadIs ==
  ASSUME NEW d, OnDisk(d), NEW dir \in Directories, NEW level \in Nat, NEW pos \in Nat
  PROVE  AreRead(ReadLines(d, dir, level, pos), d, dir, level, pos)
<1>1. CASE dir \in d \cup {Root}
  <2> DEFINE T == Children(d, dir)
             s == Sorted(T)
             n == Cardinality(T)
             new == [k \in 1 .. n |->
                       [path |-> s[k], level |-> level, pos |-> pos + k, open |-> FALSE, err |-> FALSE]]
  <2>1. T \subseteq d /\ T \subseteq Entries /\ \A p \in T : Front(p) = dir
    BY DEF OnDisk, Children
  <2>2. IsFiniteSet(T) /\ Siblings(T)
    BY <2>1, FS_Subset DEF OnDisk, Siblings
  <2>3. n \in Nat /\ InListedOrder(T, n, s)
    BY <2>2, SortedIs
  <2> HIDE DEF T, s, n
  <2>4. DOMAIN s = 1 .. n /\ (\A k \in 1 .. n : s[k] \in T)
    BY <2>3 DEF InListedOrder
  <2>5. ReadLines(d, dir, level, pos) = new
    BY <1>1, <2>4, Zenon DEF ReadLines, T, s
  <2>6. ASSUME NEW k \in 1 .. n
        PROVE  [path |-> s[k], level |-> level, pos |-> pos + k, open |-> FALSE, err |-> FALSE] \in Line
    BY <2>1, <2>3, <2>4 DEF Line
  <2>7. new \in Seq(Line) /\ Len(new) = n
    BY <2>3, <2>6, SeqDef
  <2>8. \A k \in 1 .. n : new[k] = [path |-> s[k], level |-> level, pos |-> pos + k, open |-> FALSE, err |-> FALSE]
    OBVIOUS
  <2>9. \A p \in T : \E k \in 1 .. n : s[k] = p
    BY <2>3, <2>4 DEF InListedOrder, Range
  <2> HIDE DEF new
  <2>10. \A k \in 1 .. n : /\ new[k].path = s[k] /\ new[k].level = level /\ new[k].pos = pos + k
                           /\ ~new[k].open /\ ~new[k].err
    <3> TAKE k \in 1 .. n
    <3>1. new[k] = [path |-> s[k], level |-> level, pos |-> pos + k, open |-> FALSE, err |-> FALSE]
      BY <2>8
    <3>2. QED
      BY <3>1
  <2>11. \A k \in 1 .. n : DirOf(new[k]) = dir
    BY <2>10, <2>4, <2>1 DEF DirOf
  <2>12. \A a, b \in 1 .. n : a < b => ListedBefore(new[a].path, new[b].path)
    BY <2>10, <2>3 DEF InListedOrder
  <2>13. \A p \in Children(d, dir) : \E x \in 1 .. n : ~new[x].err /\ new[x].path = p
    BY <2>9, <2>10 DEF T
  <2>14. AreRead(new, d, dir, level, pos)
    BY <2>1, <2>4, <2>7, <2>10, <2>11, <2>12, <2>13, <1>1 DEF AreRead
  <2>15. QED
    BY <2>5, <2>14
<1>2. CASE dir \notin d \cup {Root}
  <2> DEFINE line == [path |-> dir, level |-> level, pos |-> pos + 1, open |-> FALSE, err |-> TRUE]
  <2>1. ReadLines(d, dir, level, pos) = <<line>>
    BY <1>2 DEF ReadLines
  <2>2. dir \in Entries
    BY <1>2, EntriesAssumption DEF Directories
  <2>3. line \in Line
    BY <2>2 DEF Line
  <2>4. Children(d, dir) = {}
    BY <1>2 DEF Children, OnDisk
  <2>5. line.path = dir /\ line.level = level /\ line.pos = pos + 1 /\ ~line.open /\ line.err /\ DirOf(line) = dir
    BY DEF DirOf
  <2> HIDE DEF line
  <2>6. <<line>> \in Seq(Line) /\ Len(<<line>>) = 1 /\ <<line>>[1] = line
    BY <2>3
  <2>7. QED
    BY <1>2, <2>1, <2>4, <2>5, <2>6 DEF AreRead
<1>3. QED
  BY <1>1, <1>2

-----------------------------------------------------------------------------
(* Trees. *)

LEMMA TreeLine ==
  ASSUME NEW ls \in Seq(Line), IsTree(ls), NEW k \in 1 .. Len(ls)
  PROVE  /\ ls[k] \in Line /\ ls[k].pos = k /\ ls[k].level = Len(DirOf(ls[k])) /\ ls[k].level \in Nat
         /\ DirOf(ls[k]) # Root => \E m \in 1 .. k - 1 : IsBelow(ls, k, m)
         /\ ls[k].err => ~ls[k].open /\ (k < Len(ls) => ls[k + 1].level < ls[k].level)
         /\ ls[k].open => IsDir(ls[k])
<1>1. ls[k] \in Line /\ k \in DOMAIN ls
  BY ElementOfSeq
<1>2. QED
  BY <1>1, LineFields DEF IsTree

(* A line below another is one level deeper. *)
LEMMA BelowLevel ==
  ASSUME NEW ls \in Seq(Line), IsTree(ls), NEW k \in 1 .. Len(ls), NEW m \in 1 .. k - 1, IsBelow(ls, k, m)
  PROVE  ls[k].level = ls[m].level + 1 /\ IsDir(ls[m]) /\ ~ls[m].err /\ ls[m].open
<1>1. m \in 1 .. Len(ls)
  OBVIOUS
<1>2. IsDir(ls[m]) /\ ~ls[m].err /\ ls[m].open
  BY <1>1, TreeLine DEF IsBelow, IsDir
<1>3. ls[m].path \in Entries /\ ls[m].level \in Nat /\ ls[m].level = Len(Front(ls[m].path))
  BY <1>1, <1>2, TreeLine, LineFields DEF DirOf
<1>4. Len(Front(ls[m].path)) = Len(ls[m].path) - 1 /\ Len(ls[m].path) \in Nat
  BY <1>3, PathFacts
<1>5. ls[k].level = Len(ls[m].path)
  BY TreeLine DEF IsBelow
<1>6. QED
  BY <1>2, <1>3, <1>4, <1>5

(* No two lines show the same entry. *)
LEMMA PathOnce ==
  ASSUME NEW ls \in Seq(Line), IsTree(ls), NEW k \in 1 .. Len(ls), NEW m \in 1 .. Len(ls),
         ~ls[k].err, ~ls[m].err, ls[k].path = ls[m].path
  PROVE  k = m
<1>1. ls[k].path \in Entries
  BY TreeLine, LineFields
<1>2. ~ListedBefore(ls[k].path, ls[k].path)
  <2>1. Last(ls[k].path) \in Nat
    BY <1>1, PathFacts
  <2>2. ~(Last(ls[k].path) < Last(ls[k].path))
    BY <2>1
  <2>3. QED
    BY <2>2 DEF ListedBefore
<1>3. \A x, y \in 1 .. Len(ls) : (x < y /\ ~ls[x].err /\ ~ls[y].err /\ Front(ls[x].path) = Front(ls[y].path))
                                   => ListedBefore(ls[x].path, ls[y].path)
  BY DEF IsTree, InOrder
<1>4. ~(k < m) /\ ~(m < k)
  BY <1>2, <1>3
<1>5. QED
  BY <1>4

(* The line after one that is not an expanded directory is not deeper. *)
LEMMA AfterClosed ==
  ASSUME NEW ls \in Seq(Line), IsTree(ls), NEW k \in 1 .. Len(ls), k < Len(ls), ~ls[k].open
  PROVE  ls[k + 1].level \leq ls[k].level
<1>1. k + 1 \in 1 .. Len(ls) /\ ls[k].level \in Nat /\ ls[k + 1].level \in Nat
  BY TreeLine
<1> SUFFICES ASSUME ls[k + 1].level > ls[k].level
             PROVE  FALSE
  BY <1>1
<1>2. DirOf(ls[k + 1]) # Root
  BY <1>1, TreeLine, EmptySeq DEF Root
<1>3. PICK m \in 1 .. (k + 1) - 1 : IsBelow(ls, k + 1, m)
  BY <1>1, <1>2, TreeLine
<1>4. \A x \in m + 1 .. (k + 1) - 1 : ls[x].level >= ls[k + 1].level
  BY <1>3 DEF IsBelow
<1>5. m = k
  BY <1>1, <1>4
<1>6. QED
  BY <1>3, <1>5 DEF IsBelow

(* No line is below a directory that is collapsed, or below a deeper line. *)
LEMMA NotBelowClosed ==
  ASSUME NEW ls \in Seq(Line), IsTree(ls), NEW k \in 1 .. Len(ls), NEW x \in 1 .. Len(ls),
         IsDir(ls[k]), ~ls[k].open
  PROVE  DirOf(ls[x]) # ls[k].path
<1> SUFFICES ASSUME DirOf(ls[x]) = ls[k].path
             PROVE  FALSE
  OBVIOUS
<1>1. ls[k].path \in Entries /\ ~ls[k].err
  BY TreeLine, LineFields DEF IsDir
<1>2. DirOf(ls[x]) # Root
  BY <1>1, PathFacts
<1>3. PICK m \in 1 .. x - 1 : IsBelow(ls, x, m)
  BY <1>2, TreeLine
<1>4. m \in 1 .. Len(ls) /\ ~ls[m].err /\ ls[m].open
  BY <1>3, BelowLevel
<1>5. m = k
  BY <1>1, <1>3, <1>4, PathOnce DEF IsBelow
<1>6. QED
  BY <1>4, <1>5

-----------------------------------------------------------------------------
(* What Engage does to the lines. *)

Shut(line) == [line EXCEPT !.open = FALSE]
Opened(line) == [line EXCEPT !.open = TRUE]
At2(line, x) == [line EXCEPT !.pos = x]

(* The lines below the k-th up to end are removed. *)
IsCollapsedAt(ls, k, end, r) ==
  /\ end \in k + 1 .. Len(ls) + 1
  /\ \A x \in k + 1 .. end - 1 : ls[x].level > ls[k].level
  /\ end \leq Len(ls) => ls[end].level \leq ls[k].level
  /\ r \in Seq(Line) /\ Len(r) = Len(ls) - (end - k - 1)
  /\ \A x \in 1 .. k - 1 : r[x] = ls[x]
  /\ r[k] = Shut(ls[k])
  /\ \A x \in k + 1 .. Len(r) : r[x] = At2(ls[x + (end - k - 1)], x)

(* The lines new are inserted below the k-th. *)
IsExpandedAt(ls, k, new, r) ==
  /\ r \in Seq(Line) /\ Len(r) = Len(ls) + Len(new)
  /\ \A x \in 1 .. k - 1 : r[x] = ls[x]
  /\ r[k] = Opened(ls[k])
  /\ \A x \in 1 .. Len(new) : r[k + x] = new[x]
  /\ \A x \in k + Len(new) + 1 .. Len(r) : r[x] = At2(ls[x - Len(new)], x)

LEMMA LineChanges ==
  ASSUME NEW line \in Line, NEW x \in Nat
  PROVE  /\ Shut(line) \in Line /\ ~Shut(line).open /\ Shut(line).path = line.path
         /\ Shut(line).level = line.level /\ Shut(line).err = line.err /\ Shut(line).pos = line.pos
         /\ Opened(line) \in Line /\ Opened(line).open /\ Opened(line).path = line.path
         /\ Opened(line).level = line.level /\ Opened(line).err = line.err /\ Opened(line).pos = line.pos
         /\ At2(line, x) \in Line /\ At2(line, x).open = line.open /\ At2(line, x).path = line.path
         /\ At2(line, x).level = line.level /\ At2(line, x).err = line.err /\ At2(line, x).pos = x
         /\ DirOf(Shut(line)) = DirOf(line) /\ DirOf(Opened(line)) = DirOf(line)
         /\ DirOf(At2(line, x)) = DirOf(line)
BY DEF Line, Shut, Opened, At2, DirOf

(* The k-th line changes its sign. *)
LEMMA ToggledIs ==
  ASSUME NEW ls \in Seq(Line), NEW k \in 1 .. Len(ls), NEW t, t = [ls EXCEPT ![k].open = ~@]
  PROVE  /\ t \in Seq(Line) /\ Len(t) = Len(ls)
         /\ t[k] = IF ls[k].open THEN Shut(ls[k]) ELSE Opened(ls[k])
         /\ \A x \in 1 .. Len(ls) : x # k => t[x] = ls[x]
<1> DEFINE new == IF ls[k].open THEN Shut(ls[k]) ELSE Opened(ls[k])
<1>1. ls[k] \in Line /\ ls[k].open \in BOOLEAN
  BY ElementOfSeq, LineFields
<1>2. [ls[k] EXCEPT !.open = ~@] = new
  BY <1>1 DEF Shut, Opened
<1>3. new \in Line
  BY <1>1, LineChanges
<1>4. t = [ls EXCEPT ![k] = [ls[k] EXCEPT !.open = ~@]]
  OBVIOUS
<1>5. t = [ls EXCEPT ![k] = new]
  BY <1>2, <1>4
<1> HIDE DEF new
<1>6. t \in Seq(Line) /\ Len(t) = Len(ls)
  BY <1>3, <1>5, ExceptSeq
<1>7. DOMAIN ls = 1 .. Len(ls) /\ ls \in [1 .. Len(ls) -> Line]
  BY LenProperties
<1>8. t[k] = new /\ \A x \in 1 .. Len(ls) : x # k => t[x] = ls[x]
  BY <1>5, <1>7
<1>9. QED
  BY <1>6, <1>8 DEF new

LEMMA MovedIs ==
  ASSUME NEW s \in Seq(Line), NEW by \in Int, \A x \in 1 .. Len(s) : s[x].pos + by \in Nat
  PROVE  /\ Moved(s, by) \in Seq(Line) /\ Len(Moved(s, by)) = Len(s)
         /\ \A x \in 1 .. Len(s) : Moved(s, by)[x] = At2(s[x], s[x].pos + by)
<1>1. s \in [1 .. Len(s) -> Line] /\ DOMAIN s = 1 .. Len(s) /\ Len(s) \in Nat
  BY LenProperties
<1>2. \A x \in 1 .. Len(s) : s[x] \in Line
  BY <1>1
<1>3. \A x \in 1 .. Len(s) : At2(s[x], s[x].pos + by) \in Line
  BY <1>2, LineChanges
<1>4. Moved(s, by) = [x \in 1 .. Len(s) |-> At2(s[x], s[x].pos + by)]
  BY <1>1 DEF Moved, At2
<1>5. QED
  BY <1>1, <1>3, <1>4, SeqDef

LEMMA FirstLines ==
  ASSUME NEW s \in Seq(Line), NEW k \in Nat, k \leq Len(s)
  PROVE  /\ SubSeq(s, 1, k) \in Seq(Line) /\ Len(SubSeq(s, 1, k)) = k
         /\ \A x \in 1 .. k : SubSeq(s, 1, k)[x] = s[x]
<1>1. Len(s) \in Nat
  BY LenProperties
<1>2. \A x \in 1 .. k : s[x] \in Line
  BY <1>1, ElementOfSeq
<1> DEFINE first == SubSeq(s, 1, k)
<1>3. /\ first \in Seq(Line) /\ Len(first) = IF 1 \leq k THEN k - 1 + 1 ELSE 0
      /\ \A x \in 1 .. k - 1 + 1 : first[x] = s[1 + x - 1]
  BY <1>2, SubSeqProperties
<1> HIDE DEF first
<1>4. Len(first) = k
  BY <1>3
<1>5. \A x \in 1 .. k : x \in 1 .. k - 1 + 1 /\ 1 + x - 1 = x
  OBVIOUS
<1>6. \A x \in 1 .. k : first[x] = s[x]
  BY <1>3, <1>5
<1>7. QED
  BY <1>3, <1>4, <1>6 DEF first

LEMMA LastLines ==
  ASSUME NEW s \in Seq(Line), NEW n \in Nat, n = Len(s), NEW from \in 1 .. n + 1
  PROVE  /\ SubSeq(s, from, n) \in Seq(Line) /\ Len(SubSeq(s, from, n)) = n - from + 1
         /\ \A x \in 1 .. n - from + 1 : SubSeq(s, from, n)[x] = s[from + x - 1]
<1>1. \A x \in from .. n : s[x] \in Line
  BY ElementOfSeq
<1> DEFINE last == SubSeq(s, from, n)
<1>2. /\ last \in Seq(Line) /\ Len(last) = IF from \leq n THEN n - from + 1 ELSE 0
      /\ \A x \in 1 .. n - from + 1 : last[x] = s[from + x - 1]
  BY <1>1, SubSeqProperties
<1> HIDE DEF last
<1>3. Len(last) = n - from + 1
  BY <1>2
<1>4. QED
  BY <1>2, <1>3 DEF last

AreJoined(s, t, n, m, r) ==
  /\ r \in Seq(Line) /\ Len(r) = n + m
  /\ \A x \in 1 .. n : r[x] = s[x]
  /\ \A x \in 1 .. m : r[n + x] = t[x]

LEMMA JoinedLines ==
  ASSUME NEW s \in Seq(Line), NEW t \in Seq(Line)
  PROVE  AreJoined(s, t, Len(s), Len(t), s \o t)
<1> DEFINE r == s \o t
           n == Len(s)
           m == Len(t)
<1>0. n \in Nat /\ m \in Nat
  BY LenProperties
<1>1. /\ r \in Seq(Line) /\ Len(r) = n + m
      /\ \A x \in 1 .. n + m : r[x] = IF x \leq n THEN s[x] ELSE t[x - n]
  BY ConcatProperties
<1> HIDE DEF r, n, m
<1>2. \A x \in 1 .. n : x \in 1 .. n + m /\ x \leq n
  BY <1>0
<1>3. \A x \in 1 .. m : n + x \in 1 .. n + m /\ ~(n + x \leq n) /\ (n + x) - n = x
  BY <1>0
<1>4. \A x \in 1 .. n : r[x] = s[x]
  BY <1>1, <1>2
<1>5. \A x \in 1 .. m : r[n + x] = t[x]
  <2> TAKE x \in 1 .. m
  <2>1. r[n + x] = t[(n + x) - n]
    BY <1>1, <1>3
  <2>2. QED
    BY <2>1, <1>3
<1>6. QED
  BY <1>1, <1>4, <1>5 DEF r, n, m, AreJoined

Parts(t, k, mid, from, by) == SubSeq(t, 1, k) \o mid \o Moved(SubSeq(t, from, Len(t)), by)

(* The lines up to a position, others, and those from a position, moved. *)
ArePartsMoved(t, n, k, mid, l, from, by, r) ==
  /\ r \in Seq(Line) /\ Len(r) = k + l + (n - from + 1)
  /\ \A x \in 1 .. k : r[x] = t[x]
  /\ \A x \in 1 .. l : r[k + x] = mid[x]
  /\ \A x \in k + l + 1 .. k + l + (n - from + 1) : r[x] = At2(t[x - by], x)

AreBehind(r, n, moved, rest, t, by) ==
  \A x \in 1 .. rest : r[n + x] = moved[x] /\ moved[x] = At2(t[(n + x) - by], n + x)

LEMMA LinesBehind ==
  ASSUME NEW n \in Nat, NEW rest \in Nat, NEW r, NEW moved, NEW t, NEW by, AreBehind(r, n, moved, rest, t, by)
  PROVE  \A x \in n + 1 .. n + rest : r[x] = At2(t[x - by], x)
<1> TAKE x \in n + 1 .. n + rest
<1>1. x - n \in 1 .. rest /\ n + (x - n) = x
  OBVIOUS
<1>2. PICK y \in 1 .. rest : n + y = x
  BY <1>1
<1>3. r[n + y] = At2(t[(n + y) - by], n + y)
  BY DEF AreBehind
<1>4. QED
  BY <1>2, <1>3, Zenon

(* Every line knows its place. *)
Placed(t, n) == \A x \in 1 .. n : t[x].pos = x

LEMMA PartsMoved ==
  ASSUME NEW t \in Seq(Line), NEW mid \in Seq(Line), NEW n \in Nat, NEW l \in Nat, n = Len(t), l = Len(mid),
         Placed(t, n),
         NEW k \in 0 .. n, NEW from \in 1 .. n + 1, NEW by \in Int, by = k + 1 + l - from
  PROVE  ArePartsMoved(t, n, k, mid, l, from, by, Parts(t, k, mid, from, by))
<1> DEFINE first == SubSeq(t, 1, k)
           last == SubSeq(t, from, n)
           moved == Moved(last, by)
           head == first \o mid
           rest == n - from + 1
           r == Parts(t, k, mid, from, by)
<1>1. k \in Nat /\ k \leq n /\ rest \in Nat
  OBVIOUS
<1>2. first \in Seq(Line) /\ Len(first) = k /\ \A x \in 1 .. k : first[x] = t[x]
  BY <1>1, FirstLines
<1>3. last \in Seq(Line) /\ Len(last) = rest /\ \A x \in 1 .. rest : last[x] = t[from + x - 1]
  BY LastLines
<1>4. r = head \o moved
  BY DEF Parts
<1> HIDE DEF first, last, r
<1>5. \A x \in 1 .. rest : /\ from + x - 1 \in 1 .. n /\ from + x - 1 + by = k + l + x
                           /\ k + l + x \in Nat /\ from + x - 1 = (k + l + x) - by
  OBVIOUS
<1> HIDE DEF rest
<1>6. \A x \in 1 .. rest : last[x].pos = from + x - 1
  BY <1>3, <1>5 DEF Placed
<1>7. /\ moved \in Seq(Line) /\ Len(moved) = rest
      /\ \A x \in 1 .. rest : moved[x] = At2(t[(k + l + x) - by], k + l + x)
  <2>1. \A x \in 1 .. Len(last) : last[x].pos + by = k + l + x /\ k + l + x \in Nat
    BY <1>3, <1>5, <1>6
  <2>2. /\ moved \in Seq(Line) /\ Len(moved) = Len(last)
        /\ \A x \in 1 .. Len(last) : moved[x] = At2(last[x], last[x].pos + by)
    <3>1. last \in Seq(Line) /\ by \in Int
      BY <1>3
    <3>2. \A x \in 1 .. Len(last) : last[x].pos + by \in Nat
      BY <2>1
    <3>3. QED
      BY <3>1, <3>2, MovedIs
  <2>3. \A x \in 1 .. rest : last[x] = t[(k + l + x) - by]
    BY <1>3, <1>5
  <2>4. QED
    BY <2>1, <2>2, <2>3, <1>3
<1> HIDE DEF moved
<1>8. /\ head \in Seq(Line) /\ Len(head) = k + l
      /\ \A x \in 1 .. k : head[x] = first[x]
      /\ \A x \in 1 .. l : head[k + x] = mid[x]
  <2>1. AreJoined(first, mid, k, l, head)
    BY <1>2, JoinedLines
  <2> HIDE DEF head
  <2>2. QED
    BY <2>1 DEF AreJoined
<1> HIDE DEF head
<1>9. k + l \in Nat
  BY <1>1
<1>10. /\ r \in Seq(Line) /\ Len(r) = (k + l) + rest
       /\ \A x \in 1 .. k + l : r[x] = head[x]
       /\ \A x \in 1 .. rest : r[(k + l) + x] = moved[x]
  <2>1. AreJoined(head, moved, k + l, rest, r)
    BY <1>4, <1>7, <1>8, JoinedLines
  <2>2. QED
    BY <2>1 DEF AreJoined
<1>11. \A x \in 1 .. k : x \in 1 .. k + l
  BY <1>1
<1>12. \A x \in 1 .. l : k + x \in 1 .. k + l
  BY <1>1
<1>13. \A x \in (k + l) + 1 .. (k + l) + rest : r[x] = At2(t[x - by], x)
  <2> DEFINE base == k + l
  <2>1. AreBehind(r, base, moved, rest, t, by)
    BY <1>7, <1>10 DEF AreBehind
  <2>2. base \in Nat
    BY <1>9
  <2> HIDE DEF base
  <2>3. \A x \in base + 1 .. base + rest : r[x] = At2(t[x - by], x)
    BY <2>1, <2>2, <1>1, LinesBehind
  <2>4. QED
    BY <2>3 DEF base
<1>14. \A x \in 1 .. k : r[x] = t[x]
  BY <1>2, <1>8, <1>10, <1>11
<1>15. \A x \in 1 .. l : r[k + x] = mid[x]
  BY <1>8, <1>10, <1>12
<1>16. QED
  BY <1>14, <1>15, <1>10, <1>13, Zenon DEF rest, r, ArePartsMoved

LEMMA CollapseIs ==
  ASSUME NEW d, NEW ls \in Seq(Line), IsTree(ls), NEW k \in 1 .. Len(ls), ls[k].open
  PROVE  \E end : IsCollapsedAt(ls, k, end, Engage(d, ls, k))
<1> DEFINE t == [ls EXCEPT ![k].open = ~@]
           n == Len(ls)
           rest == {x \in k + 1 .. n : t[x].level \leq t[k].level}
           end == Min(rest \cup {n + 1})
           r == SubSeq(t, 1, k) \o Moved(SubSeq(t, end, Len(t)), k + 1 - end)
<1>1. n \in Nat /\ k \in 1 .. n /\ n + 1 \in Nat
  BY LenProperties
<1>2. t \in Seq(Line) /\ Len(t) = n /\ t[k] = Shut(ls[k]) /\ \A x \in 1 .. n : x # k => t[x] = ls[x]
  <2>1. t = [ls EXCEPT ![k].open = ~@]
    OBVIOUS
  <2> HIDE DEF t
  <2>2. QED
    BY <2>1, ToggledIs
<1>3. \A x \in 1 .. n : ls[x] \in Line /\ ls[x].pos = x /\ ls[x].level \in Nat
  BY TreeLine
<1>4. Engage(d, ls, k) = Collapse(t, k)
  BY <1>3 DEF Engage
<1> HIDE DEF t
<1>5. \A x \in 1 .. n : t[x].level = ls[x].level /\ t[x].pos = x
  BY <1>2, <1>3, LineChanges
<1>6. Collapse(t, k) = IF k >= n THEN t ELSE r
  BY <1>2 DEF Collapse
<1>7. /\ end \in k + 1 .. n + 1
      /\ \A x \in k + 1 .. end - 1 : ls[x].level > ls[k].level
      /\ end \leq n => ls[end].level \leq ls[k].level
  <2>1. rest \cup {n + 1} \subseteq Nat /\ rest \cup {n + 1} # {}
    BY <1>1
  <2>2. end \in rest \cup {n + 1} /\ \A y \in rest \cup {n + 1} : end \leq y
    BY <2>1, MinIs
  <2>3. end \in k + 1 .. n + 1 /\ (end \leq n => end \in rest)
    BY <2>2, <1>1
  <2>4. ASSUME NEW x \in k + 1 .. end - 1
        PROVE  ls[x].level > ls[k].level
    <3>1. x \in k + 1 .. n /\ x \in 1 .. n /\ ~(end \leq x)
      BY <2>3, <1>1
    <3>2. x \notin rest
      BY <2>2, <3>1
    <3>3. ~(t[x].level \leq t[k].level)
      BY <3>1, <3>2
    <3>4. QED
      BY <1>1, <1>3, <1>5, <3>1, <3>3
  <2>5. ASSUME end \leq n
        PROVE  ls[end].level \leq ls[k].level
    BY <2>3, <2>5, <1>1, <1>5
  <2>6. QED
    BY <2>3, <2>4, <2>5
<1> HIDE DEF end, rest
<1>8. CASE k >= n
  <2>1. end = k + 1 /\ k = n
    BY <1>1, <1>7, <1>8
  <2>2. IsCollapsedAt(ls, k, end, t)
    <3>1. Len(t) = Len(ls) - (end - k - 1) /\ k + 1 .. Len(t) = {}
      BY <1>1, <1>2, <2>1
    <3>2. \A x \in 1 .. k - 1 : t[x] = ls[x]
      BY <1>1, <1>2
    <3>3. QED
      BY <1>2, <1>7, <3>1, <3>2 DEF IsCollapsedAt
  <2>3. QED
    BY <2>2, <1>4, <1>6, <1>8
<1>9. CASE ~(k >= n)
  <2>1. <<>> \in Seq(Line) /\ Len(<<>>) = 0
    BY EmptySeq
  <2>2. r = Parts(t, k, <<>>, end, k + 1 - end)
    <3>1. SubSeq(t, 1, k) \in Seq(Line)
      BY <1>1, <1>2, FirstLines
    <3>2. SubSeq(t, 1, k) \o <<>> = SubSeq(t, 1, k)
      BY <3>1, ConcatEmptySeq
    <3>3. QED
      BY <3>2 DEF Parts
  <2>3. /\ k + 1 - end \in Int /\ k + 1 - end = k + 1 + 0 - end /\ k \in 0 .. n /\ end \in 1 .. n + 1
    BY <1>1, <1>7
  <2> HIDE DEF r
  <2>4. /\ r \in Seq(Line) /\ Len(r) = k + 0 + (n - end + 1)
        /\ \A x \in 1 .. k : r[x] = t[x]
        /\ \A x \in k + 0 + 1 .. k + 0 + (n - end + 1) : r[x] = At2(t[x - (k + 1 - end)], x)
    <3> DEFINE by == k + 1 - end
               none == <<>>
               l == 0
    <3>1. ArePartsMoved(t, n, k, none, l, end, by, r)
      <4>1. by \in Int /\ by = k + 1 + l - end /\ r = Parts(t, k, none, end, by)
        BY <2>2, <2>3
      <4>2. none \in Seq(Line) /\ l = Len(none) /\ l \in Nat
        BY <2>1
      <4>3. Placed(t, n)
        BY <1>5 DEF Placed
      <4> HIDE DEF by, none, l
      <4>4. QED
        BY <4>1, <4>2, <4>3, <1>1, <1>2, <2>3, PartsMoved
    <3>2. QED
      BY <3>1 DEF ArePartsMoved
  <2>5. Len(r) = n - (end - k - 1)
    BY <1>1, <1>7, <2>4
  <2>6. \A x \in 1 .. k - 1 : r[x] = ls[x]
    BY <1>1, <1>2, <2>4
  <2>7. r[k] = Shut(ls[k])
    BY <1>1, <1>2, <2>4
  <2>8. ASSUME NEW x \in k + 1 .. Len(r)
        PROVE  r[x] = At2(ls[x + (end - k - 1)], x)
    <3>1. end \in Int /\ k \in Int /\ n \in Int /\ k < end /\ end \leq n + 1
      BY <1>1, <1>7
    <3>2. x \in k + 0 + 1 .. k + 0 + (n - end + 1)
      BY <2>5, <3>1
    <3>3. x - (k + 1 - end) = x + (end - k - 1) /\ x + (end - k - 1) \in 1 .. n /\ x + (end - k - 1) # k
      BY <1>1, <2>5, <3>1
    <3>4. r[x] = At2(t[x - (k + 1 - end)], x)
      BY <2>4, <3>2
    <3>5. QED
      BY <1>2, <3>3, <3>4
  <2>9. IsCollapsedAt(ls, k, end, r)
    BY <1>7, <2>4, <2>5, <2>6, <2>7, <2>8 DEF IsCollapsedAt
  <2>10. QED
    BY <2>9, <1>4, <1>6, <1>9
<1>10. QED
  BY <1>8, <1>9

LEMMA ExpandIs ==
  ASSUME NEW d, OnDisk(d), NEW ls \in Seq(Line), IsTree(ls), NEW k \in 1 .. Len(ls),
         IsDir(ls[k]), ~ls[k].open
  PROVE  \E new : /\ AreRead(new, d, ls[k].path, ls[k].level + 1, k)
                  /\ IsExpandedAt(ls, k, new, Engage(d, ls, k))
<1> DEFINE t == [ls EXCEPT ![k].open = ~@]
           n == Len(ls)
           new == ReadLines(d, ls[k].path, ls[k].level + 1, k)
           r == Engage(d, ls, k)
<1>1. n \in Nat /\ k \in 1 .. n /\ k \in Nat
  BY LenProperties
<1>2. t \in Seq(Line) /\ Len(t) = n /\ t[k] = Opened(ls[k]) /\ \A x \in 1 .. n : x # k => t[x] = ls[x]
  <2>1. t = [ls EXCEPT ![k].open = ~@]
    OBVIOUS
  <2> HIDE DEF t
  <2>2. QED
    BY <2>1, ToggledIs
<1>3. \A x \in 1 .. n : ls[x] \in Line /\ ls[x].pos = x /\ ls[x].level \in Nat
  BY TreeLine
<1>4. AreRead(new, d, ls[k].path, ls[k].level + 1, k)
  <2>1. ls[k].path \in Directories /\ ls[k].level + 1 \in Nat
    BY <1>3 DEF IsDir, Directories
  <2>2. QED
    BY <2>1, <1>1, ReadIs
<1>5. new \in Seq(Line) /\ Len(new) \in Nat
  BY <1>4, LenProperties DEF AreRead
<1>6. r = InsertLines(t, k, new)
  BY <1>3 DEF Engage
<1> HIDE DEF t, new, r
<1>7. r = Parts(t, k, new, k + 1, Len(new))
  BY <1>6 DEF InsertLines, Parts
<1>8. Placed(t, n)
  BY <1>2, <1>3, LineChanges DEF Placed
<1>9. /\ r \in Seq(Line) /\ Len(r) = k + Len(new) + (n - (k + 1) + 1)
      /\ \A x \in 1 .. k : r[x] = t[x]
      /\ \A x \in 1 .. Len(new) : r[k + x] = new[x]
      /\ \A x \in k + Len(new) + 1 .. k + Len(new) + (n - (k + 1) + 1) : r[x] = At2(t[x - Len(new)], x)
  <2>1. /\ k \in 0 .. n /\ k + 1 \in 1 .. n + 1 /\ Len(new) \in Int
        /\ Len(new) = k + 1 + Len(new) - (k + 1)
    BY <1>1, <1>5
  <2>2. ArePartsMoved(t, n, k, new, Len(new), k + 1, Len(new), r)
    BY <1>1, <1>2, <1>5, <1>7, <1>8, <2>1, PartsMoved
  <2>3. QED
    BY <2>2 DEF ArePartsMoved
<1>10. Len(r) = n + Len(new)
  BY <1>1, <1>5, <1>9
<1>11. ASSUME NEW x \in k + Len(new) + 1 .. Len(r)
       PROVE  r[x] = At2(ls[x - Len(new)], x)
  <2>1. /\ x - Len(new) \in 1 .. n /\ x - Len(new) # k
        /\ x \in k + Len(new) + 1 .. k + Len(new) + (n - (k + 1) + 1)
    BY <1>1, <1>5, <1>9
  <2>2. QED
    BY <2>1, <1>2, <1>9
<1>12. (\A x \in 1 .. k - 1 : r[x] = ls[x]) /\ r[k] = Opened(ls[k])
  <2>1. k \in 1 .. k /\ \A x \in 1 .. k - 1 : x \in 1 .. k /\ x \in 1 .. n /\ x # k
    BY <1>1
  <2>2. QED
    BY <2>1, <1>2, <1>9
<1>13. IsExpandedAt(ls, k, new, r)
  BY <1>9, <1>10, <1>11, <1>12 DEF IsExpandedAt
<1>14. QED
  BY <1>4, <1>13 DEF r

-----------------------------------------------------------------------------
(* Engage keeps a tree a tree. *)

(* A line shows the same as another, and is at x. *)
Shows(a, x, b) ==
  /\ a.path = b.path /\ a.level = b.level /\ a.err = b.err /\ a.pos = x
  /\ DirOf(a) = DirOf(b) /\ (IsDir(a) <=> IsDir(b))

LEMMA ShowsSame ==
  ASSUME NEW line \in Line, NEW x \in Nat
  PROVE  /\ Shows(At2(line, x), x, line)
         /\ line.pos = x => Shows(line, x, line) /\ Shows(Shut(line), x, line) /\ Shows(Opened(line), x, line)
BY LineChanges DEF Shows, IsDir

(* Where the line at x was before the lines from k + 1 up to k + by went. *)
Before(k, by, x) == IF x \leq k THEN x ELSE x + by

AreRest(ls, k, by, r) ==
  /\ Len(ls) \in Nat /\ Len(r) \in Nat /\ by \in Nat /\ k \in 1 .. Len(r) /\ Len(r) = Len(ls) - by
  /\ \A x \in 1 .. Len(r) : /\ Before(k, by, x) \in 1 .. Len(ls)
                            /\ Shows(r[x], x, ls[Before(k, by, x)])
                            /\ x # k => r[x].open = ls[Before(k, by, x)].open
  /\ ~r[k].open

LEMMA CollapsedLines ==
  ASSUME NEW ls \in Seq(Line), IsTree(ls), NEW k \in 1 .. Len(ls), NEW end, NEW r,
         IsCollapsedAt(ls, k, end, r), NEW by, by = end - k - 1
  PROVE  AreRest(ls, k, by, r)
<1>1. /\ end \in k + 1 .. Len(ls) + 1
      /\ r \in Seq(Line) /\ Len(r) = Len(ls) - (end - k - 1)
      /\ \A x \in 1 .. k - 1 : r[x] = ls[x]
      /\ r[k] = Shut(ls[k])
      /\ \A x \in k + 1 .. Len(r) : r[x] = At2(ls[x + (end - k - 1)], x)
  BY DEF IsCollapsedAt
<1>2. Len(ls) \in Nat /\ by \in Nat /\ Len(r) \in Nat /\ k \in 1 .. Len(r) /\ k \in Nat /\ Len(r) = Len(ls) - by
  BY <1>1, LenProperties
<1>3. \A x \in 1 .. Len(ls) : ls[x] \in Line /\ ls[x].pos = x
  BY TreeLine
<1>4. ~r[k].open
  BY <1>1, <1>3, LineChanges
<1>5. ASSUME NEW x \in 1 .. Len(r)
      PROVE  /\ Before(k, by, x) \in 1 .. Len(ls)
             /\ Shows(r[x], x, ls[Before(k, by, x)])
             /\ x # k => r[x].open = ls[Before(k, by, x)].open
  <2>1. Before(k, by, x) \in 1 .. Len(ls)
    BY <1>1, <1>2 DEF Before
  <2>2. CASE x < k
    <3>1. Before(k, by, x) = x /\ x \in 1 .. k - 1 /\ x \in Nat
      BY <2>2, <1>2 DEF Before
    <3>2. QED
      BY <2>1, <3>1, <1>1, <1>3, ShowsSame
  <2>3. CASE x = k
    <3>1. Before(k, by, x) = k
      BY <2>3, <1>2 DEF Before
    <3>2. Shows(Shut(ls[k]), k, ls[k])
      BY <1>2, <1>3, ShowsSame
    <3>3. QED
      BY <2>1, <2>3, <3>1, <3>2, <1>1
  <2>4. CASE x > k
    <3>1. Before(k, by, x) = x + (end - k - 1) /\ x \in k + 1 .. Len(r) /\ x \in Nat
      BY <2>4, <1>2 DEF Before
    <3>2. r[x] = At2(ls[Before(k, by, x)], x)
      BY <3>1, <1>1
    <3>3. ls[Before(k, by, x)] \in Line
      BY <2>1, <1>3
    <3>4. Shows(At2(ls[Before(k, by, x)], x), x, ls[Before(k, by, x)])
      BY <3>1, <3>3, ShowsSame
    <3>5. At2(ls[Before(k, by, x)], x).open = ls[Before(k, by, x)].open
      BY <3>3 DEF At2, Line
    <3>6. QED
      BY <2>1, <3>2, <3>4, <3>5
  <2>5. QED
    BY <2>2, <2>3, <2>4, <1>2
<1>6. QED
  BY <1>2, <1>4, <1>5 DEF AreRest

(* The lines removed are all that is below the directory, at any depth. *)
LEMMA NoneBelowRemoved ==
  ASSUME NEW ls \in Seq(Line), IsTree(ls), NEW k \in 1 .. Len(ls), NEW end \in k + 1 .. Len(ls) + 1,
         \A x \in k + 1 .. end - 1 : ls[x].level > ls[k].level,
         end \leq Len(ls) => ls[end].level \leq ls[k].level,
         NEW y \in end .. Len(ls), NEW m \in 1 .. y - 1, IsBelow(ls, y, m)
  PROVE  m \in 1 .. k - 1 \/ m \in end .. Len(ls)
<1>1. Len(ls) \in Nat /\ k \in Nat /\ end \in Nat /\ y \in 1 .. Len(ls) /\ m \in 1 .. Len(ls) /\ k < end
  BY LenProperties
<1> SUFFICES ASSUME m \in k .. end - 1
             PROVE  FALSE
  BY <1>1
<1>2. \A x \in 1 .. Len(ls) : ls[x].level \in Nat
  BY TreeLine
<1>3. ls[m].level \geq ls[k].level
  <2>1. m = k \/ m \in k + 1 .. end - 1
    BY <1>1
  <2>2. QED
    BY <2>1, <1>1, <1>2
<1>4. ls[y].level = ls[m].level + 1
  BY <1>1, BelowLevel
<1>5. ls[y].level > ls[k].level
  BY <1>1, <1>2, <1>3, <1>4
<1>6. end \in 1 .. Len(ls) /\ ls[end].level \leq ls[k].level
  BY <1>1
<1>7. y # end
  BY <1>1, <1>2, <1>5, <1>6
<1>8. end \in m + 1 .. y - 1
  BY <1>1, <1>7
<1>9. ls[end].level \geq ls[y].level
  BY <1>8 DEF IsBelow
<1>10. QED
  BY <1>1, <1>2, <1>5, <1>6, <1>9

LEMMA CollapsedTree ==
  ASSUME NEW ls \in Seq(Line), IsTree(ls), NEW k \in 1 .. Len(ls), ls[k].open, NEW end, NEW r,
         IsCollapsedAt(ls, k, end, r)
  PROVE  IsTree(r)
<1> DEFINE by == end - k - 1
           B(x) == Before(k, by, x)
           n == Len(ls)
           l == Len(r)
<1>1. /\ n \in Nat /\ l \in Nat /\ by \in Nat /\ k \in 1 .. l /\ l = n - by /\ end = k + 1 + by
      /\ \A x \in 1 .. l : B(x) \in 1 .. n /\ Shows(r[x], x, ls[B(x)]) /\ (x # k => r[x].open = ls[B(x)].open)
      /\ ~r[k].open
  <2>1. end \in Int
    BY LenProperties DEF IsCollapsedAt
  <2>2. end = k + 1 + by /\ by = end - k - 1
    BY <2>1
  <2> HIDE DEF by
  <2>3. AreRest(ls, k, by, r)
    BY <2>2, CollapsedLines
  <2>4. QED
    BY <2>2, <2>3 DEF AreRest
<1>2. k \in Nat /\ end \in k + 1 .. n + 1 /\ DOMAIN r = 1 .. l /\ k \leq n
  BY <1>1, LenProperties DEF IsCollapsedAt
<1> HIDE DEF by, l, n
<1>3. \A x, y \in 1 .. l : x < y => B(x) < B(y)
  BY <1>1, <1>2 DEF Before
<1>4. \A x \in 1 .. l : (x \leq k => B(x) = x) /\ (x > k => B(x) = x + by)
  BY <1>1 DEF Before
<1> HIDE DEF B
<1>5. ASSUME NEW x \in 1 .. l, DirOf(r[x]) # Root
      PROVE  \E m \in 1 .. x - 1 : IsBelow(r, x, m)
  <2>1. B(x) \in 1 .. n /\ Shows(r[x], x, ls[B(x)])
    BY <1>1
  <2>2. DirOf(ls[B(x)]) # Root
    BY <2>1, <1>5 DEF Shows
  <2>3. PICK m \in 1 .. B(x) - 1 : IsBelow(ls, B(x), m)
    BY <2>1, <2>2, TreeLine DEF n
  <2>4. m \in 1 .. k - 1 \/ m \in end .. n
    <3>1. CASE x \leq k
      BY <3>1, <1>4, <1>2
    <3>2. CASE x > k
      <4>1. B(x) \in end .. n
        BY <3>2, <1>1, <1>2, <1>4, <2>1
      <4>2. QED
        BY <4>1, <2>3, <1>2, NoneBelowRemoved DEF IsCollapsedAt, n
    <3>3. QED
      BY <3>1, <3>2, <1>2
  <2>5. PICK p \in 1 .. l : B(p) = m /\ p # k
    <3>1. CASE m \in 1 .. k - 1
      <4>1. m \in 1 .. l /\ m \leq k /\ m # k
        BY <3>1, <1>1, <1>2
      <4>2. QED
        BY <4>1, <1>4
    <3>2. CASE m \in end .. n
      <4>1. m - by \in 1 .. l /\ m - by > k /\ m - by # k /\ (m - by) + by = m
        BY <3>2, <1>1, <1>2
      <4>2. QED
        BY <4>1, <1>4
    <3>3. QED
      BY <2>4, <3>1, <3>2
  <2>6. B(p) < B(x)
    BY <2>1, <2>3, <2>5, <1>1
  <2>7. p \in 1 .. x - 1
    <3>1. ~(x < p) /\ x # p
      BY <2>1, <2>6, <1>1, <1>3
    <3>2. QED
      BY <3>1, <1>1
  <2>8. r[p].path = DirOf(r[x]) /\ r[p].open
    BY <1>1, <2>1, <2>3, <2>5 DEF IsBelow, Shows
  <2>9. ASSUME NEW z \in p + 1 .. x - 1
        PROVE  r[z].level \geq r[x].level
    <3>1. z \in 1 .. l /\ p < z /\ z < x
      BY <1>1, <2>5
    <3>2. B(z) \in 1 .. n /\ B(p) < B(z) /\ B(z) < B(x)
      BY <3>1, <1>1, <1>3, <2>5
    <3>3. B(z) \in m + 1 .. B(x) - 1
      BY <3>2, <2>1, <2>5, <1>1
    <3>4. ls[B(z)].level \geq ls[B(x)].level
      BY <3>3, <2>3 DEF IsBelow
    <3>5. r[z].level = ls[B(z)].level /\ r[x].level = ls[B(x)].level
      BY <3>1, <2>1, <1>1 DEF Shows
    <3>6. QED
      BY <3>4, <3>5
  <2>10. QED
    BY <2>7, <2>8, <2>9 DEF IsBelow
<1>6. ASSUME NEW x \in 1 .. l
      PROVE  /\ r[x].pos = x /\ r[x].level = Len(DirOf(r[x]))
             /\ r[x].open => IsDir(r[x])
             /\ r[x].err => ~r[x].open /\ (x < l => r[x + 1].level < r[x].level)
  <2>1. B(x) \in 1 .. n /\ Shows(r[x], x, ls[B(x)]) /\ (x # k => r[x].open = ls[B(x)].open)
    BY <1>1
  <2>2. /\ ls[B(x)].level = Len(DirOf(ls[B(x)]))
        /\ ls[B(x)].err => ~ls[B(x)].open /\ (B(x) < n => ls[B(x) + 1].level < ls[B(x)].level)
        /\ ls[B(x)].open => IsDir(ls[B(x)])
    BY <2>1, TreeLine DEF n
  <2>3. r[x].pos = x /\ r[x].level = Len(DirOf(r[x]))
    BY <2>1, <2>2 DEF Shows
  <2>4. r[x].open => IsDir(r[x])
    BY <1>1, <2>1, <2>2 DEF Shows
  <2>5. r[x].err => ~r[x].open
    BY <1>1, <2>1, <2>2 DEF Shows
  <2>6. ASSUME r[x].err, x < l
        PROVE  r[x + 1].level < r[x].level
    <3>1. x # k
      <4>1. ~ls[k].err
        BY TreeLine DEF IsDir
      <4>2. B(k) = k
        BY <1>1, <1>2, <1>4
      <4>3. QED
        BY <4>1, <4>2, <2>1, <2>6 DEF Shows
    <3>2. x + 1 \in 1 .. l /\ B(x + 1) = B(x) + 1
      BY <3>1, <2>6, <1>1, <1>2, <1>4
    <3>3. B(x) < n /\ Shows(r[x + 1], x + 1, ls[B(x) + 1])
      BY <3>2, <2>1, <1>1
    <3>4. ls[B(x) + 1].level < ls[B(x)].level
      BY <3>3, <2>1, <2>2, <2>6 DEF Shows
    <3>5. QED
      BY <3>3, <3>4, <2>1 DEF Shows
  <2>7. QED
    BY <2>3, <2>4, <2>5, <2>6
<1>7. InOrder(r)
  <2> SUFFICES ASSUME NEW x \in 1 .. l, NEW y \in 1 .. l, x < y, ~r[x].err, ~r[y].err,
                      Front(r[x].path) = Front(r[y].path)
               PROVE  ListedBefore(r[x].path, r[y].path)
    BY <1>2 DEF InOrder
  <2>1. B(x) \in 1 .. n /\ B(y) \in 1 .. n /\ B(x) < B(y)
    BY <1>1, <1>3
  <2>2. /\ ls[B(x)].path = r[x].path /\ ~ls[B(x)].err
        /\ ls[B(y)].path = r[y].path /\ ~ls[B(y)].err
    BY <1>1 DEF Shows
  <2>3. DOMAIN ls = 1 .. n
    BY LenProperties DEF n
  <2>4. QED
    BY <2>1, <2>2, <2>3 DEF IsTree, InOrder
<1>8. QED
  BY <1>2, <1>5, <1>6, <1>7 DEF IsTree, l

(* Where the lines of the expanded listing come from: new ones from k + 1 to k + n. *)
AreWith(ls, k, new, r) ==
  /\ Len(ls) \in Nat /\ Len(new) \in Nat /\ Len(r) = Len(ls) + Len(new)
  /\ \A x \in 1 .. Len(ls) :
       LET y == IF x \leq k THEN x ELSE x + Len(new)
       IN  y \in 1 .. Len(r) /\ Shows(r[y], y, ls[x]) /\ (x # k => r[y].open = ls[x].open)
  /\ r[k].open
  /\ \A x \in 1 .. Len(new) : k + x \in 1 .. Len(r) /\ r[k + x] = new[x]

LEMMA ExpandedLines ==
  ASSUME NEW ls \in Seq(Line), IsTree(ls), NEW k \in 1 .. Len(ls), NEW new \in Seq(Line), NEW r,
         IsExpandedAt(ls, k, new, r)
  PROVE  AreWith(ls, k, new, r)
<1> DEFINE n == Len(new)
           Y(x) == IF x \leq k THEN x ELSE x + n
<1>1. /\ Len(ls) \in Nat /\ n \in Nat /\ k \in 1 .. Len(ls) /\ k \in Nat
      /\ r \in Seq(Line) /\ Len(r) = Len(ls) + n
      /\ \A x \in 1 .. k - 1 : r[x] = ls[x]
      /\ r[k] = Opened(ls[k])
      /\ \A x \in 1 .. n : r[k + x] = new[x]
      /\ \A x \in k + n + 1 .. Len(r) : r[x] = At2(ls[x - n], x)
  <2>1. Len(ls) \in Nat /\ Len(new) \in Nat
    BY LenProperties
  <2>2. k \in Nat
    BY <2>1
  <2>3. QED
    BY <2>1, <2>2, Zenon DEF IsExpandedAt
<1>2. \A x \in 1 .. Len(ls) : ls[x] \in Line /\ ls[x].pos = x
  BY TreeLine
<1>3. r[k].open
  BY <1>1, <1>2, LineChanges
<1>4. ASSUME NEW x \in 1 .. Len(ls)
      PROVE  Y(x) \in 1 .. Len(r) /\ Shows(r[Y(x)], Y(x), ls[x]) /\ (x # k => r[Y(x)].open = ls[x].open)
  <2>1. Y(x) \in 1 .. Len(r) /\ Y(x) \in Nat
    BY <1>1
  <2>2. CASE x < k
    <3>1. Y(x) = x /\ x \in 1 .. k - 1 /\ x \in Nat
      BY <2>2, <1>1
    <3>2. QED
      BY <2>1, <3>1, <1>1, <1>2, ShowsSame
  <2>3. CASE x = k
    <3>1. Y(x) = k
      BY <2>3, <1>1
    <3>2. Shows(Opened(ls[k]), k, ls[k])
      BY <1>1, <1>2, ShowsSame
    <3>3. QED
      BY <2>1, <2>3, <3>1, <3>2, <1>1
  <2>4. CASE x > k
    <3>1. Y(x) \in k + n + 1 .. Len(r) /\ Y(x) - n = x
      BY <2>4, <1>1
    <3> HIDE DEF Y, n
    <3>2. r[Y(x)] = At2(ls[x], Y(x))
      BY <3>1, <1>1
    <3>3. Shows(At2(ls[x], Y(x)), Y(x), ls[x])
      BY <2>1, <1>2, ShowsSame
    <3>4. At2(ls[x], Y(x)).open = ls[x].open
      BY <1>2 DEF At2, Line
    <3>5. QED
      BY <2>1, <3>2, <3>3, <3>4
  <2>5. QED
    BY <2>2, <2>3, <2>4, <1>1
<1>5. \A x \in 1 .. n : k + x \in 1 .. Len(r)
  BY <1>1
<1>6. QED
  BY <1>1, <1>3, <1>4, <1>5 DEF AreWith

LEMMA ExpandedTree ==
  ASSUME NEW ls \in Seq(Line), IsTree(ls), NEW k \in 1 .. Len(ls), IsDir(ls[k]), ~ls[k].open,
         NEW d, NEW new, AreRead(new, d, ls[k].path, ls[k].level + 1, k),
         NEW r, IsExpandedAt(ls, k, new, r)
  PROVE  IsTree(r)
<1> DEFINE n == Len(new)
           m0 == Len(ls)
           l == Len(r)
           Y(x) == IF x \leq k THEN x ELSE x + n
<1>1. AreWith(ls, k, new, r)
  BY ExpandedLines DEF AreRead
<1>2. /\ m0 \in Nat /\ n \in Nat /\ l = m0 + n /\ k \in 1 .. m0 /\ k \in Nat /\ DOMAIN r = 1 .. l
      /\ \A x \in 1 .. m0 : Y(x) \in 1 .. l /\ Shows(r[Y(x)], Y(x), ls[x]) /\ (x # k => r[Y(x)].open = ls[x].open)
      /\ r[k].open
      /\ \A x \in 1 .. n : k + x \in 1 .. l /\ r[k + x] = new[x]
  <2>1. DOMAIN r = 1 .. l
    <3>1. r \in Seq(Line)
      BY DEF IsExpandedAt
    <3>2. QED
      BY <3>1, LenProperties
  <2>2. QED
    BY <1>1, <2>1 DEF AreWith
<1>3. /\ \A x \in 1 .. n : /\ new[x].level = ls[k].level + 1 /\ new[x].pos = k + x /\ ~new[x].open
                           /\ DirOf(new[x]) = ls[k].path
                           /\ new[x].err => n = 1
      /\ \A x, y \in 1 .. n : x < y => ListedBefore(new[x].path, new[y].path)
  BY DEF AreRead
<1> HIDE DEF n, m0, l
<1>4. \A x, y \in 1 .. m0 : x < y => Y(x) < Y(y)
  BY <1>2
<1>5. \A x \in 1 .. m0 : (x \leq k => Y(x) = x) /\ (x > k => Y(x) = x + n)
  BY <1>2
<1>6. ASSUME NEW y \in 1 .. l
      PROVE  (\E x \in 1 .. m0 : y = Y(x)) \/ (\E x \in 1 .. n : y = k + x)
  <2>1. CASE y \leq k
    BY <2>1, <1>2
  <2>2. CASE y > k /\ y \leq k + n
    <3>1. y - k \in 1 .. n /\ y = k + (y - k)
      BY <2>2, <1>2
    <3>2. QED
      BY <3>1
  <2>3. CASE y > k + n
    <3>1. y - n \in 1 .. m0 /\ y = Y(y - n)
      BY <2>3, <1>2
    <3>2. QED
      BY <3>1
  <2>4. QED
    BY <2>1, <2>2, <2>3, <1>2
<1>7. Y(k) = k
  BY <1>2
<1> HIDE DEF Y
<1>8. /\ ls[k].path \in Entries /\ ~ls[k].err /\ ls[k].level \in Nat /\ ls[k].path # Root
      /\ Shows(r[k], k, ls[k]) /\ ls[k].path = r[k].path /\ k \in 1 .. l
      /\ ls[k].level + 1 = Len(ls[k].path)
  <2>1. /\ ls[k].path \in Entries /\ ~ls[k].err /\ ls[k].level \in Nat /\ ls[k].level = Len(DirOf(ls[k]))
    BY TreeLine, LineFields DEF IsDir
  <2>2. Len(Front(ls[k].path)) = Len(ls[k].path) - 1 /\ Len(ls[k].path) \in Nat /\ ls[k].path # Root
    BY <2>1, PathFacts
  <2>3. ls[k].level + 1 = Len(ls[k].path)
    BY <2>1, <2>2 DEF DirOf
  <2>4. Shows(r[k], k, ls[k]) /\ k \in 1 .. l
    BY <1>2, <1>7
  <2>5. ls[k].path = r[k].path
    BY <2>4 DEF Shows
  <2>6. QED
    BY <2>1, <2>2, <2>3, <2>4, <2>5
<1>9. \A x \in 1 .. m0 : ls[x].level \in Nat
  BY TreeLine DEF m0
<1>10. ASSUME NEW x \in 1 .. m0, DirOf(r[Y(x)]) # Root
       PROVE  \E p \in 1 .. Y(x) - 1 : IsBelow(r, Y(x), p)
  <2>1. Y(x) \in 1 .. l /\ Shows(r[Y(x)], Y(x), ls[x])
    BY <1>2
  <2>2. DirOf(ls[x]) # Root
    BY <2>1, <1>10 DEF Shows
  <2>3. PICK m \in 1 .. x - 1 : IsBelow(ls, x, m)
    BY <2>2, TreeLine DEF m0
  <2>4. m \in 1 .. m0 /\ m < x /\ m # k
    <3>1. m # k
      BY <2>3 DEF IsBelow
    <3>2. QED
      BY <3>1, <1>2
  <2>5. Y(m) \in 1 .. l /\ Y(m) < Y(x) /\ Shows(r[Y(m)], Y(m), ls[m]) /\ r[Y(m)].open = ls[m].open
    BY <2>4, <1>2, <1>4
  <2>6. Y(m) \in 1 .. Y(x) - 1
    BY <2>1, <2>5, <1>2
  <2>7. r[Y(m)].path = DirOf(r[Y(x)]) /\ r[Y(m)].open
    BY <2>1, <2>3, <2>5 DEF IsBelow, Shows
  <2>8. ASSUME NEW z \in Y(m) + 1 .. Y(x) - 1
        PROVE  r[z].level \geq r[Y(x)].level
    <3>1. z \in 1 .. l /\ Y(m) < z /\ z < Y(x)
      BY <1>2, <2>1, <2>5
    <3>2. r[Y(x)].level = ls[x].level
      BY <2>1 DEF Shows
    <3>3. CASE \E w \in 1 .. m0 : z = Y(w)
      <4>1. PICK w \in 1 .. m0 : z = Y(w)
        BY <3>3
      <4>2. ~(w < m) /\ w # m /\ ~(x < w) /\ w # x
        <5>1. ~(Y(w) < Y(m)) /\ ~(Y(x) < Y(w)) /\ Y(w) # Y(m) /\ Y(w) # Y(x)
          BY <3>1, <4>1, <2>1, <2>5, <1>2
        <5>2. QED
          BY <5>1, <4>1, <2>4, <1>4
      <4>3. w \in m + 1 .. x - 1
        <5>1. w \in Int /\ m \in Int /\ x \in Int
          BY <1>2
        <5>2. QED
          BY <5>1, <4>2
      <4>4. ls[w].level \geq ls[x].level
        BY <4>3, <2>3 DEF IsBelow
      <4>5. r[z].level = ls[w].level
        BY <4>1, <1>2 DEF Shows
      <4>6. QED
        BY <4>4, <4>5, <3>2
    <3>4. CASE \E w \in 1 .. n : z = k + w
      <4>1. PICK w \in 1 .. n : z = k + w
        BY <3>4
      <4>2. r[z].level = ls[k].level + 1
        <5>1. r[k + w] = new[w]
          BY <4>1, <1>2
        <5>2. QED
          BY <5>1, <4>1, <1>3
      <4>3. m < k
        <5>1. CASE m > k
          <6>1. Y(m) = m + n
            BY <5>1, <2>4, <1>5
          <6>2. QED
            BY <6>1, <5>1, <4>1, <3>1, <1>2
        <5>2. QED
          BY <5>1, <2>4, <1>2
      <4>4. k < x
        <5>1. CASE x \leq k
          <6>1. Y(x) = x
            BY <5>1, <1>5
          <6>2. QED
            BY <6>1, <5>1, <4>1, <3>1, <1>2
        <5>2. QED
          BY <5>1, <1>2
      <4>5. k \in m + 1 .. x - 1
        BY <4>3, <4>4, <2>4, <1>2
      <4>6. ls[k].level \geq ls[x].level
        BY <4>5, <2>3 DEF IsBelow
      <4>7. QED
        BY <4>2, <4>6, <3>2, <1>8, <1>9
    <3>5. QED
      BY <3>1, <3>3, <3>4, <1>6
  <2>9. QED
    BY <2>6, <2>7, <2>8 DEF IsBelow
<1>11. ASSUME NEW x \in 1 .. n
       PROVE  k \in 1 .. k + x - 1 /\ IsBelow(r, k + x, k)
  <2>1. k \in 1 .. k + x - 1
    BY <1>2
  <2>2. r[k].path = DirOf(r[k + x]) /\ r[k].open
    <3>1. r[k + x] = new[x] /\ r[k].open
      BY <1>2
    <3>2. DirOf(new[x]) = ls[k].path /\ ls[k].path = r[k].path
      BY <1>3, <1>8
    <3>3. QED
      BY <3>1, <3>2
  <2>3. ASSUME NEW z \in k + 1 .. k + x - 1
        PROVE  r[z].level \geq r[k + x].level
    <3>1. z - k \in 1 .. n /\ z = k + (z - k)
      BY <1>2
    <3>2. PICK y \in 1 .. n : z = k + y
      BY <3>1
    <3>3. r[z].level = ls[k].level + 1 /\ r[k + x].level = ls[k].level + 1
      <4>1. r[k + y] = new[y] /\ r[k + x] = new[x]
        BY <3>2, <1>2
      <4>2. QED
        BY <4>1, <3>2, <1>3
    <3>4. QED
      BY <3>3, <1>8
  <2>4. QED
    BY <2>1, <2>2, <2>3 DEF IsBelow
<1>12. ASSUME NEW x \in 1 .. m0
       PROVE  /\ r[Y(x)].pos = Y(x) /\ r[Y(x)].level = Len(DirOf(r[Y(x)]))
              /\ r[Y(x)].open => IsDir(r[Y(x)])
              /\ r[Y(x)].err => ~r[Y(x)].open /\ (Y(x) < l => r[Y(x) + 1].level < r[Y(x)].level)
  <2>1. Y(x) \in 1 .. l /\ Shows(r[Y(x)], Y(x), ls[x]) /\ (x # k => r[Y(x)].open = ls[x].open)
    BY <1>2
  <2>2. /\ ls[x].level = Len(DirOf(ls[x]))
        /\ ls[x].err => ~ls[x].open /\ (x < m0 => ls[x + 1].level < ls[x].level)
        /\ ls[x].open => IsDir(ls[x])
    BY TreeLine DEF m0
  <2>3. r[Y(x)].pos = Y(x) /\ r[Y(x)].level = Len(DirOf(r[Y(x)]))
    BY <2>1, <2>2 DEF Shows
  <2>4. r[Y(x)].open => IsDir(r[Y(x)])
    BY <2>1, <2>2 DEF Shows
  <2>5. r[Y(x)].err => x # k /\ ~r[Y(x)].open
    BY <2>1, <2>2, <1>8 DEF Shows
  <2>6. ASSUME r[Y(x)].err, Y(x) < l
        PROVE  r[Y(x) + 1].level < r[Y(x)].level
    <3>1. x # k
      BY <2>5, <2>6
    <3>2. x < m0 /\ x + 1 \in 1 .. m0 /\ Y(x + 1) = Y(x) + 1
      <4>1. CASE x < k
        BY <4>1, <1>2, <1>5
      <4>2. CASE x > k
        <5>1. Y(x) = x + n
          BY <4>2, <1>5
        <5>2. x < m0 /\ x + 1 \in 1 .. m0 /\ x + 1 > k
          BY <5>1, <4>2, <2>6, <1>2
        <5>3. Y(x + 1) = x + 1 + n
          BY <5>2, <1>5
        <5>4. QED
          BY <5>1, <5>2, <5>3, <1>2
      <4>3. QED
        BY <3>1, <4>1, <4>2, <1>2
    <3>3. Shows(r[Y(x) + 1], Y(x) + 1, ls[x + 1])
      BY <3>2, <1>2
    <3>4. ls[x + 1].level < ls[x].level
      BY <3>2, <2>1, <2>2, <2>6 DEF Shows
    <3>5. QED
      BY <3>3, <3>4, <2>1 DEF Shows
  <2>7. QED
    BY <2>3, <2>4, <2>5, <2>6
<1>13. ASSUME NEW x \in 1 .. n
       PROVE  /\ r[k + x].pos = k + x /\ r[k + x].level = Len(DirOf(r[k + x])) /\ ~r[k + x].open
              /\ r[k + x].err /\ k + x < l => r[k + x + 1].level < r[k + x].level
  <2>1. r[k + x] = new[x]
    BY <1>2
  <2>2. r[k + x].pos = k + x /\ r[k + x].level = Len(DirOf(r[k + x])) /\ ~r[k + x].open
    BY <2>1, <1>3, <1>8
  <2>3. ASSUME r[k + x].err, k + x < l
        PROVE  r[k + x + 1].level < r[k + x].level
    <3>1. n = 1 /\ x = 1
      BY <2>1, <2>3, <1>3
    <3>2. k < m0 /\ k + 1 \in 1 .. m0 /\ k + 1 > k
      BY <3>1, <2>3, <1>2
    <3>3. Y(k + 1) = k + x + 1
      BY <3>1, <3>2, <1>5, <1>2
    <3>4. Shows(r[k + x + 1], k + x + 1, ls[k + 1])
      BY <3>2, <3>3, <1>2
    <3>5. ls[k + 1].level \leq ls[k].level
      BY <3>2, AfterClosed DEF m0
    <3>6. r[k + x].level = ls[k].level + 1
      BY <2>1, <1>3
    <3>7. r[k + x + 1].level = ls[k + 1].level /\ ls[k + 1].level \in Nat
      BY <3>2, <3>4, <1>9 DEF Shows
    <3>8. QED
      BY <3>5, <3>6, <3>7, <1>8
  <2>4. QED
    BY <2>2, <2>3
<1>14. InOrder(r)
  <2> SUFFICES ASSUME NEW x \in 1 .. l, NEW y \in 1 .. l, x < y, ~r[x].err, ~r[y].err,
                      Front(r[x].path) = Front(r[y].path)
               PROVE  ListedBefore(r[x].path, r[y].path)
    BY <1>2 DEF InOrder
  <2>1. DirOf(r[x]) = DirOf(r[y])
    BY DEF DirOf
  <2>2. \A w \in 1 .. m0 : DirOf(r[Y(w)]) # ls[k].path
    <3>1. \A w \in 1 .. m0 : DirOf(ls[w]) # ls[k].path
      BY NotBelowClosed DEF m0
    <3>2. \A w \in 1 .. m0 : DirOf(r[Y(w)]) = DirOf(ls[w])
      BY <1>2 DEF Shows
    <3>3. QED
      BY <3>1, <3>2
  <2>3. \A w \in 1 .. n : DirOf(r[k + w]) = ls[k].path
    BY <1>2, <1>3
  <2>4. CASE \E v \in 1 .. n : x = k + v
    <3>1. PICK v \in 1 .. n : x = k + v
      BY <2>4
    <3>2. PICK w \in 1 .. n : y = k + w
      BY <3>1, <2>1, <2>2, <2>3, <1>6
    <3>3. v < w
      BY <3>1, <3>2, <1>2
    <3>4. QED
      BY <3>1, <3>2, <3>3, <1>2, <1>3
  <2>5. CASE \E v \in 1 .. m0 : x = Y(v)
    <3>1. PICK v \in 1 .. m0 : x = Y(v)
      BY <2>5
    <3>2. PICK w \in 1 .. m0 : y = Y(w)
      BY <3>1, <2>1, <2>2, <2>3, <1>6
    <3>3. v < w
      <4>1. ~(Y(w) < Y(v)) /\ Y(w) # Y(v)
        BY <3>1, <3>2, <1>2
      <4>2. QED
        BY <4>1, <1>2, <1>4
    <3>4. ls[v].path = r[x].path /\ ~ls[v].err /\ ls[w].path = r[y].path /\ ~ls[w].err
      BY <3>1, <3>2, <1>2 DEF Shows
    <3>5. DOMAIN ls = 1 .. m0
      BY LenProperties DEF m0
    <3>6. QED
      BY <3>3, <3>4, <3>5 DEF IsTree, InOrder
  <2>6. QED
    BY <2>4, <2>5, <1>6
<1>15. ASSUME NEW y \in 1 .. l
       PROVE  /\ r[y].pos = y /\ r[y].level = Len(DirOf(r[y]))
              /\ DirOf(r[y]) # Root => \E p \in 1 .. y - 1 : IsBelow(r, y, p)
              /\ r[y].err => ~r[y].open /\ (y < l => r[y + 1].level < r[y].level)
              /\ r[y].open => IsDir(r[y])
  <2>1. CASE \E x \in 1 .. m0 : y = Y(x)
    BY <2>1, <1>10, <1>12
  <2>2. CASE \E x \in 1 .. n : y = k + x
    BY <2>2, <1>11, <1>13
  <2>3. QED
    BY <2>1, <2>2, <1>6
<1>16. QED
  BY <1>2, <1>14, <1>15 DEF IsTree, l

-----------------------------------------------------------------------------
(* What is shown of the directories. *)

LEMMA ShownIs ==
  ASSUME NEW ls \in Seq(Line)
  PROVE  \A dir : dir \in Shown(ls) <=>
           dir = Root \/ \E x \in 1 .. Len(ls) : IsDir(ls[x]) /\ ls[x].open /\ ls[x].path = dir
<1>1. DOMAIN ls = 1 .. Len(ls)
  BY LenProperties
<1>2. QED
  BY <1>1 DEF Shown

LEMMA ShownDirectories ==
  ASSUME NEW ls \in Seq(Line)
  PROVE  Shown(ls) \subseteq Directories
BY ShownIs DEF IsDir, Directories

(* A listing has the lines that another one has of the directory. *)
HasOf(r, ls, dir) ==
  \A x \in 1 .. Len(ls) : DirOf(ls[x]) = dir =>
    \E y \in 1 .. Len(r) : r[y].path = ls[x].path /\ r[y].err = ls[x].err

LEMMA UpToDateAlike ==
  ASSUME NEW ls \in Seq(Line), NEW r \in Seq(Line), NEW d, NEW dir,
         HasOf(r, ls, dir), HasOf(ls, r, dir), UpToDate(d, ls, dir)
  PROVE  UpToDate(d, r, dir)
<1>1. DOMAIN ls = 1 .. Len(ls) /\ DOMAIN r = 1 .. Len(r)
  BY LenProperties
<1>2. \A x \in 1 .. Len(ls) : (~ls[x].err /\ Front(ls[x].path) = dir) \/ (ls[x].err /\ ls[x].path = dir)
                                 => DirOf(ls[x]) = dir
  BY DEF DirOf
<1>3. \A x \in 1 .. Len(r) : (~r[x].err /\ Front(r[x].path) = dir) \/ (r[x].err /\ r[x].path = dir)
                                => DirOf(r[x]) = dir
  BY DEF DirOf
<1>4. ASSUME NEW p
      PROVE  p \in Listed(ls, dir) <=> p \in Listed(r, dir)
  <2>1. ASSUME p \in Listed(ls, dir)
        PROVE  p \in Listed(r, dir)
    <3>1. PICK x \in 1 .. Len(ls) : ~ls[x].err /\ Front(ls[x].path) = dir /\ p = ls[x].path
      BY <2>1, <1>1 DEF Listed
    <3>2. PICK y \in 1 .. Len(r) : r[y].path = ls[x].path /\ r[y].err = ls[x].err
      BY <3>1, <1>2 DEF HasOf
    <3>3. QED
      BY <3>1, <3>2, <1>1 DEF Listed
  <2>2. ASSUME p \in Listed(r, dir)
        PROVE  p \in Listed(ls, dir)
    <3>1. PICK x \in 1 .. Len(r) : ~r[x].err /\ Front(r[x].path) = dir /\ p = r[x].path
      BY <2>2, <1>1 DEF Listed
    <3>2. PICK y \in 1 .. Len(ls) : ls[y].path = r[x].path /\ ls[y].err = r[x].err
      BY <3>1, <1>3 DEF HasOf
    <3>3. QED
      BY <3>1, <3>2, <1>1 DEF Listed
  <2>3. QED
    BY <2>1, <2>2
<1>5. (\E x \in 1 .. Len(ls) : ls[x].err /\ ls[x].path = dir) <=> (\E x \in 1 .. Len(r) : r[x].err /\ r[x].path = dir)
  BY <1>2, <1>3 DEF HasOf
<1>6. Listed(r, dir) = Listed(ls, dir)
  BY <1>4
<1>7. QED
  BY <1>1, <1>5, <1>6 DEF UpToDate

LEMMA CollapsedShows ==
  ASSUME NEW ls \in Seq(Line), IsTree(ls), NEW k \in 1 .. Len(ls), ls[k].open, NEW end, NEW r,
         IsCollapsedAt(ls, k, end, r), NEW dir \in Shown(r)
  PROVE  dir \in Shown(ls) /\ HasOf(r, ls, dir) /\ HasOf(ls, r, dir)
<1> DEFINE by == end - k - 1
           B(x) == Before(k, by, x)
           n == Len(ls)
           l == Len(r)
<1>1. /\ n \in Nat /\ l \in Nat /\ by \in Nat /\ k \in 1 .. l /\ l = n - by /\ end = k + 1 + by
      /\ \A x \in 1 .. l : B(x) \in 1 .. n /\ Shows(r[x], x, ls[B(x)]) /\ (x # k => r[x].open = ls[B(x)].open)
      /\ ~r[k].open
  <2>1. end \in Int
    BY LenProperties DEF IsCollapsedAt
  <2>2. end = k + 1 + by /\ by = end - k - 1
    BY <2>1
  <2> HIDE DEF by
  <2>3. AreRest(ls, k, by, r)
    BY <2>2, CollapsedLines
  <2>4. QED
    BY <2>2, <2>3 DEF AreRest
<1>2. /\ k \in Nat /\ end \in k + 1 .. n + 1 /\ k \leq n /\ r \in Seq(Line)
      /\ \A x \in k + 1 .. end - 1 : ls[x].level > ls[k].level
  BY <1>1 DEF IsCollapsedAt
<1> HIDE DEF by, l, n
<1>3. \A x \in 1 .. l : (x \leq k => B(x) = x) /\ (x > k => B(x) = x + by)
  BY <1>1 DEF Before
<1> HIDE DEF B
<1>4. HasOf(ls, r, dir)
  <2>1. \A x \in 1 .. l : B(x) \in 1 .. n /\ ls[B(x)].path = r[x].path /\ ls[B(x)].err = r[x].err
    BY <1>1 DEF Shows
  <2>2. QED
    BY <2>1 DEF HasOf, l, n
<1>5. \A x \in 1 .. n : ls[x].level \in Nat
  BY TreeLine DEF n
<1>6. dir # Root => \E x \in 1 .. l : x # k /\ IsDir(ls[B(x)]) /\ ls[B(x)].open /\ ls[B(x)].path = dir
  <2> SUFFICES ASSUME dir # Root
               PROVE  \E x \in 1 .. l : x # k /\ IsDir(ls[B(x)]) /\ ls[B(x)].open /\ ls[B(x)].path = dir
    OBVIOUS
  <2>1. PICK x \in 1 .. l : IsDir(r[x]) /\ r[x].open /\ r[x].path = dir
    BY <1>2, ShownIs DEF l
  <2>2. x # k
    BY <2>1, <1>1
  <2>3. QED
    BY <2>1, <2>2, <1>1 DEF Shows
<1>7. dir \in Shown(ls)
  <2>1. CASE dir = Root
    BY <2>1, ShownIs
  <2>2. CASE dir # Root
    BY <2>2, <1>1, <1>6, ShownIs DEF n
  <2>3. QED
    BY <2>1, <2>2
<1>8. ASSUME NEW x \in 1 .. n, DirOf(ls[x]) = dir
      PROVE  \E y \in 1 .. l : r[y].path = ls[x].path /\ r[y].err = ls[x].err
  <2>1. x \notin k + 1 .. end - 1
    <3> SUFFICES ASSUME x \in k + 1 .. end - 1
                 PROVE  FALSE
      OBVIOUS
    <3>1. ls[x].level > ls[k].level /\ k \in 1 .. n
      BY <1>1, <1>2
    <3>2. dir # Root
      <4>1. ls[x].level = Len(dir)
        BY <1>8, TreeLine DEF n
      <4>2. ls[x].level # 0
        BY <3>1, <1>5
      <4>3. QED
        BY <4>1, <4>2, EmptySeq DEF Root
    <3>3. PICK m \in 1 .. x - 1 : IsBelow(ls, x, m)
      BY <3>2, <1>8, TreeLine DEF n
    <3>4. m \in 1 .. n /\ ~ls[m].err /\ ls[m].path = dir
      <4>1. ~ls[m].err
        BY <3>3, BelowLevel DEF n
      <4>2. QED
        BY <4>1, <3>3, <1>1, <1>8 DEF IsBelow
    <3>5. PICK y \in 1 .. l : y # k /\ IsDir(ls[B(y)]) /\ ls[B(y)].open /\ ls[B(y)].path = dir
      BY <3>2, <1>6
    <3>6. B(y) = m
      <4>1. B(y) \in 1 .. n /\ ~ls[B(y)].err
        BY <3>5, <1>1 DEF IsDir
      <4>2. QED
        BY <4>1, <3>4, <3>5, PathOnce DEF n
    <3>7. m < k \/ m \geq end
      BY <3>5, <3>6, <1>1, <1>2, <1>3
    <3>8. m < k
      BY <3>7, <3>4, <1>1, <1>2
    <3>9. k \in m + 1 .. x - 1
      BY <3>8, <3>4, <1>1, <1>2
    <3>10. ls[k].level \geq ls[x].level
      BY <3>9, <3>3 DEF IsBelow
    <3>11. QED
      BY <3>1, <3>10, <1>5
  <2>2. PICK y \in 1 .. l : B(y) = x
    <3>1. CASE x \leq k
      <4>1. x \in 1 .. l
        BY <3>1, <1>1, <1>2
      <4>2. QED
        BY <4>1, <3>1, <1>3
    <3>2. CASE x > k
      <4>1. x - by \in 1 .. l /\ x - by > k /\ (x - by) + by = x
        BY <2>1, <3>2, <1>1, <1>2
      <4>2. QED
        BY <4>1, <1>3
    <3>3. QED
      BY <3>1, <3>2, <1>1, <1>2
  <2>3. QED
    BY <2>2, <1>1 DEF Shows
<1>9. HasOf(r, ls, dir)
  BY <1>8 DEF HasOf, l, n
<1>10. QED
  BY <1>4, <1>7, <1>9

LEMMA ExpandedShows ==
  ASSUME NEW ls \in Seq(Line), IsTree(ls), NEW k \in 1 .. Len(ls), IsDir(ls[k]), ~ls[k].open,
         NEW d, NEW new, AreRead(new, d, ls[k].path, ls[k].level + 1, k), ls[k].path # Root,
         NEW r, IsExpandedAt(ls, k, new, r), NEW dir \in Shown(r)
  PROVE  IF dir = ls[k].path THEN UpToDate(d, r, dir)
           ELSE dir \in Shown(ls) /\ HasOf(r, ls, dir) /\ HasOf(ls, r, dir)
<1> DEFINE n == Len(new)
           m0 == Len(ls)
           l == Len(r)
           Y(x) == IF x \leq k THEN x ELSE x + n
<1>1. AreWith(ls, k, new, r)
  BY ExpandedLines DEF AreRead
<1>2. /\ m0 \in Nat /\ n \in Nat /\ l = m0 + n /\ k \in 1 .. m0 /\ k \in Nat
      /\ \A x \in 1 .. m0 : Y(x) \in 1 .. l /\ Shows(r[Y(x)], Y(x), ls[x]) /\ (x # k => r[Y(x)].open = ls[x].open)
      /\ \A x \in 1 .. n : k + x \in 1 .. l /\ r[k + x] = new[x]
  BY <1>1 DEF AreWith
<1>3. r \in Seq(Line) /\ DOMAIN r = 1 .. l
  <2>1. r \in Seq(Line)
    BY DEF IsExpandedAt
  <2>2. QED
    BY <2>1, LenProperties
<1> HIDE DEF n, m0, l
<1>4. ASSUME NEW y \in 1 .. l
      PROVE  (\E x \in 1 .. m0 : y = Y(x)) \/ (\E x \in 1 .. n : y = k + x)
  <2>1. CASE y \leq k
    BY <2>1, <1>2
  <2>2. CASE y > k /\ y \leq k + n
    <3>1. y - k \in 1 .. n /\ y = k + (y - k)
      BY <2>2, <1>2
    <3>2. QED
      BY <3>1
  <2>3. CASE y > k + n
    <3>1. y - n \in 1 .. m0 /\ y = Y(y - n)
      BY <2>3, <1>2
    <3>2. QED
      BY <3>1
  <2>4. QED
    BY <2>1, <2>2, <2>3, <1>2
<1> HIDE DEF Y
<1>5. \A x \in 1 .. n : DirOf(new[x]) = ls[k].path /\ ~new[x].open
  BY DEF AreRead, n
<1>6. \A x \in 1 .. m0 : /\ DirOf(ls[x]) # ls[k].path
                         /\ Y(x) \in 1 .. l /\ r[Y(x)].path = ls[x].path /\ r[Y(x)].err = ls[x].err
                         /\ DirOf(r[Y(x)]) = DirOf(ls[x])
  BY <1>2, NotBelowClosed DEF Shows, m0
<1>7. \A x \in 1 .. n : k + x \in 1 .. l /\ r[k + x].path = new[x].path /\ r[k + x].err = new[x].err
                        /\ DirOf(r[k + x]) = ls[k].path /\ ~r[k + x].open
  BY <1>2, <1>5
<1>8. CASE dir = ls[k].path
  <2>1. ASSUME NEW y \in 1 .. l, DirOf(r[y]) = dir
        PROVE  \E x \in 1 .. n : y = k + x
    <3>1. ~ \E x \in 1 .. m0 : y = Y(x)
      BY <1>6, <1>8, <2>1
    <3>2. QED
      BY <3>1, <1>4
  <2>2. ASSUME NEW p
        PROVE  p \in Listed(r, dir) <=> p \in Children(d, dir)
    <3>1. ASSUME p \in Listed(r, dir)
          PROVE  p \in Children(d, dir)
      <4>1. PICK y \in 1 .. l : ~r[y].err /\ Front(r[y].path) = dir /\ p = r[y].path
        BY <3>1, <1>3 DEF Listed
      <4>2. DirOf(r[y]) = dir
        BY <4>1 DEF DirOf
      <4>3. PICK x \in 1 .. n : y = k + x
        BY <4>2, <2>1
      <4>4. ~new[x].err /\ new[x].path = p
        BY <4>1, <4>3, <1>7
      <4>5. p \in d
        BY <4>4 DEF AreRead, n
      <4>6. QED
        BY <4>1, <4>5 DEF Children
    <3>2. ASSUME p \in Children(d, dir)
          PROVE  p \in Listed(r, dir)
      <4>1. PICK x \in 1 .. n : ~new[x].err /\ new[x].path = p
        BY <3>2, <1>8 DEF AreRead, n
      <4>2. k + x \in 1 .. l /\ ~r[k + x].err /\ r[k + x].path = p
        BY <4>1, <1>7
      <4>3. Front(p) = dir
        BY <3>2 DEF Children
      <4>4. QED
        BY <4>2, <4>3, <1>3 DEF Listed
    <3>3. QED
      BY <3>1, <3>2
  <2>3. (\E y \in 1 .. l : r[y].err /\ r[y].path = dir) <=> dir \notin d \cup {Root}
    <3>1. ASSUME NEW y \in 1 .. l, r[y].err, r[y].path = dir
          PROVE  dir \notin d \cup {Root}
      <4>1. DirOf(r[y]) = dir
        BY <3>1 DEF DirOf
      <4>2. PICK x \in 1 .. n : y = k + x
        BY <4>1, <2>1
      <4>3. new[x].err
        BY <3>1, <4>2, <1>7
      <4>4. QED
        BY <4>3, <1>8 DEF AreRead, n
    <3>2. ASSUME dir \notin d \cup {Root}
          PROVE  \E y \in 1 .. l : r[y].err /\ r[y].path = dir
      <4>1. PICK x \in 1 .. n : new[x].err
        BY <3>2, <1>8 DEF AreRead, n
      <4>2. k + x \in 1 .. l /\ r[k + x].err /\ DirOf(r[k + x]) = dir
        BY <4>1, <1>7, <1>8
      <4>3. QED
        BY <4>2 DEF DirOf
    <3>3. QED
      BY <3>1, <3>2
  <2>4. Listed(r, dir) = Children(d, dir)
    BY <2>2
  <2>5. QED
    BY <2>3, <2>4, <1>3, <1>8 DEF UpToDate
<1>9. CASE dir # ls[k].path
  <2>1. HasOf(r, ls, dir)
    BY <1>6 DEF HasOf, l, m0
  <2>2. HasOf(ls, r, dir)
    <3>1. ASSUME NEW y \in 1 .. l, DirOf(r[y]) = dir
          PROVE  \E x \in 1 .. m0 : ls[x].path = r[y].path /\ ls[x].err = r[y].err
      <4>1. ~ \E x \in 1 .. n : y = k + x
        BY <1>7, <1>9, <3>1
      <4>2. PICK x \in 1 .. m0 : y = Y(x)
        BY <4>1, <1>4
      <4>3. QED
        BY <4>2, <1>6
    <3>2. QED
      BY <3>1 DEF HasOf, l, m0
  <2>3. dir \in Shown(ls)
    <3>1. CASE dir = Root
      BY <3>1, ShownIs
    <3>2. CASE dir # Root
      <4>1. PICK y \in 1 .. l : IsDir(r[y]) /\ r[y].open /\ r[y].path = dir
        BY <3>2, <1>3, ShownIs DEF l
      <4>2. ~ \E x \in 1 .. n : y = k + x
        BY <4>1, <1>7
      <4>3. PICK x \in 1 .. m0 : y = Y(x)
        BY <4>2, <1>4
      <4>4. x # k
        BY <4>1, <4>3, <1>6, <1>9
      <4>5. IsDir(ls[x]) /\ ls[x].open /\ ls[x].path = dir
        BY <4>1, <4>3, <4>4, <1>2 DEF Shows
      <4>6. QED
        BY <4>5, ShownIs DEF m0
    <3>3. QED
      BY <3>1, <3>2
  <2>4. QED
    BY <1>9, <2>1, <2>2, <2>3
<1>10. QED
  BY <1>8, <1>9

-----------------------------------------------------------------------------
(* What Engage and LoadFolder return. *)

EngagedFrom(d, ls, k, r) ==
  /\ r \in Seq(Line) /\ IsTree(r) /\ k \in 1 .. Len(r)
  /\ \A dir \in Shown(r) :
       IF ~ls[k].open /\ dir = ls[k].path
         THEN UpToDate(d, r, dir)
         ELSE dir \in Shown(ls) /\ HasOf(r, ls, dir) /\ HasOf(ls, r, dir)

LEMMA EngageIs ==
  ASSUME NEW d, OnDisk(d), NEW ls \in Seq(Line), IsTree(ls), NEW k \in 1 .. Len(ls), IsDir(ls[k])
  PROVE  EngagedFrom(d, ls, k, Engage(d, ls, k))
<1> DEFINE r == Engage(d, ls, k)
<1>1. ls[k].path # Root
  BY TreeLine, LineFields, PathFacts
<1>2. CASE ls[k].open
  <2>1. PICK end : IsCollapsedAt(ls, k, end, r)
    BY <1>2, CollapseIs
  <2> HIDE DEF r
  <2>2. r \in Seq(Line) /\ Len(r) = Len(ls) - (end - k - 1) /\ end \in k + 1 .. Len(ls) + 1
    BY <2>1 DEF IsCollapsedAt
  <2>3. k \in 1 .. Len(r)
    BY <2>2, LenProperties
  <2>4. IsTree(r)
    BY <1>2, <2>1, CollapsedTree
  <2>5. \A dir \in Shown(r) : dir \in Shown(ls) /\ HasOf(r, ls, dir) /\ HasOf(ls, r, dir)
    BY <1>2, <2>1, CollapsedShows
  <2>6. EngagedFrom(d, ls, k, r)
    BY <1>2, <2>2, <2>3, <2>4, <2>5 DEF EngagedFrom
  <2>7. QED
    BY <2>6 DEF r
<1>3. CASE ~ls[k].open
  <2>1. PICK new : AreRead(new, d, ls[k].path, ls[k].level + 1, k) /\ IsExpandedAt(ls, k, new, r)
    BY <1>3, ExpandIs
  <2> HIDE DEF r
  <2>2. r \in Seq(Line) /\ Len(r) = Len(ls) + Len(new) /\ new \in Seq(Line)
    BY <2>1 DEF IsExpandedAt, AreRead
  <2>3. k \in 1 .. Len(r)
    <3>1. Len(ls) \in Nat /\ Len(new) \in Nat
      BY <2>2, LenProperties
    <3>2. QED
      BY <2>2, <3>1
  <2>4. IsTree(r)
    BY <1>3, <2>1, ExpandedTree
  <2>5. \A dir \in Shown(r) : IF dir = ls[k].path THEN UpToDate(d, r, dir)
                                ELSE dir \in Shown(ls) /\ HasOf(r, ls, dir) /\ HasOf(ls, r, dir)
    BY <1>1, <1>3, <2>1, ExpandedShows
  <2>6. EngagedFrom(d, ls, k, r)
    BY <1>3, <2>2, <2>3, <2>4, <2>5 DEF EngagedFrom
  <2>7. QED
    BY <2>6 DEF r
<1>4. QED
  BY <1>2, <1>3

(* A listing with no directory expanded. *)
IsCollapsed(ls) == ls \in Seq(Line) /\ IsTree(ls) /\ \A k \in 1 .. Len(ls) : ~ls[k].err /\ ~ls[k].open

LEMMA ShownOfCollapsed ==
  ASSUME NEW ls, IsCollapsed(ls)
  PROVE  Shown(ls) = {Root}
<1>1. ls \in Seq(Line) /\ \A k \in 1 .. Len(ls) : ~ls[k].open
  BY DEF IsCollapsed
<1>2. \A dir : dir \in Shown(ls) <=> dir = Root
  BY <1>1, ShownIs
<1>3. QED
  BY <1>2

LEMMA NoLinesTree == <<>> \in Seq(Line) /\ Len(<<>>) = 0 /\ IsTree(<<>>)
<1>1. <<>> \in Seq(Line) /\ Len(<<>>) = 0
  BY EmptySeq
<1>2. DOMAIN <<>> = {}
  BY <1>1, LenProperties
<1>3. QED
  BY <1>1, <1>2 DEF IsTree, InOrder

LEMMA LoadIs ==
  ASSUME NEW d, OnDisk(d)
  PROVE  IsCollapsed(Load(d)) /\ UpToDate(d, Load(d), Root)
<1> DEFINE ls == Load(d)
<1>1. AreRead(ls, d, Root, 0, 0)
  <2>1. Root \in Directories /\ 0 \in Nat
    BY DEF Directories
  <2>2. QED
    BY <2>1, ReadIs DEF Load
<1> HIDE DEF ls
<1>2. /\ ls \in Seq(Line) /\ DOMAIN ls = 1 .. Len(ls)
      /\ \A x \in 1 .. Len(ls) :
           /\ ls[x].level = 0 /\ ls[x].pos = 0 + x /\ ~ls[x].open /\ ~ls[x].err
           /\ DirOf(ls[x]) = Root /\ ls[x].path \in d
      /\ \A x, y \in 1 .. Len(ls) : x < y => ListedBefore(ls[x].path, ls[y].path)
      /\ \A p \in Children(d, Root) : \E x \in 1 .. Len(ls) : ls[x].path = p
  BY <1>1, LenProperties DEF AreRead
<1>3. IsTree(ls)
  <2>1. Len(Root) = 0
    BY EmptySeq DEF Root
  <2>2. \A x \in 1 .. Len(ls) : ls[x].pos = x /\ ls[x].level = Len(DirOf(ls[x]))
    BY <1>2, <2>1
  <2>3. QED
    BY <1>2, <2>2 DEF IsTree, InOrder
<1>4. IsCollapsed(ls)
  BY <1>2, <1>3 DEF IsCollapsed
<1>5. \A x \in 1 .. Len(ls) : Front(ls[x].path) = Root
  BY <1>2 DEF DirOf
<1>6. ASSUME NEW p
      PROVE  p \in Listed(ls, Root) <=> p \in Children(d, Root)
  <2>1. p \in Listed(ls, Root) <=> \E x \in 1 .. Len(ls) : ls[x].path = p
    BY <1>2, <1>5 DEF Listed
  <2>2. p \in Children(d, Root) <=> p \in d /\ Front(p) = Root
    BY DEF Children
  <2>3. QED
    BY <1>2, <1>5, <2>1, <2>2
<1>7. Listed(ls, Root) = Children(d, Root)
  BY <1>6
<1>8. UpToDate(d, ls, Root)
  BY <1>2, <1>7 DEF UpToDate
<1>9. QED
  BY <1>4, <1>8 DEF ls

LEMMA FrontOfRoot == Front(Root) = Root
<1>1. Len(<<>>) = 0
  BY EmptySeq
<1>2. Len(<<>>) - 1 \in Int /\ Len(<<>>) - 1 < 1
  BY <1>1
<1>3. SubSeq(<<>>, 1, Len(<<>>) - 1) = <<>>
  BY <1>2, SubSeqEmpty
<1>4. QED
  BY <1>3 DEF Front, Root

(* A directory is shown only if the one it is in is. *)
LEMMA ShownFronts ==
  ASSUME NEW ls \in Seq(Line), IsTree(ls), NEW dir \in Shown(ls)
  PROVE  Front(dir) \in Shown(ls)
<1>1. CASE dir = Root
  BY <1>1, FrontOfRoot
<1>2. CASE dir # Root /\ Front(dir) # Root
  <2>1. PICK x \in 1 .. Len(ls) : IsDir(ls[x]) /\ ls[x].open /\ ls[x].path = dir
    BY <1>2, ShownIs
  <2>2. DirOf(ls[x]) = Front(dir)
    BY <2>1 DEF DirOf, IsDir
  <2>3. PICK m \in 1 .. x - 1 : IsBelow(ls, x, m)
    BY <1>2, <2>2, TreeLine
  <2>4. m \in 1 .. Len(ls) /\ IsDir(ls[m]) /\ ls[m].open
    BY <2>3, BelowLevel
  <2>5. ls[m].path = Front(dir)
    BY <2>2, <2>3 DEF IsBelow
  <2>6. QED
    BY <2>4, <2>5, ShownIs
<1>3. CASE Front(dir) = Root
  BY <1>3, ShownIs
<1>4. QED
  BY <1>1, <1>2, <1>3

-----------------------------------------------------------------------------
(* Changes of the tree. *)

(* Below p is p and what its directory is below p. *)
LEMMA PrefixOfFront ==
  ASSUME NEW p \in Entries, NEW q \in Entries, p # q
  PROVE  IsPrefix(p, q) <=> IsPrefix(p, Front(q))
<1> DEFINE n == Len(p)
           m == Len(q)
           f == Front(q)
<1>1. /\ p \in Seq(Nat \ {0}) /\ q \in Seq(Nat \ {0}) /\ f \in Seq(Nat \ {0})
      /\ n \in Nat \ {0} /\ m \in Nat \ {0} /\ Len(f) = m - 1
  BY PathFacts
<1>2. \A x \in 1 .. m - 1 : f[x] = q[x]
  BY <1>1 DEF Front
<1> HIDE DEF f, n, m
<1>3. ASSUME n \leq m - 1
      PROVE  SubSeq(f, 1, n) = SubSeq(q, 1, n)
  <2>1. \A x \in 1 .. n : f[x] = q[x]
    BY <1>1, <1>2, <1>3
  <2>2. QED
    BY <1>1, <2>1, <1>3 DEF n
<1>4. ASSUME n = m, SubSeq(p, 1, n) = SubSeq(q, 1, n)
      PROVE  FALSE
  <2>1. SubSeq(p, 1, Len(p)) = p /\ SubSeq(q, 1, Len(q)) = q
    BY <1>1
  <2>2. QED
    BY <1>4, <2>1 DEF n, m
<1>5. ASSUME IsPrefix(p, q)
      PROVE  IsPrefix(p, f)
  <2>1. n \leq m /\ SubSeq(p, 1, n) = SubSeq(q, 1, n)
    BY <1>5 DEF IsPrefix, n, m
  <2>2. n \leq m - 1
    BY <2>1, <1>4, <1>1
  <2>3. QED
    BY <2>1, <2>2, <1>1, <1>3 DEF IsPrefix, n
<1>6. ASSUME IsPrefix(p, f)
      PROVE  IsPrefix(p, q)
  <2>1. n \leq m - 1 /\ SubSeq(p, 1, n) = SubSeq(f, 1, n)
    BY <1>6, <1>1 DEF IsPrefix, n
  <2>2. n \leq m
    BY <2>1, <1>1
  <2>3. QED
    BY <2>1, <2>2, <1>3 DEF IsPrefix, n, m
<1>7. QED
  BY <1>5, <1>6 DEF f

(* Nothing is below what is below p: only the directory of p loses an entry that stays. *)
LEMMA GoneIs ==
  ASSUME NEW d, OnDisk(d), NEW p \in d, NEW gone, gone = {q \in d : IsPrefix(p, q)}
  PROVE  /\ OnDisk(d \ gone)
         /\ p \in gone
         /\ \A q \in gone : q = p \/ Front(q) \in gone \cap Folders
<1>1. d \subseteq Entries /\ IsFiniteSet(d) /\ \A q \in d : Front(q) \in d \cup {Root}
  BY DEF OnDisk
<1>2. ~IsPrefix(p, Root)
  <2>1. Len(p) \in Nat \ {0} /\ Len(Root) = 0
    BY <1>1, PathFacts, EmptySeq DEF Root
  <2>2. QED
    BY <2>1 DEF IsPrefix
<1>3. ASSUME NEW q \in gone, q # p
      PROVE  Front(q) \in gone \cap Folders
  <2>1. IsPrefix(p, Front(q))
    BY <1>1, <1>3, PrefixOfFront
  <2>2. Front(q) # Root
    BY <1>2, <2>1
  <2>3. Front(q) \in Directories
    BY <1>1, PathFacts
  <2>4. QED
    BY <1>1, <2>1, <2>2, <2>3 DEF Directories
<1>4. p \in gone
  BY DEF IsPrefix
<1>5. ASSUME NEW q \in d \ gone
      PROVE  Front(q) \in (d \ gone) \cup {Root}
  <2>1. Front(q) \notin gone
    <3>1. q # p
      BY <1>4
    <3>2. ~IsPrefix(p, Front(q))
      BY <3>1, <1>1, PrefixOfFront
    <3>3. QED
      BY <3>2
  <2>2. QED
    BY <2>1, <1>1
<1>6. IsFiniteSet(d \ gone)
  BY <1>1, FS_Subset
<1>7. QED
  BY <1>1, <1>3, <1>4, <1>5, <1>6 DEF OnDisk

-----------------------------------------------------------------------------
(* The invariant. *)

(* The listing shows what is in the directory, or this is noticed: the directory, or the one it  *)
(* is in, has a change to report, a reload is on its way, or the change was missed.              *)
NoticedIn(d, ev, on, ms, ls, dir) ==
  UpToDate(d, ls, dir) \/ dir \in ev \/ Front(dir) \in ev \/ on # <<>> \/ dir \in ms

Noticed(ls, dir) == NoticedIn(disk, event, reloads, missed, ls, dir)

(* Entries are in directories that are there; the directory of a watched one is watched. *)
WithFronts == OnDisk(disk) /\ \A dir \in watched : Front(dir) \in watched

ReloadsCollapsed == \A n \in 1 .. Len(reloads) : IsCollapsed(reloads[n])

OutOfSync == loop \notin {"sync", "panic"} => fc = <<>> /\ i = 1 /\ j = 1

LinesNoticed == loop \in {"idle", "watch"} => \A dir \in Shown(lines) : Noticed(lines, dir)

SyncNoticed == loop = "sync" => \A dir \in Shown(fc) : Noticed(fc, dir)

(* What the last of the reloads does not show of the root is yet to be reported, or missed. *)
LastNoticed ==
  loop # "closed" /\ reloads # <<>> =>
    NoticedIn(disk, event, <<>>, missed, reloads[Len(reloads)], Root)

IInv ==
  /\ TypeOK /\ ListingIsTree /\ WithFronts /\ ReloadsCollapsed /\ OutOfSync
  /\ LinesNoticed /\ SyncNoticed /\ LastNoticed

LEMMA UpToDateWhenSame ==
  ASSUME NEW d, NEW e, NEW ls, NEW dir, UpToDate(d, ls, dir),
         Children(e, dir) = Children(d, dir), dir \in e \cup {Root} <=> dir \in d \cup {Root}
  PROVE  UpToDate(e, ls, dir)
BY DEF UpToDate

LEMMA NoticedAlike ==
  ASSUME NEW ls \in Seq(Line), NEW r \in Seq(Line), NEW d, NEW ev, NEW on, NEW ms, NEW dir,
         HasOf(r, ls, dir), HasOf(ls, r, dir), NoticedIn(d, ev, on, ms, ls, dir)
  PROVE  NoticedIn(d, ev, on, ms, r, dir)
BY UpToDateAlike DEF NoticedIn

LEMMA InitInvariant ==
  ASSUME Init
  PROVE  IInv
<1>1. OnDisk(disk)
  BY DEF Init, OnDisk
<1>2. lines = Load(disk) /\ IsCollapsed(lines) /\ UpToDate(disk, lines, Root)
  BY <1>1, LoadIs DEF Init
<1>3. Shown(lines) = {Root}
  BY <1>2, ShownOfCollapsed
<1>4. /\ changes = 0 /\ watched = {} /\ event = {} /\ reloads = <<>> /\ loop = "watch"
      /\ fc = <<>> /\ i = 1 /\ j = 1 /\ missed = {}
  BY DEF Init
<1>5. lines \in Seq(Line) /\ IsTree(lines) /\ Len(lines) \in Nat
  BY <1>2, LenProperties DEF IsCollapsed
<1>6. fc \in Seq(Line) /\ IsTree(fc) /\ Len(fc) = 0
  BY <1>4, NoLinesTree
<1>7. reloads \in Seq(Seq(Line)) /\ Len(reloads) = 0
  BY <1>4, EmptySeq
<1>8. TypeOK
  BY <1>1, <1>4, <1>5, <1>6, <1>7, MaxChangesAssumption DEF TypeOK, OnDisk
<1>9. ListingIsTree /\ WithFronts /\ ReloadsCollapsed /\ OutOfSync /\ SyncNoticed /\ LastNoticed
  BY <1>1, <1>4, <1>5, <1>6, <1>7
     DEF ListingIsTree, WithFronts, ReloadsCollapsed, OutOfSync, SyncNoticed, LastNoticed
<1>10. LinesNoticed
  BY <1>2, <1>3 DEF LinesNoticed, Noticed, NoticedIn
<1>11. QED
  BY <1>8, <1>9, <1>10 DEF IInv

(* A change outside of the editor: only the directories that differ have other entries, or are   *)
(* there or not from now on, and a watch of one, or of the one it is in, tells of it.            *)
LEMMA ChangeKeepsInvariant ==
  ASSUME IInv, NEW new, NEW changed, NEW differ, Change(new, changed, differ),
         OnDisk(new), differ \subseteq Directories,
         \A dir \in Directories \ differ :
           Children(new, dir) = Children(disk, dir) /\ (dir \in new \cup {Root} <=> dir \in disk \cup {Root}),
         \A dir \in differ \cap watched : dir \in changed \cap watched \/ Front(dir) \in changed \cap watched
  PROVE  IInv'
<1>1. TypeOK /\ ListingIsTree /\ WithFronts /\ ReloadsCollapsed /\ OutOfSync
      /\ LinesNoticed /\ SyncNoticed /\ LastNoticed
  BY DEF IInv
<1>2. /\ changes' = changes + 1 /\ changes < MaxChanges /\ disk' = new
      /\ event' = event \cup (changed \cap watched)
      /\ missed' = missed \cup (differ \ watched)
      /\ UNCHANGED <<lines, watched, loop, fc, i, j, reloads>>
  BY DEF Change, buffer, sync
<1>3. ASSUME NEW ls, NEW dir \in Directories, NEW on, NoticedIn(disk, event, on, missed, ls, dir)
      PROVE  NoticedIn(disk', event', on, missed', ls, dir)
  <2>1. CASE dir \in differ
    BY <1>2, <2>1 DEF NoticedIn
  <2>2. CASE dir \notin differ
    BY <1>2, <1>3, <2>2, UpToDateWhenSame DEF NoticedIn
  <2>3. QED
    BY <2>1, <2>2
<1>4. Shown(lines) \subseteq Directories /\ Shown(fc) \subseteq Directories /\ Root \in Directories
  BY <1>1, ShownDirectories DEF TypeOK, Directories
<1>5. TypeOK'
  <2>1. changes' \in 0 .. MaxChanges
    BY <1>1, <1>2, MaxChangesAssumption DEF TypeOK
  <2>2. QED
    BY <1>1, <1>2, <2>1 DEF TypeOK, OnDisk
<1>6. ListingIsTree' /\ WithFronts' /\ ReloadsCollapsed' /\ OutOfSync'
  BY <1>1, <1>2 DEF ListingIsTree, WithFronts, ReloadsCollapsed, OutOfSync
<1>7. LinesNoticed'
  BY <1>1, <1>2, <1>3, <1>4 DEF LinesNoticed, Noticed
<1>8. SyncNoticed'
  BY <1>1, <1>2, <1>3, <1>4 DEF SyncNoticed, Noticed
<1>9. LastNoticed'
  BY <1>1, <1>2, <1>3, <1>4 DEF LastNoticed
<1>10. QED
  BY <1>5, <1>6, <1>7, <1>8, <1>9 DEF IInv

LEMMA CreateKeepsInvariant ==
  ASSUME IInv, NEW p \in Entries, Create(p)
  PROVE  IInv'
<1> DEFINE new == disk \cup {p}
           differ == {Front(p)} \cup ({p} \cap Folders)
<1>1. OnDisk(disk) /\ (\A dir \in watched : Front(dir) \in watched)
  BY DEF IInv, WithFronts
<1>2. p \notin disk /\ Front(p) \in disk \cup {Root} /\ Change(new, {Front(p)}, differ)
  BY DEF Create
<1>3. OnDisk(new)
  <2>1. IsFiniteSet(new)
    BY <1>1, FS_AddElement DEF OnDisk
  <2>2. QED
    BY <1>1, <1>2, <2>1 DEF OnDisk
<1>4. p # Root /\ Front(p) \in Directories
  BY PathFacts
<1>5. differ \subseteq Directories
  BY <1>4 DEF Directories
<1>6. ASSUME NEW dir \in Directories \ differ
      PROVE  Children(new, dir) = Children(disk, dir) /\ (dir \in new \cup {Root} <=> dir \in disk \cup {Root})
  <2>1. dir # p /\ dir # Front(p)
    BY <1>4, <1>6 DEF Directories
  <2>2. QED
    BY <2>1 DEF Children
<1>7. \A dir \in differ \cap watched :
        dir \in {Front(p)} \cap watched \/ Front(dir) \in {Front(p)} \cap watched
  BY <1>1
<1> HIDE DEF new, differ
<1>8. QED
  BY <1>2, <1>3, <1>5, <1>6, <1>7, ChangeKeepsInvariant

LEMMA DeleteKeepsInvariant ==
  ASSUME IInv, NEW p \in Entries, Delete(p)
  PROVE  IInv'
<1> DEFINE gone == {q \in disk : IsPrefix(p, q)}
           changed == {Front(p)} \cup (gone \cap Folders)
<1>1. OnDisk(disk)
  BY DEF IInv, WithFronts
<1>2. p \in disk /\ Change(disk \ gone, changed, changed)
  BY DEF Delete
<1>3. gone \subseteq disk /\ disk \subseteq Entries
  BY <1>1 DEF OnDisk
<1>4. OnDisk(disk \ gone) /\ p \in gone /\ \A q \in gone : q = p \/ Front(q) \in gone \cap Folders
  BY <1>1, <1>2, GoneIs
<1> HIDE DEF gone
<1>5. changed \subseteq Directories
  BY PathFacts DEF Directories
<1>6. ASSUME NEW dir \in Directories \ changed
      PROVE  /\ Children(disk \ gone, dir) = Children(disk, dir)
             /\ dir \in (disk \ gone) \cup {Root} <=> dir \in disk \cup {Root}
  <2>1. \A q \in gone : Front(q) # dir
    BY <1>4, <1>6
  <2>2. dir # Root => dir \notin gone
    BY <1>6 DEF Directories
  <2>3. QED
    BY <2>1, <2>2 DEF Children
<1>7. \A dir \in changed \cap watched : dir \in changed \cap watched \/ Front(dir) \in changed \cap watched
  OBVIOUS
<1> HIDE DEF changed
<1>8. QED
  BY <1>2, <1>4, <1>5, <1>6, <1>7, ChangeKeepsInvariant

LEMMA ReportKeepsInvariant ==
  ASSUME IInv, NEW dir \in Directories, Report(dir)
  PROVE  IInv'
<1>1. TypeOK /\ ListingIsTree /\ WithFronts /\ ReloadsCollapsed /\ OutOfSync
  BY DEF IInv
<1>2. /\ dir \in event /\ Len(reloads) < 2 /\ event' = event \ {dir}
      /\ reloads' = Append(reloads, Load(disk)) /\ missed' = missed \ {Root}
      /\ UNCHANGED <<disk, changes, lines, watched, loop, fc, i, j>>
  BY DEF Report, SendReload, buffer, sync
<1>3. IsCollapsed(Load(disk)) /\ UpToDate(disk, Load(disk), Root)
  BY <1>1, LoadIs DEF WithFronts
<1>4. reloads \in Seq(Seq(Line)) /\ Len(reloads) \in Nat /\ Load(disk) \in Seq(Line)
  BY <1>1, <1>3, LenProperties DEF TypeOK, IsCollapsed
<1>5. /\ reloads' \in Seq(Seq(Line)) /\ reloads' # <<>> /\ Len(reloads') = Len(reloads) + 1
      /\ \A n \in 1 .. Len(reloads) : reloads'[n] = reloads[n]
      /\ reloads'[Len(reloads) + 1] = Load(disk)
  BY <1>2, <1>4, AppendProperties
<1>6. TypeOK'
  <2>1. Len(reloads') \leq 2
    BY <1>2, <1>4, <1>5
  <2>2. event' \subseteq watched /\ missed' \subseteq Directories
    BY <1>1, <1>2 DEF TypeOK
  <2>3. QED
    BY <1>1, <1>2, <1>5, <2>1, <2>2 DEF TypeOK
<1>7. ListingIsTree' /\ WithFronts' /\ OutOfSync'
  BY <1>1, <1>2 DEF ListingIsTree, WithFronts, OutOfSync
<1>8. ReloadsCollapsed'
  <2>1. ASSUME NEW n \in 1 .. Len(reloads')
        PROVE  IsCollapsed(reloads'[n])
    <3>1. CASE n = Len(reloads) + 1
      BY <3>1, <1>3, <1>5
    <3>2. CASE n # Len(reloads) + 1
      <4>1. n \in 1 .. Len(reloads)
        BY <3>2, <1>4, <1>5
      <4>2. QED
        BY <4>1, <1>1, <1>5 DEF ReloadsCollapsed
    <3>3. QED
      BY <3>1, <3>2
  <2>2. QED
    BY <2>1 DEF ReloadsCollapsed
<1>9. LinesNoticed' /\ SyncNoticed'
  BY <1>5 DEF LinesNoticed, SyncNoticed, Noticed, NoticedIn
<1>10. LastNoticed'
  BY <1>2, <1>3, <1>5 DEF LastNoticed, NoticedIn
<1>11. QED
  BY <1>6, <1>7, <1>8, <1>9, <1>10 DEF IInv

(* Engaging a line of a listing of which everything is noticed. *)
LEMMA EngagedNoticed ==
  ASSUME NEW d, NEW ev, NEW on, NEW ms, NEW ls \in Seq(Line), NEW k \in 1 .. Len(ls), NEW r,
         EngagedFrom(d, ls, k, r), NEW kept, kept = ms \ ReadBy(ls[k]),
         \A dir \in Shown(ls) : NoticedIn(d, ev, on, ms, ls, dir)
  PROVE  \A dir \in Shown(r) : NoticedIn(d, ev, on, kept, r, dir)
<1> TAKE dir \in Shown(r)
<1>1. r \in Seq(Line)
  BY DEF EngagedFrom
<1>2. CASE ~ls[k].open /\ dir = ls[k].path
  BY <1>2 DEF EngagedFrom, NoticedIn
<1>3. CASE ~ (~ls[k].open /\ dir = ls[k].path)
  <2>1. dir \in Shown(ls) /\ HasOf(r, ls, dir) /\ HasOf(ls, r, dir)
    BY <1>3 DEF EngagedFrom
  <2>2. NoticedIn(d, ev, on, ms, r, dir)
    BY <1>1, <2>1, NoticedAlike
  <2>3. dir \in ms => dir \in kept
    BY <1>3 DEF ReadBy
  <2>4. QED
    BY <2>2, <2>3 DEF NoticedIn
<1>4. QED
  BY <1>2, <1>3

LEMMA RootIsNotRead ==
  ASSUME NEW ls \in Seq(Line), NEW k \in 1 .. Len(ls)
  PROVE  Root \notin ReadBy(ls[k])
<1>1. ls[k] \in Line
  BY ElementOfSeq
<1>2. ls[k].path # Root
  BY <1>1, LineFields, PathFacts
<1>3. QED
  BY <1>2 DEF ReadBy

LEMMA EngageKeepsInvariant ==
  ASSUME IInv, NEW k \in DOMAIN lines, EngageLine(k)
  PROVE  IInv'
<1>1. TypeOK /\ ListingIsTree /\ WithFronts /\ ReloadsCollapsed /\ OutOfSync
      /\ LinesNoticed /\ LastNoticed
  BY DEF IInv
<1>2. /\ loop = "idle" /\ IsDir(lines[k]) /\ lines' = Engage(disk, lines, k)
      /\ missed' = missed \ ReadBy(lines[k]) /\ loop' = "watch"
      /\ UNCHANGED <<disk, changes, watched, event, reloads, fc, i, j>>
  BY DEF EngageLine, sync
<1>3. lines \in Seq(Line) /\ k \in 1 .. Len(lines) /\ IsTree(lines) /\ OnDisk(disk)
  BY <1>1, LenProperties DEF TypeOK, ListingIsTree, WithFronts
<1>4. EngagedFrom(disk, lines, k, lines')
  BY <1>2, <1>3, EngageIs
<1>5. lines' \in Seq(Line) /\ IsTree(lines') /\ Len(lines') \in Nat
  BY <1>4, LenProperties DEF EngagedFrom
<1>6. fc = <<>> /\ i = 1 /\ j = 1
  BY <1>1, <1>2 DEF OutOfSync
<1>7. TypeOK'
  <2>1. j' \in 1 .. Len(lines') + 1
    BY <1>2, <1>5, <1>6
  <2>2. QED
    BY <1>1, <1>2, <1>5, <2>1 DEF TypeOK
<1>8. ListingIsTree' /\ WithFronts' /\ ReloadsCollapsed' /\ OutOfSync' /\ SyncNoticed'
  BY <1>1, <1>2, <1>5, <1>6 DEF ListingIsTree, WithFronts, ReloadsCollapsed, OutOfSync, SyncNoticed
<1>9. LinesNoticed'
  <2>1. \A dir \in Shown(lines) : NoticedIn(disk, event, reloads, missed, lines, dir)
    BY <1>1, <1>2 DEF LinesNoticed, Noticed
  <2>2. \A dir \in Shown(lines') : NoticedIn(disk, event, reloads, missed', lines', dir)
    BY <1>2, <1>3, <1>4, <2>1, EngagedNoticed
  <2>3. QED
    BY <1>2, <2>2 DEF LinesNoticed, Noticed
<1>10. LastNoticed'
  BY <1>1, <1>2, <1>3, RootIsNotRead DEF LastNoticed, NoticedIn
<1>11. QED
  BY <1>7, <1>8, <1>9, <1>10 DEF IInv

LEMMA WatchKeepsInvariant ==
  ASSUME IInv, SyncWatches
  PROVE  IInv'
<1>1. TypeOK /\ ListingIsTree /\ WithFronts /\ ReloadsCollapsed /\ OutOfSync
      /\ LinesNoticed /\ LastNoticed
  BY DEF IInv
<1>2. /\ loop = "watch" /\ loop' = "idle"
      /\ watched' = (watched \cap Shown(lines)) \cup (Shown(lines) \cap (disk \cup {Root}))
      /\ event' = event \cap watched'
      /\ UNCHANGED <<disk, changes, lines, reloads, fc, i, j, missed>>
  BY DEF SyncWatches, WatchShown, sync
<1>3. /\ lines \in Seq(Line) /\ IsTree(lines) /\ OnDisk(disk) /\ event \subseteq watched
      /\ \A dir \in watched : Front(dir) \in watched
  BY <1>1 DEF TypeOK, ListingIsTree, WithFronts
<1>4. Root \in Shown(lines) /\ Shown(lines) \subseteq Directories
  BY <1>3, ShownIs, ShownDirectories
<1>5. \A dir \in Shown(lines) : Front(dir) \in Shown(lines)
  BY <1>3, ShownFronts
<1>6. TypeOK'
  BY <1>1, <1>2, <1>4 DEF TypeOK
<1>7. WithFronts'
  <2>1. ASSUME NEW dir \in watched'
        PROVE  Front(dir) \in watched'
    <3>1. dir \in Shown(lines) /\ Front(dir) \in Shown(lines)
      BY <1>2, <1>5
    <3>2. dir \in watched \/ dir \in disk \/ dir = Root
      BY <1>2
    <3>3. Front(dir) \in watched \/ Front(dir) \in disk \cup {Root}
      BY <1>3, <3>2, FrontOfRoot DEF OnDisk
    <3>4. QED
      BY <1>2, <3>1, <3>3
  <2>2. QED
    BY <1>2, <1>3, <2>1 DEF WithFronts
<1>8. ListingIsTree' /\ ReloadsCollapsed' /\ OutOfSync' /\ SyncNoticed'
  BY <1>1, <1>2 DEF ListingIsTree, ReloadsCollapsed, OutOfSync, SyncNoticed
<1>9. \A dir \in Shown(lines) : dir \in event => dir \in event'
  BY <1>2, <1>3
<1>10. LinesNoticed'
  <2>1. \A dir \in Shown(lines) : NoticedIn(disk, event, reloads, missed, lines, dir)
    BY <1>1, <1>2 DEF LinesNoticed, Noticed
  <2>2. \A dir \in Shown(lines) : NoticedIn(disk, event', reloads, missed, lines, dir)
    BY <1>5, <1>9, <2>1 DEF NoticedIn
  <2>3. QED
    BY <1>2, <2>2 DEF LinesNoticed, Noticed
<1>11. LastNoticed'
  <2>1. Front(Root) = Root
    BY FrontOfRoot
  <2>2. QED
    BY <1>1, <1>2, <1>4, <1>9, <2>1 DEF LastNoticed, NoticedIn
<1>12. QED
  BY <1>6, <1>7, <1>8, <1>10, <1>11 DEF IInv

(* The reloads after the first. *)
LEMMA RestOfReloads ==
  ASSUME IInv, reloads # <<>>
  PROVE  /\ IsCollapsed(Head(reloads)) /\ Head(reloads) = reloads[1]
         /\ Tail(reloads) \in Seq(Seq(Line)) /\ Len(Tail(reloads)) \in Nat
         /\ Len(reloads) \in Nat /\ Len(Tail(reloads)) = Len(reloads) - 1 /\ Len(reloads) \leq 2
         /\ \A n \in 1 .. Len(Tail(reloads)) : IsCollapsed(Tail(reloads)[n])
         /\ Tail(reloads) = <<>> => Len(reloads) = 1
         /\ Tail(reloads) # <<>> => Tail(reloads)[Len(Tail(reloads))] = reloads[Len(reloads)]
<1> DEFINE tail == Tail(reloads)
           n == Len(reloads)
<1>1. reloads \in Seq(Seq(Line)) /\ n \leq 2 /\ \A m \in 1 .. n : IsCollapsed(reloads[m])
  BY DEF IInv, TypeOK, ReloadsCollapsed
<1>2. n \in Nat \ {0}
  BY <1>1, EmptySeq
<1>3. tail \in Seq(Seq(Line)) /\ Len(tail) = n - 1 /\ \A m \in 1 .. Len(tail) : tail[m] = reloads[m + 1]
  BY <1>1, HeadTailProperties
<1>4. Head(reloads) = reloads[1]
  BY <1>1
<1> HIDE DEF tail, n
<1>5. \A m \in 1 .. Len(tail) : IsCollapsed(tail[m])
  BY <1>1, <1>2, <1>3
<1>6. tail = <<>> => n = 1
  BY <1>2, <1>3, EmptySeq
<1>7. tail # <<>> => Len(tail) \in 1 .. Len(tail) /\ Len(tail) + 1 = n
  BY <1>2, <1>3, EmptySeq
<1>8. tail # <<>> => tail[Len(tail)] = reloads[n]
  BY <1>3, <1>7
<1>9. QED
  BY <1>1, <1>2, <1>3, <1>4, <1>5, <1>6, <1>8 DEF tail, n

LEMMA TakeKeepsInvariant ==
  ASSUME IInv, TakeReload
  PROVE  IInv'
<1>1. TypeOK /\ ListingIsTree /\ WithFronts /\ LastNoticed
  BY DEF IInv
<1>2. /\ loop = "idle" /\ reloads # <<>> /\ loop' = "sync" /\ fc' = Head(reloads) /\ i' = 1 /\ j' = 1
      /\ reloads' = Tail(reloads) /\ UNCHANGED <<disk, changes, lines, watched, event, missed>>
  BY DEF TakeReload
<1>3. /\ IsCollapsed(fc') /\ fc' = reloads[1]
      /\ reloads' \in Seq(Seq(Line)) /\ Len(reloads') \in Nat
      /\ Len(reloads) \in Nat /\ Len(reloads') = Len(reloads) - 1 /\ Len(reloads) \leq 2
      /\ \A n \in 1 .. Len(reloads') : IsCollapsed(reloads'[n])
      /\ reloads' = <<>> => Len(reloads) = 1
      /\ reloads' # <<>> => reloads'[Len(reloads')] = reloads[Len(reloads)]
  BY <1>2, RestOfReloads
<1>4. fc' \in Seq(Line) /\ IsTree(fc') /\ Len(fc') \in Nat /\ Shown(fc') = {Root}
  BY <1>3, ShownOfCollapsed, LenProperties DEF IsCollapsed
<1>5. Len(lines) \in Nat
  BY <1>1, LenProperties DEF TypeOK
<1>6. TypeOK'
  <2>1. i' \in 1 .. Len(fc') + 2 /\ j' \in 1 .. Len(lines') + 1 /\ Len(reloads') \leq 2
    BY <1>2, <1>3, <1>4, <1>5
  <2>2. QED
    BY <1>1, <1>2, <1>3, <1>4, <2>1 DEF TypeOK
<1>7. ListingIsTree' /\ WithFronts' /\ ReloadsCollapsed' /\ OutOfSync' /\ LinesNoticed'
  BY <1>1, <1>2, <1>3, <1>4 DEF ListingIsTree, WithFronts, ReloadsCollapsed, OutOfSync, LinesNoticed
<1>8. NoticedIn(disk, event, <<>>, missed, reloads[Len(reloads)], Root)
  BY <1>1, <1>2 DEF LastNoticed
<1>9. SyncNoticed'
  <2>1. NoticedIn(disk, event, reloads', missed, fc', Root)
    BY <1>3, <1>8 DEF NoticedIn
  <2>2. QED
    BY <1>2, <1>4, <2>1 DEF SyncNoticed, Noticed
<1>10. LastNoticed'
  BY <1>2, <1>3, <1>8 DEF LastNoticed
<1>11. QED
  BY <1>6, <1>7, <1>9, <1>10 DEF IInv

(* One iteration goes past a line that is there only, or past the end by one. *)
LEMMA SkipIs ==
  ASSUME NEW n \in Nat, NEW m \in Nat, i \in 1 .. n + 2, j \in 1 .. m,
         NEW c, NEW o, c # NoLine => i \in 1 .. n + 1, Skip(c, o)
  PROVE  i' \in 1 .. n + 2 /\ j' \in 1 .. m + 1
<1>1. NoLine.err
  BY DEF NoLine
<1>2. SamePath(c, o) => c # NoLine
  BY <1>1 DEF SamePath
<1>3. i' = i \/ (i' = i + 1 /\ c # NoLine)
  BY <1>2 DEF Skip
<1>4. j' = j \/ j' = j + 1
  BY DEF Skip
<1>5. QED
  BY <1>3, <1>4

LEMMA SyncKeepsInvariant ==
  ASSUME IInv, SyncLine
  PROVE  IInv'
<1>1. TypeOK /\ ListingIsTree /\ WithFronts /\ ReloadsCollapsed /\ SyncNoticed /\ LastNoticed
  BY DEF IInv
<1> DEFINE o == lines[j]
           c == At(fc, i, NoLine)
           k == i - 1
           Passed == Skip(c, o) /\ UNCHANGED <<fc, loop, missed>>
           Paniced == loop' = "panic" /\ UNCHANGED <<fc, i, j, missed>>
           EngagedBefore == /\ k \in DOMAIN fc /\ IsDir(fc[k]) /\ fc' = Engage(disk, fc, k)
                            /\ Skip(At(fc', i, c), o)
                            /\ missed' = missed \ ReadBy(fc[k]) /\ UNCHANGED loop
<1>2. /\ loop = "sync" /\ j \leq Len(lines)
      /\ Passed \/ Paniced \/ EngagedBefore
      /\ UNCHANGED <<disk, changes, lines, watched, event, reloads>>
  BY DEF SyncLine, sync
<1>3. /\ fc \in Seq(Line) /\ DOMAIN fc = 1 .. Len(fc) /\ Len(fc) \in Nat /\ i \in 1 .. Len(fc) + 2
      /\ lines \in Seq(Line) /\ Len(lines) \in Nat /\ j \in 1 .. Len(lines) + 1
  BY <1>1, LenProperties DEF TypeOK
<1>4. i \in Nat /\ j \in 1 .. Len(lines)
  BY <1>2, <1>3
<1>5. c # NoLine => i \in 1 .. Len(fc)
  BY <1>3 DEF At
<1>6. IsTree(fc) /\ IsTree(lines) /\ OnDisk(disk)
  BY <1>1 DEF ListingIsTree, WithFronts
<1> HIDE DEF o, c
<1>7. WithFronts' /\ ReloadsCollapsed'
  BY <1>1, <1>2 DEF WithFronts, ReloadsCollapsed
<1>8. CASE Passed
  <2>1. i' \in 1 .. Len(fc) + 2 /\ j' \in 1 .. Len(lines) + 1
    <3>1. c # NoLine => i \in 1 .. Len(fc) + 1
      BY <1>3, <1>5
    <3>2. QED
      BY <3>1, <1>3, <1>4, <1>8, SkipIs
  <2>2. TypeOK'
    BY <1>1, <1>2, <1>8, <2>1 DEF TypeOK
  <2>3. ListingIsTree' /\ OutOfSync' /\ LinesNoticed' /\ SyncNoticed' /\ LastNoticed'
    BY <1>1, <1>2, <1>8 DEF ListingIsTree, OutOfSync, LinesNoticed, SyncNoticed, LastNoticed, Noticed
  <2>4. QED
    BY <1>7, <2>2, <2>3 DEF IInv
<1>9. CASE Paniced
  <2>1. TypeOK'
    BY <1>1, <1>2, <1>9 DEF TypeOK
  <2>2. ListingIsTree' /\ OutOfSync' /\ LinesNoticed' /\ SyncNoticed' /\ LastNoticed'
    BY <1>1, <1>2, <1>9 DEF ListingIsTree, OutOfSync, LinesNoticed, SyncNoticed, LastNoticed
  <2>3. QED
    BY <1>7, <2>1, <2>2 DEF IInv
<1>10. CASE EngagedBefore
  <2>1. k \in 1 .. Len(fc)
    BY <1>3, <1>10
  <2>2. EngagedFrom(disk, fc, k, fc')
    BY <1>3, <1>6, <1>10, <2>1, EngageIs
  <2>3. fc' \in Seq(Line) /\ IsTree(fc') /\ Len(fc') \in Nat /\ k \in 1 .. Len(fc')
    BY <2>2, LenProperties DEF EngagedFrom
  <2>4. i' \in 1 .. Len(fc') + 2 /\ j' \in 1 .. Len(lines) + 1
    <3>1. i \in 1 .. Len(fc') + 1 /\ i \in 1 .. Len(fc') + 2
      BY <1>4, <2>3
    <3>2. Skip(At(fc', i, c), o)
      BY <1>10
    <3>3. QED
      BY <3>1, <3>2, <2>3, <1>3, <1>4, SkipIs
  <2>5. TypeOK'
    BY <1>1, <1>2, <1>10, <2>3, <2>4 DEF TypeOK
  <2>6. ListingIsTree' /\ OutOfSync' /\ LinesNoticed'
    BY <1>2, <1>6, <1>10, <2>3 DEF ListingIsTree, OutOfSync, LinesNoticed
  <2>7. SyncNoticed'
    <3>1. \A dir \in Shown(fc) : NoticedIn(disk, event, reloads, missed, fc, dir)
      BY <1>1, <1>2 DEF SyncNoticed, Noticed
    <3>2. missed' = missed \ ReadBy(fc[k])
      BY <1>10
    <3> HIDE DEF k
    <3>3. \A dir \in Shown(fc') : NoticedIn(disk, event, reloads, missed', fc', dir)
      BY <1>3, <2>1, <2>2, <3>1, <3>2, EngagedNoticed
    <3>4. QED
      BY <1>2, <3>3 DEF SyncNoticed, Noticed
  <2>8. LastNoticed'
    <3>1. Root \notin ReadBy(fc[k])
      BY <1>3, <2>1, RootIsNotRead
    <3>2. QED
      BY <1>1, <1>2, <1>10, <3>1 DEF LastNoticed, NoticedIn
  <2>9. QED
    BY <1>7, <2>5, <2>6, <2>7, <2>8 DEF IInv
<1>11. QED
  BY <1>2, <1>8, <1>9, <1>10

LEMMA ReplaceKeepsInvariant ==
  ASSUME IInv, ReplaceContent
  PROVE  IInv'
<1>1. TypeOK /\ ListingIsTree /\ WithFronts /\ ReloadsCollapsed /\ SyncNoticed /\ LastNoticed
  BY DEF IInv
<1>2. /\ loop = "sync" /\ lines' = fc /\ loop' = "watch" /\ fc' = <<>> /\ i' = 1 /\ j' = 1
      /\ UNCHANGED <<disk, changes, watched, event, reloads, missed>>
  BY DEF ReplaceContent
<1>3. fc \in Seq(Line) /\ Len(fc) \in Nat /\ IsTree(fc)
  BY <1>1, LenProperties DEF TypeOK, ListingIsTree
<1>4. fc' \in Seq(Line) /\ Len(fc') = 0 /\ IsTree(fc')
  BY <1>2, NoLinesTree
<1>5. TypeOK'
  BY <1>1, <1>2, <1>3, <1>4 DEF TypeOK
<1>6. ListingIsTree' /\ WithFronts' /\ ReloadsCollapsed' /\ OutOfSync' /\ SyncNoticed' /\ LastNoticed'
  BY <1>1, <1>2, <1>3, <1>4
     DEF ListingIsTree, WithFronts, ReloadsCollapsed, OutOfSync, SyncNoticed, LastNoticed
<1>7. LinesNoticed'
  BY <1>1, <1>2 DEF LinesNoticed, SyncNoticed, Noticed
<1>8. QED
  BY <1>5, <1>6, <1>7 DEF IInv

LEMMA CloseKeepsInvariant ==
  ASSUME IInv, Close
  PROVE  IInv'
<1>1. TypeOK /\ ListingIsTree /\ WithFronts /\ ReloadsCollapsed /\ OutOfSync
  BY DEF IInv
<1>2. /\ loop = "idle" /\ loop' = "closed" /\ watched' = {} /\ event' = {}
      /\ UNCHANGED <<disk, changes, lines, fc, i, j, reloads, missed>>
  BY DEF Close, sync
<1>3. TypeOK'
  BY <1>1, <1>2 DEF TypeOK
<1>4. ListingIsTree' /\ WithFronts' /\ ReloadsCollapsed' /\ OutOfSync'
  BY <1>1, <1>2 DEF ListingIsTree, WithFronts, ReloadsCollapsed, OutOfSync
<1>5. LinesNoticed' /\ SyncNoticed' /\ LastNoticed'
  BY <1>2 DEF LinesNoticed, SyncNoticed, LastNoticed
<1>6. QED
  BY <1>3, <1>4, <1>5 DEF IInv

LEMMA IgnoreKeepsInvariant ==
  ASSUME IInv, IgnoreReload
  PROVE  IInv'
<1>1. TypeOK /\ ListingIsTree /\ WithFronts /\ OutOfSync
  BY DEF IInv
<1>2. /\ loop = "closed" /\ reloads # <<>> /\ reloads' = Tail(reloads)
      /\ UNCHANGED <<disk, changes, lines, watched, loop, fc, i, j, event, missed>>
  BY DEF IgnoreReload, buffer, sync
<1>3. /\ reloads' \in Seq(Seq(Line)) /\ Len(reloads') \leq 2
      /\ \A n \in 1 .. Len(reloads') : IsCollapsed(reloads'[n])
  BY <1>2, RestOfReloads
<1>4. TypeOK'
  BY <1>1, <1>2, <1>3 DEF TypeOK
<1>5. ListingIsTree' /\ WithFronts' /\ ReloadsCollapsed' /\ OutOfSync'
  BY <1>1, <1>2, <1>3 DEF ListingIsTree, WithFronts, ReloadsCollapsed, OutOfSync
<1>6. LinesNoticed' /\ SyncNoticed' /\ LastNoticed'
  BY <1>2 DEF LinesNoticed, SyncNoticed, LastNoticed
<1>7. QED
  BY <1>4, <1>5, <1>6 DEF IInv

LEMMA StutterKeepsInvariant ==
  ASSUME IInv, UNCHANGED vars
  PROVE  IInv'
<1>1. UNCHANGED <<disk, changes, lines, watched, loop, fc, i, j, event, reloads, missed>>
  BY DEF vars, buffer, sync
<1>2. TypeOK' /\ ListingIsTree' /\ WithFronts'
  BY <1>1 DEF IInv, TypeOK, ListingIsTree, WithFronts
<1>3. ReloadsCollapsed' /\ OutOfSync' /\ LinesNoticed' /\ SyncNoticed' /\ LastNoticed'
  BY <1>1 DEF IInv, ReloadsCollapsed, OutOfSync, LinesNoticed, SyncNoticed, LastNoticed, Noticed
<1>4. QED
  BY <1>2, <1>3 DEF IInv

LEMMA NextKeepsInvariant ==
  ASSUME IInv, [Next]_vars
  PROVE  IInv'
<1>1. ASSUME NEW p \in Entries, Create(p) \/ Delete(p)
      PROVE  IInv'
  BY <1>1, CreateKeepsInvariant, DeleteKeepsInvariant
<1>2. ASSUME NEW dir \in Directories, Report(dir)
      PROVE  IInv'
  BY <1>2, ReportKeepsInvariant
<1>3. ASSUME NEW k \in DOMAIN lines, EngageLine(k)
      PROVE  IInv'
  BY <1>3, EngageKeepsInvariant
<1>4. CASE SyncWatches
  BY <1>4, WatchKeepsInvariant
<1>5. CASE TakeReload
  BY <1>5, TakeKeepsInvariant
<1>6. CASE SyncLine
  BY <1>6, SyncKeepsInvariant
<1>7. CASE ReplaceContent
  BY <1>7, ReplaceKeepsInvariant
<1>8. CASE Close
  BY <1>8, CloseKeepsInvariant
<1>9. CASE IgnoreReload
  BY <1>9, IgnoreKeepsInvariant
<1>10. CASE Quiet \/ UNCHANGED vars
  BY <1>10, StutterKeepsInvariant DEF Quiet
<1>11. QED
  BY <1>1, <1>2, <1>3, <1>4, <1>5, <1>6, <1>7, <1>8, <1>9, <1>10 DEF Next

(* The invariant holds in every state. *)
THEOREM Invariance == Spec => []IInv
<1>1. Init => IInv
  BY InitInvariant
<1>2. IInv /\ [Next]_vars => IInv'
  BY NextKeepsInvariant
<1>3. QED
  BY <1>1, <1>2, PTL DEF Spec

-----------------------------------------------------------------------------

(* The variables have their types; in particular SyncState goes at most one line past the end of *)
(* the listing it expands, and between two commands only what is shown is watched.               *)
THEOREM TypeCorrectness == Spec => []TypeOK
<1>1. IInv => TypeOK
  BY DEF IInv
<1>2. QED
  BY <1>1, Invariance, PTL

(* The lines of the listing in the buffer, and those of the one being synchronised, are always   *)
(* those of a tree in order, each at the position it holds itself: Engage, which goes by that    *)
(* position, opens and closes the line it was asked for.                                         *)
THEOREM LinesAreTree == Spec => []ListingIsTree
<1>1. IInv => ListingIsTree
  BY DEF IInv
<1>2. QED
  BY <1>1, Invariance, PTL

(* A directory shown otherwise than it is has a report or a reload to come, or was changed       *)
(* between the reading and the watch of it.                                                      *)
THEOREM StaleListingsAreNoticed == Spec => []StaleIsNoticed
<1>1. IInv => StaleIsNoticed
  <2>1. ASSUME IInv, loop = "idle", NEW dir \in Shown(lines)
        PROVE  UpToDate(disk, lines, dir) \/ event # {} \/ reloads # <<>> \/ dir \in missed
    BY <2>1 DEF IInv, LinesNoticed, Noticed, NoticedIn
  <2>2. QED
    BY <2>1 DEF StaleIsNoticed
<1>2. QED
  BY <1>1, Invariance, PTL

=============================================================================
