--------------------------- MODULE HistoryProofs ---------------------------
(***************************************************************************)
(* Proofs about the two histories of the editor.                           *)
(*                                                                         *)
(* The changes of a buffer (ChangeHistory), for every set of lines and     *)
(* every bound: the content is what its list of changes says, and undo and *)
(* redo walk the contents the buffer has had, as UndoStack promises.  The  *)
(* model folds sequences of changes, so the first part is about what a     *)
(* fold computes; it rests on induction over the numbers in the form of a  *)
(* set, for which the least number of a set is enough.                     *)
(*                                                                         *)
(* The visited locations (NavRing), for every size of the ring: the types, *)
(* that the way back and the way forward end where the list does, and that *)
(* the ring implements the list of NavList.                                *)
(***************************************************************************)
EXTENDS ChangeHistory, NavRing, SequenceTheorems, WellFoundedInduction, TLAPS

-----------------------------------------------------------------------------
(* Induction over the numbers. *)

LEMMA SmallestNat ==
  ASSUME NEW T, T \subseteq Nat, T # {}
  PROVE  \E x \in T : \A y \in T : ~ (y < x)
<1>1. \E x \in T : \A y \in T : ~ (<<y, x>> \in OpToRel(<, Nat))
  BY WFMin, NatLessThanWellFounded
<1>2. QED
  BY <1>1 DEF OpToRel

(* A set that holds 0, and with a number the next one, holds them all. *)
LEMMA InductiveSet ==
  ASSUME NEW S, 0 \in S, \A n \in Nat : n \in S => n + 1 \in S
  PROVE  \A n \in Nat : n \in S
<1> SUFFICES ASSUME NEW m \in Nat, m \notin S
             PROVE  FALSE
  OBVIOUS
<1> DEFINE T == {n \in Nat : n \notin S}
<1>1. PICK x \in T : \A y \in T : ~ (y < x)
  BY SmallestNat
<1>2. x - 1 \in Nat /\ x - 1 \notin T
  BY <1>1
<1>3. QED
  BY <1>1, <1>2

-----------------------------------------------------------------------------
(* Folds. *)

(* f folds Op over the elements of s at any set of places up to n. *)
IsFold(Op(_, _), b, s, n, f) ==
  f = [t \in SUBSET (1 .. n) |-> IF t = {} THEN b ELSE Op(f[t \ {Max(t)}], s[Max(t)])]

LEMMA MaxIs ==
  ASSUME NEW n \in Nat, NEW t, t \subseteq 1 .. n, n \in t
  PROVE  Max(t) = n
<1>1. \A y \in t : n \geq y
  OBVIOUS
<1>2. \A x \in t : (\A y \in t : x \geq y) => x = n
  BY <1>1
<1>3. QED
  BY <1>1, <1>2, Zenon DEF Max

LEMMA FoldOneMore ==
  ASSUME NEW Op(_, _), NEW b, NEW s, NEW n \in Nat, NEW f, IsFold(Op, b, s, n, f)
  PROVE  \E g : IsFold(Op, b, s, n + 1, g)
<1> DEFINE g == [t \in SUBSET (1 .. n + 1) |->
                   IF n + 1 \in t THEN Op(f[t \ {n + 1}], s[n + 1]) ELSE f[t]]
<1>1. ASSUME NEW t \in SUBSET (1 .. n + 1)
      PROVE  g[t] = IF t = {} THEN b ELSE Op(g[t \ {Max(t)}], s[Max(t)])
  <2>1. \A u \in SUBSET (1 .. n) : u \in SUBSET (1 .. n + 1) /\ g[u] = f[u]
    OBVIOUS
  <2>2. \A u \in SUBSET (1 .. n) : f[u] = IF u = {} THEN b ELSE Op(f[u \ {Max(u)}], s[Max(u)])
    BY Zenon DEF IsFold
  <2>3. CASE n + 1 \in t
    <3>1. n + 1 \in Nat /\ t \subseteq 1 .. n + 1
      OBVIOUS
    <3>2. Max(t) = n + 1
      BY <3>1, <2>3, MaxIs
    <3>3. t \ {n + 1} \in SUBSET (1 .. n)
      BY <2>3
    <3>4. g[t] = Op(f[t \ {n + 1}], s[n + 1])
      BY <2>3
    <3>5. QED
      BY <3>2, <3>3, <3>4, <2>1, <2>3
  <2>4. CASE n + 1 \notin t
    <3>1. \A x \in t : x \in 1 .. n
      BY <2>4
    <3>2. t \in SUBSET (1 .. n) /\ t \ {Max(t)} \in SUBSET (1 .. n)
      BY <3>1
    <3>3. QED
      BY <3>2, <2>1, <2>2
  <2>5. QED
    BY <2>3, <2>4
<1>2. IsFold(Op, b, s, n + 1, g)
  <2> DEFINE h == [t \in SUBSET (1 .. n + 1) |->
                     IF t = {} THEN b ELSE Op(g[t \ {Max(t)}], s[Max(t)])]
  <2>1. DOMAIN g = SUBSET (1 .. n + 1) /\ g = [t \in DOMAIN g |-> g[t]]
    BY Zenon
  <2> HIDE DEF g
  <2>2. g = h
    BY <1>1, <2>1, Zenon
  <2>3. QED
    BY <2>2, Zenon DEF IsFold
<1> HIDE DEF g
<1>3. QED
  BY <1>2

LEMMA FoldExists ==
  ASSUME NEW Op(_, _), NEW b, NEW s, NEW n \in Nat
  PROVE  \E f : IsFold(Op, b, s, n, f)
<1> DEFINE S == {m \in Nat : \E f : IsFold(Op, b, s, m, f)}
<1>1. 0 \in S
  <2> DEFINE f == [t \in SUBSET (1 .. 0) |-> b]
  <2>1. SUBSET (1 .. 0) = {{}}
    OBVIOUS
  <2>2. IsFold(Op, b, s, 0, f)
    BY <2>1 DEF IsFold
  <2>3. QED
    BY <2>2
<1>2. \A m \in Nat : m \in S => m + 1 \in S
  BY FoldOneMore
<1> HIDE DEF S
<1>3. n \in S
  BY <1>1, <1>2, InductiveSet
<1>4. QED
  BY <1>3 DEF S

(* FoldLeft is such a fold. *)
LEMMA FoldIsFold ==
  ASSUME NEW Op(_, _), NEW b, NEW s, NEW n \in Nat, DOMAIN s = 1 .. n
  PROVE  \E f : IsFold(Op, b, s, n, f) /\ FoldLeft(Op, b, s) = f[1 .. n]
<1> DEFINE it == CHOOSE f :
                   f = [t \in SUBSET (DOMAIN s) |-> IF t = {} THEN b ELSE Op(f[t \ {Max(t)}], s[Max(t)])]
<1>1. FoldLeft(Op, b, s) = it[DOMAIN s]
  BY DEF FoldLeft, MapThenFoldSet
<1>2. \E f : f = [t \in SUBSET (DOMAIN s) |-> IF t = {} THEN b ELSE Op(f[t \ {Max(t)}], s[Max(t)])]
  <2>1. PICK f : IsFold(Op, b, s, n, f)
    BY FoldExists
  <2>2. f = [t \in SUBSET (DOMAIN s) |-> IF t = {} THEN b ELSE Op(f[t \ {Max(t)}], s[Max(t)])]
    BY <2>1, Zenon DEF IsFold
  <2>3. QED
    BY <2>2
<1>3. it = [t \in SUBSET (DOMAIN s) |-> IF t = {} THEN b ELSE Op(it[t \ {Max(t)}], s[Max(t)])]
  BY <1>2, Zenon
<1> HIDE DEF it
<1>4. IsFold(Op, b, s, n, it)
  BY <1>3 DEF IsFold
<1>5. QED
  BY <1>1, <1>4

(* c are the values on the way of a fold. *)
IsRun(Op(_, _), b, s, n, c) == c[0] = b /\ \A i \in 1 .. n : c[i] = Op(c[i - 1], s[i])

(* A fold ends where a run does. *)
LEMMA FoldRun ==
  ASSUME NEW Op(_, _), NEW b, NEW s, NEW n \in Nat, DOMAIN s = 1 .. n, NEW c, IsRun(Op, b, s, n, c)
  PROVE  FoldLeft(Op, b, s) = c[n]
<1>1. PICK f : IsFold(Op, b, s, n, f) /\ FoldLeft(Op, b, s) = f[1 .. n]
  BY FoldIsFold
<1>2. \A t \in SUBSET (1 .. n) : f[t] = IF t = {} THEN b ELSE Op(f[t \ {Max(t)}], s[Max(t)])
  BY <1>1, Zenon DEF IsFold
<1> DEFINE S == {m \in Nat : m \leq n => f[1 .. m] = c[m]}
<1>3. 0 \in S
  <2>1. 1 .. 0 = {}
    OBVIOUS
  <2>2. f[{}] = b
    BY <1>2
  <2>3. QED
    BY <2>1, <2>2 DEF IsRun
<1>4. ASSUME NEW m \in Nat, m \in S, m + 1 \leq n
      PROVE  f[1 .. m + 1] = c[m + 1]
  <2>1. Max(1 .. m + 1) = m + 1
    BY MaxIs
  <2>2. (1 .. m + 1) \ {m + 1} = 1 .. m
    OBVIOUS
  <2>3. 1 .. m + 1 \in SUBSET (1 .. n) /\ 1 .. m + 1 # {}
    BY <1>4
  <2>4. f[1 .. m + 1] = Op(f[1 .. m], s[m + 1])
    BY <2>1, <2>2, <2>3, <1>2
  <2>5. f[1 .. m] = c[m]
    BY <1>4
  <2>6. c[m + 1] = Op(c[m], s[m + 1])
    BY <1>4 DEF IsRun
  <2>7. QED
    BY <2>4, <2>5, <2>6
<1>5. \A m \in Nat : m \in S => m + 1 \in S
  BY <1>4
<1> HIDE DEF S
<1>6. n \in S
  BY <1>3, <1>5, InductiveSet
<1>7. QED
  BY <1>1, <1>6 DEF S

-----------------------------------------------------------------------------
(* Contents. *)

LEMMA DocIsSeq ==
  \A d : d \in Doc <=> d \in Seq(Line) /\ Len(d) \in 1 .. MaxLen
<1>1. ASSUME NEW d \in Doc
      PROVE  d \in Seq(Line) /\ Len(d) \in 1 .. MaxLen
  <2>1. PICK n \in 1 .. MaxLen : d \in [1 .. n -> Line]
    BY DEF Doc
  <2>2. n \in Nat /\ d \in Seq(Line)
    BY <2>1, IsASeq
  <2>3. Len(d) = n
    BY <2>1, <2>2, LenProperties
  <2>4. QED
    BY <2>2, <2>3
<1>2. ASSUME NEW d \in Seq(Line), Len(d) \in 1 .. MaxLen
      PROVE  d \in Doc
  <2>1. d \in [1 .. Len(d) -> Line]
    BY LenProperties
  <2>2. QED
    BY <2>1, <1>2 DEF Doc
<1>3. QED
  BY <1>1, <1>2

(* What is at each place once the len elements of s from pos on are replaced. *)
IsReplaced(s, pos, len, lines, r) ==
  /\ Len(r) = Len(s) - len + Len(lines)
  /\ \A i \in 1 .. Len(r) : i < pos => r[i] = s[i]
  /\ \A i \in 1 .. Len(lines) : r[pos + i - 1] = lines[i]
  /\ \A i \in pos + Len(lines) .. Len(r) : r[i] = s[i - Len(lines) + len]

(* What Replace computes. *)
LEMMA ReplaceIs ==
  ASSUME NEW L, NEW s \in Seq(L), NEW lines \in Seq(L),
         NEW pos \in 1 .. Len(s) + 1, NEW len \in 0 .. Len(s) - pos + 1
  PROVE  Replace(s, pos, len, lines) \in Seq(L) /\ IsReplaced(s, pos, len, lines, Replace(s, pos, len, lines))
<1> DEFINE u == SubSeq(s, 1, pos - 1)
<1> DEFINE v == SubSeq(s, pos + len, Len(s))
<1> DEFINE w == u \o lines
<1> DEFINE r == w \o v
<1>1. Len(s) \in Nat /\ Len(lines) \in Nat
  BY LenProperties
<1>2. u \in Seq(L) /\ Len(u) = pos - 1 /\ \A i \in 1 .. pos - 1 : u[i] = s[i]
  <2>1. \A i \in 1 .. pos - 1 : s[i] \in L
    BY <1>1, ElementOfSeq
  <2>2. u \in Seq(L) /\ Len(u) = IF 1 \leq pos - 1 THEN pos - 1 - 1 + 1 ELSE 0
    BY <2>1, <1>1, SubSeqProperties
  <2>3. \A i \in 1 .. pos - 1 : u[i] = s[1 + i - 1]
    BY <2>1, <1>1, SubSeqProperties
  <2> HIDE DEF u
  <2>4. QED
    BY <2>2, <2>3, <1>1
<1>3. v \in Seq(L) /\ Len(v) = Len(s) - pos - len + 1
      /\ \A i \in 1 .. Len(s) - pos - len + 1 : v[i] = s[pos + len + i - 1]
  <2>1. \A i \in pos + len .. Len(s) : s[i] \in L
    BY <1>1, ElementOfSeq
  <2>2. pos + len \in Int
    BY <1>1
  <2>3. v \in Seq(L) /\ Len(v) = IF pos + len \leq Len(s) THEN Len(s) - (pos + len) + 1 ELSE 0
    BY <2>1, <2>2, <1>1, SubSeqProperties
  <2>4. \A i \in 1 .. Len(s) - (pos + len) + 1 : v[i] = s[pos + len + i - 1]
    BY <2>1, <2>2, <1>1, SubSeqProperties
  <2> HIDE DEF v
  <2>5. Len(s) - (pos + len) + 1 = Len(s) - pos - len + 1
    BY <1>1
  <2>6. Len(v) = Len(s) - pos - len + 1
    BY <2>3, <1>1
  <2>7. QED
    BY <2>3, <2>4, <2>5, <2>6
<1> HIDE DEF u, v
<1>4. w \in Seq(L) /\ Len(w) = Len(u) + Len(lines)
      /\ \A i \in 1 .. Len(u) + Len(lines) : w[i] = IF i \leq Len(u) THEN u[i] ELSE lines[i - Len(u)]
  BY <1>2, ConcatProperties
<1> HIDE DEF w
<1>5. r \in Seq(L) /\ Len(r) = Len(w) + Len(v)
      /\ \A i \in 1 .. Len(w) + Len(v) : r[i] = IF i \leq Len(w) THEN w[i] ELSE v[i - Len(w)]
  <2>1. w \in Seq(L) /\ v \in Seq(L)
    BY <1>3, <1>4
  <2>2. QED
    BY <2>1, ConcatProperties
<1>6. Replace(s, pos, len, lines) = r
  BY DEF Replace, r, w, v, u
<1> HIDE DEF r
<1>7. Len(w) = pos - 1 + Len(lines) /\ Len(r) = Len(s) - len + Len(lines)
  BY <1>1, <1>2, <1>3, <1>4, <1>5
<1>8. ASSUME NEW i \in 1 .. Len(r), i < pos
      PROVE  r[i] = s[i]
  <2>1. i \leq Len(w) /\ i \in 1 .. Len(w) /\ i \leq Len(u)
    BY <1>1, <1>2, <1>7, <1>8
  <2>2. r[i] = w[i] /\ w[i] = u[i]
    BY <2>1, <1>4, <1>5
  <2>3. QED
    BY <2>2, <1>1, <1>2, <1>8
<1>9. ASSUME NEW i \in 1 .. Len(lines)
      PROVE  r[pos + i - 1] = lines[i]
  <2>1. pos + i - 1 \in 1 .. Len(w) /\ pos + i - 1 \in 1 .. Len(r) /\ ~ (pos + i - 1 \leq Len(u))
    BY <1>1, <1>2, <1>7
  <2>2. r[pos + i - 1] = w[pos + i - 1]
    BY <2>1, <1>5
  <2>3. w[pos + i - 1] = lines[pos + i - 1 - Len(u)]
    BY <2>1, <1>4
  <2>4. pos + i - 1 - Len(u) = i
    BY <1>1, <1>2
  <2>5. QED
    BY <2>2, <2>3, <2>4
<1>10. ASSUME NEW i \in pos + Len(lines) .. Len(r)
       PROVE  r[i] = s[i - Len(lines) + len]
  <2>1. i \in 1 .. Len(r) /\ ~ (i \leq Len(w))
    BY <1>1, <1>7
  <2>2. r[i] = v[i - Len(w)]
    BY <2>1, <1>5
  <2>3. i - Len(w) \in 1 .. Len(s) - pos - len + 1 /\ pos + len + (i - Len(w)) - 1 = i - Len(lines) + len
    BY <1>1, <1>7
  <2>4. QED
    BY <2>2, <2>3, <1>3
<1>11. QED
  BY <1>5, <1>6, <1>7, <1>8, <1>9, <1>10 DEF IsReplaced

-----------------------------------------------------------------------------
(* A change fits a content when its old lines are the ones at its place. *)

Fits(d, item) ==
  /\ item \in Item
  /\ item.pos + Len(item.old) \leq Len(d) + 1
  /\ \A k \in 1 .. Len(item.old) : d[item.pos + k - 1] = item.old[k]
  /\ item.op = "update" => Len(item.old) = 1 /\ Len(item.new) = 1

LEMMA ItemFields ==
  ASSUME NEW item \in Item
  PROVE  /\ item.pos \in 1 .. MaxLen + 1 /\ item.pos \in Nat
         /\ item.old \in Seq(Line) /\ item.new \in Seq(Line)
         /\ Len(item.old) \in Nat /\ Len(item.new) \in Nat
<1>1. item.pos \in 1 .. MaxLen + 1 /\ item.old \in Seq(Line) /\ item.new \in Seq(Line)
  BY DEF Item
<1>2. QED
  BY <1>1, LenProperties, BoundsAssumption

LEMMA AppliedIs ==
  ASSUME NEW d \in Seq(Line), NEW item, Fits(d, item)
  PROVE  /\ Apply(d, item) \in Seq(Line)
         /\ IsReplaced(d, item.pos, Len(item.old), item.new, Apply(d, item))
<1>1. item \in Item
  BY DEF Fits
<1>2. item.pos \in 1 .. Len(d) + 1 /\ Len(item.old) \in 0 .. Len(d) - item.pos + 1
  BY <1>1, ItemFields, LenProperties DEF Fits
<1>3. QED
  BY <1>1, <1>2, ItemFields, ReplaceIs DEF Apply

(* A change that fits is undone exactly. *)
LEMMA RevertApplied ==
  ASSUME NEW d \in Seq(Line), NEW item, Fits(d, item)
  PROVE  Revert(Apply(d, item), item) = d
<1> DEFINE e == Apply(d, item)
<1> DEFINE r == Revert(e, item)
<1> DEFINE p == item.pos
<1> DEFINE o == Len(item.old)
<1> DEFINE n == Len(item.new)
<1>1. p \in Nat \ {0} /\ o \in Nat /\ n \in Nat /\ Len(d) \in Nat
  BY ItemFields, LenProperties DEF Fits
<1>2. p + o \leq Len(d) + 1
  BY DEF Fits
<1>3. \A k \in 1 .. o : d[p + k - 1] = item.old[k]
  BY DEF Fits
<1>4. e \in Seq(Line) /\ IsReplaced(d, p, o, item.new, e)
  BY AppliedIs
<1>5. Len(e) = Len(d) - o + n
  BY <1>4 DEF IsReplaced
<1>6. item.old \in Seq(Line) /\ item.new \in Seq(Line)
  BY ItemFields DEF Fits
<1> HIDE DEF e, p, o, n
<1>7. \A j \in p + n .. Len(e) : e[j] = d[j - n + o]
  BY <1>4 DEF IsReplaced, n
<1>8. p \in 1 .. Len(e) + 1 /\ n \in 0 .. Len(e) - p + 1
  BY <1>1, <1>2, <1>5
<1>9. r \in Seq(Line) /\ IsReplaced(e, p, n, item.old, r)
  BY <1>4, <1>6, <1>8, ReplaceIs DEF Revert, p, n
<1> HIDE DEF r
<1>10. Len(r) = Len(d)
  BY <1>1, <1>5, <1>9 DEF IsReplaced, o
<1>11. ASSUME NEW i \in 1 .. Len(d)
      PROVE  r[i] = d[i]
  <2>1. CASE i < p
    <3>1. i \in 1 .. Len(e)
      BY <1>1, <1>2, <1>5, <2>1
    <3>2. r[i] = e[i]
      BY <1>9, <1>10, <2>1 DEF IsReplaced
    <3>3. e[i] = d[i]
      BY <1>4, <3>1, <2>1 DEF IsReplaced
    <3>4. QED
      BY <3>2, <3>3
  <2>2. CASE p \leq i /\ i < p + o
    <3>1. i - p + 1 \in 1 .. o /\ p + (i - p + 1) - 1 = i
      BY <1>1, <2>2
    <3>2. r[p + (i - p + 1) - 1] = item.old[i - p + 1]
      BY <1>9, <3>1 DEF IsReplaced, o
    <3>3. d[p + (i - p + 1) - 1] = item.old[i - p + 1]
      BY <1>3, <3>1
    <3>4. QED
      BY <3>1, <3>2, <3>3
  <2>3. CASE p + o \leq i
    <3> DEFINE j == i - o + n
    <3>1. i \in p + o .. Len(r) /\ j \in p + n .. Len(e) /\ j - n + o = i
      BY <1>1, <1>5, <1>10, <2>3
    <3>2. r[i] = e[j]
      BY <1>9, <3>1 DEF IsReplaced, o
    <3> HIDE DEF j
    <3>3. e[j] = d[j - n + o]
      BY <1>7, <3>1
    <3>4. QED
      BY <3>1, <3>2, <3>3
  <2>4. QED
    BY <2>1, <2>2, <2>3, <1>1
<1>12. QED
  BY <1>9, <1>10, <1>11, SeqEqual DEF r, e

(* An update of the line that was just updated is one update. *)
LEMMA AppliedMerged ==
  ASSUME NEW d \in Seq(Line), NEW last, NEW item, Fits(d, last), Fits(Apply(d, last), item),
         last.op = "update", item.op = "update", last.pos = item.pos
  PROVE  LET m == [last EXCEPT !.new = item.new] IN
           Fits(d, m) /\ Apply(d, m) = Apply(Apply(d, last), item)
<1> DEFINE m == [last EXCEPT !.new = item.new]
<1> DEFINE e == Apply(d, last)
<1> DEFINE p == last.pos
<1>1. last \in Item /\ item \in Item /\ p \in Nat \ {0} /\ Len(d) \in Nat
  BY ItemFields, LenProperties DEF Fits
<1>2. Len(last.old) = 1 /\ Len(last.new) = 1 /\ Len(item.old) = 1 /\ Len(item.new) = 1
  BY DEF Fits
<1>3. m \in Item /\ m.pos = p /\ m.old = last.old /\ m.new = item.new /\ m.op = "update"
  BY <1>1 DEF Item
<1> HIDE DEF m
<1>4. Fits(d, m)
  BY <1>2, <1>3 DEF Fits
<1>5. e \in Seq(Line) /\ IsReplaced(d, p, 1, last.new, e)
  BY <1>2, AppliedIs
<1>6. Apply(d, m) \in Seq(Line) /\ IsReplaced(d, p, 1, item.new, Apply(d, m))
  BY <1>2, <1>3, <1>4, AppliedIs
<1>7. Apply(e, item) \in Seq(Line) /\ IsReplaced(e, p, 1, item.new, Apply(e, item))
  BY <1>2, <1>5, AppliedIs
<1>8. p \leq Len(d)
  BY <1>1, <1>2 DEF Fits
<1> HIDE DEF e
<1>9. Len(e) = Len(d) /\ Len(Apply(d, m)) = Len(d) /\ Len(Apply(e, item)) = Len(d)
  BY <1>1, <1>2, <1>5, <1>6, <1>7 DEF IsReplaced
<1>10. ASSUME NEW i \in 1 .. Len(d)
       PROVE  Apply(d, m)[i] = Apply(e, item)[i]
  <2>1. CASE i < p
    BY <2>1, <1>5, <1>6, <1>7, <1>9 DEF IsReplaced
  <2>2. CASE i = p
    <3>1. Apply(d, m)[p + 1 - 1] = item.new[1] /\ Apply(e, item)[p + 1 - 1] = item.new[1]
      BY <1>2, <1>6, <1>7 DEF IsReplaced
    <3>2. QED
      BY <1>1, <2>2, <3>1
  <2>3. CASE i > p
    <3>1. i \in p + 1 .. Len(d) /\ i - 1 + 1 = i
      BY <1>1, <2>3
    <3>2. Apply(d, m)[i] = d[i - 1 + 1]
      BY <1>2, <1>6, <1>9, <3>1 DEF IsReplaced
    <3>3. Apply(e, item)[i] = e[i - 1 + 1]
      BY <1>2, <1>7, <1>9, <3>1 DEF IsReplaced
    <3>4. e[i] = d[i - 1 + 1]
      BY <1>2, <1>5, <1>9, <3>1 DEF IsReplaced
    <3>5. QED
      BY <3>1, <3>2, <3>3, <3>4
  <2>4. QED
    BY <2>1, <2>2, <2>3, <1>1
<1>11. Apply(d, m) = Apply(e, item)
  BY <1>6, <1>7, <1>9, <1>10, SeqEqual
<1>12. QED
  BY <1>4, <1>11 DEF m, e

-----------------------------------------------------------------------------
(* A group fits a content when each of its changes fits what the ones before it make of the       *)
(* content; c are the contents on the way.                                                        *)

Passage(d, g, c) ==
  /\ g \in Seq(Item) /\ g # <<>>
  /\ c \in [0 .. Len(g) -> Doc]
  /\ IsRun(Apply, d, g, Len(g), c)
  /\ \A i \in 1 .. Len(g) : Fits(c[i - 1], g[i])

Leads(d, g, e) == \E c : Passage(d, g, c) /\ e = c[Len(g)]

LEMMA PassageSteps ==
  ASSUME NEW d, NEW g, NEW c, Passage(d, g, c)
  PROVE  /\ Len(g) \in Nat \ {0} /\ DOMAIN g = 1 .. Len(g)
         /\ c[0] = d
         /\ \A i \in 0 .. Len(g) : c[i] \in Doc
         /\ \A i \in 1 .. Len(g) : c[i] = Apply(c[i - 1], g[i]) /\ Fits(c[i - 1], g[i]) /\ g[i] \in Item
<1>1. g \in Seq(Item) /\ g # <<>>
  BY DEF Passage
<1>2. Len(g) \in Nat \ {0} /\ DOMAIN g = 1 .. Len(g)
  BY <1>1, EmptySeq, LenProperties
<1>3. \A i \in 1 .. Len(g) : g[i] \in Item
  BY <1>1, ElementOfSeq
<1>4. \A i \in 0 .. Len(g) : c[i] \in Doc
  BY DEF Passage
<1>5. c[0] = d /\ \A i \in 1 .. Len(g) : c[i] = Apply(c[i - 1], g[i])
  BY DEF Passage, IsRun
<1>6. \A i \in 1 .. Len(g) : Fits(c[i - 1], g[i])
  BY DEF Passage
<1>7. QED
  BY <1>2, <1>3, <1>4, <1>5, <1>6

(* Applying a group leads to the content its changes lead to. *)
LEMMA GroupApplied ==
  ASSUME NEW d, NEW g, NEW e, Leads(d, g, e)
  PROVE  ApplyGroup(d, g) = e
<1>1. PICK c : Passage(d, g, c) /\ e = c[Len(g)]
  BY DEF Leads
<1>2. Len(g) \in Nat /\ DOMAIN g = 1 .. Len(g)
  BY <1>1, PassageSteps
<1>3. IsRun(Apply, d, g, Len(g), c)
  BY <1>1 DEF Passage
<1>4. FoldLeft(Apply, d, g) = c[Len(g)]
  BY <1>2, <1>3, FoldRun
<1>5. QED
  BY <1>1, <1>4 DEF ApplyGroup

LEMMA LeadsToDoc ==
  ASSUME NEW d, NEW g, NEW e, Leads(d, g, e)
  PROVE  d \in Doc /\ e \in Doc
<1>1. PICK c : Passage(d, g, c) /\ e = c[Len(g)]
  BY DEF Leads
<1>2. Len(g) \in Nat /\ c[0] = d /\ \A i \in 0 .. Len(g) : c[i] \in Doc
  BY <1>1, PassageSteps
<1>3. 0 \in 0 .. Len(g) /\ Len(g) \in 0 .. Len(g)
  BY <1>2
<1>4. QED
  BY <1>1, <1>2, <1>3

(* Reverting a group backwards leads back over the contents it was applied to. *)
LEMMA GroupReverted ==
  ASSUME NEW d, NEW g, NEW e, Leads(d, g, e)
  PROVE  RevertGroup(e, g) = d
<1>1. PICK c : Passage(d, g, c) /\ e = c[Len(g)]
  BY DEF Leads
<1> DEFINE n == Len(g)
<1> DEFINE r == Reverse(g)
<1> DEFINE k == [i \in 0 .. n |-> c[n - i]]
<1>2. n \in Nat /\ c[0] = d
  BY <1>1, PassageSteps
<1>3. \A i \in 0 .. n : c[i] \in Seq(Line)
  BY <1>1, PassageSteps, DocIsSeq
<1>4. \A i \in 1 .. n : c[i] = Apply(c[i - 1], g[i]) /\ Fits(c[i - 1], g[i])
  BY <1>1, PassageSteps
<1>5. DOMAIN r = 1 .. n /\ \A i \in 1 .. n : r[i] = g[n - i + 1]
  BY DEF Reverse
<1>6. \A i \in 0 .. n : k[i] = c[n - i]
  OBVIOUS
<1> HIDE DEF n, r, k
<1>7. ASSUME NEW i \in 1 .. n
      PROVE  k[i] = Revert(k[i - 1], r[i])
  <2> DEFINE j == n - i + 1
  <2>1. j \in 1 .. n /\ j - 1 \in 0 .. n /\ i \in 0 .. n /\ i - 1 \in 0 .. n
        /\ n - (i - 1) = j /\ n - i = j - 1
    BY <1>2
  <2>2. k[i] = c[j - 1] /\ k[i - 1] = c[j] /\ r[i] = g[j]
    BY <1>5, <1>6, <2>1
  <2> HIDE DEF j
  <2>3. c[j] = Apply(c[j - 1], g[j]) /\ Fits(c[j - 1], g[j]) /\ c[j - 1] \in Seq(Line)
    BY <1>3, <1>4, <2>1
  <2>4. Revert(Apply(c[j - 1], g[j]), g[j]) = c[j - 1]
    BY <2>3, RevertApplied
  <2>5. QED
    BY <2>2, <2>3, <2>4
<1>8. k[0] = e /\ k[n] = d
  <2>1. 0 \in 0 .. n /\ n \in 0 .. n /\ n - 0 = n /\ n - n = 0
    BY <1>2
  <2>2. QED
    BY <1>1, <1>2, <1>6, <2>1 DEF n
<1>9. IsRun(Revert, e, r, n, k)
  BY <1>7, <1>8 DEF IsRun
<1>10. FoldLeft(Revert, e, r) = k[n]
  BY <1>2, <1>5, <1>9, FoldRun
<1>11. QED
  BY <1>8, <1>10 DEF RevertGroup, r

(* A new group. *)
LEMMA GroupOfOne ==
  ASSUME NEW d \in Doc, NEW item, Fits(d, item), Apply(d, item) \in Doc
  PROVE  Leads(d, <<item>>, Apply(d, item))
<1> DEFINE g == <<item>>
<1> DEFINE c == [i \in 0 .. 1 |-> IF i = 0 THEN d ELSE Apply(d, item)]
<1>1. item \in Item
  BY DEF Fits
<1>2. g \in Seq(Item) /\ g # <<>> /\ Len(g) = 1 /\ g[1] = item
  BY <1>1
<1>3. c \in [0 .. 1 -> Doc] /\ c[0] = d /\ c[1] = Apply(d, item)
  OBVIOUS
<1> HIDE DEF g, c
<1>4. \A i \in 1 .. 1 : i = 1 /\ i - 1 = 0
  OBVIOUS
<1>5. IsRun(Apply, d, g, 1, c)
  BY <1>2, <1>3, <1>4 DEF IsRun
<1>6. \A i \in 1 .. 1 : Fits(c[i - 1], g[i])
  BY <1>2, <1>3, <1>4
<1>7. Passage(d, g, c)
  BY <1>2, <1>3, <1>5, <1>6 DEF Passage
<1>8. QED
  BY <1>2, <1>3, <1>7 DEF Leads, g

LEMMA LastReplaced ==
  ASSUME NEW g \in Seq(Item), g # <<>>, NEW m \in Item
  PROVE  LET r == Append(Front(g), m) IN
           /\ r \in Seq(Item) /\ r # <<>> /\ Len(r) = Len(g)
           /\ r[Len(g)] = m
           /\ \A i \in 1 .. Len(g) - 1 : r[i] = g[i]
<1> DEFINE n == Len(g)
<1> DEFINE f == Front(g)
<1> DEFINE r == Append(f, m)
<1>1. n \in Nat \ {0}
  BY EmptySeq
<1>2. \A i \in 1 .. n - 1 : g[i] \in Item
  BY <1>1, ElementOfSeq
<1>3. f \in Seq(Item) /\ Len(f) = (IF 1 \leq n - 1 THEN n - 1 - 1 + 1 ELSE 0)
      /\ \A i \in 1 .. n - 1 - 1 + 1 : f[i] = g[1 + i - 1]
  BY <1>1, <1>2, SubSeqProperties DEF Front
<1> HIDE DEF f, n
<1>4. Len(f) = n - 1 /\ \A i \in 1 .. n - 1 : f[i] = g[i]
  <2>1. n - 1 - 1 + 1 = n - 1 /\ \A i \in 1 .. n - 1 : 1 + i - 1 = i
    BY <1>1
  <2>2. QED
    BY <1>1, <1>3, <2>1
<1>5. r \in Seq(Item) /\ Len(r) = Len(f) + 1 /\ r[Len(f) + 1] = m /\ \A i \in 1 .. Len(f) : r[i] = f[i]
  BY <1>3, AppendProperties
<1> HIDE DEF r
<1>6. Len(r) = n /\ r[n] = m
  BY <1>1, <1>4, <1>5
<1>7. \A i \in 1 .. n - 1 : r[i] = g[i]
  BY <1>4, <1>5
<1>8. r # <<>>
  BY <1>1, <1>6, EmptySeq
<1>9. QED
  BY <1>5, <1>6, <1>7, <1>8 DEF n, r, f

(* One more change in a group, merged into the last one or not. *)
LEMMA GroupOfMore ==
  ASSUME NEW d, NEW g, NEW e, Leads(d, g, e), NEW item, Fits(e, item), Apply(e, item) \in Doc
  PROVE  Leads(d, AddToGroup(g, item), Apply(e, item))
<1>1. PICK c : Passage(d, g, c) /\ e = c[Len(g)]
  BY DEF Leads
<1> DEFINE n == Len(g)
<1> DEFINE x == Apply(e, item)
<1>2. g \in Seq(Item) /\ g # <<>> /\ c \in [0 .. n -> Doc]
  BY <1>1 DEF Passage
<1>3. n \in Nat \ {0} /\ c[0] = d /\ \A i \in 0 .. n : c[i] \in Doc
  BY <1>1, PassageSteps
<1>4. \A i \in 1 .. n : c[i] = Apply(c[i - 1], g[i]) /\ Fits(c[i - 1], g[i]) /\ g[i] \in Item
  BY <1>1, PassageSteps
<1>5. item \in Item
  BY DEF Fits
<1>6. e = c[n]
  BY <1>1
<1> HIDE DEF n, x
<1>7. CASE item.op = "update" /\ Last(g).op = "update" /\ Last(g).pos = item.pos
  <2> DEFINE m == [Last(g) EXCEPT !.new = item.new]
  <2> DEFINE r == Append(Front(g), m)
  <2> DEFINE k == [c EXCEPT ![n] = x]
  <2>1. n \in 1 .. n /\ n - 1 \in 0 .. n /\ Last(g) = g[n]
    BY <1>3 DEF Last, n
  <2>2. c[n - 1] \in Seq(Line) /\ Fits(c[n - 1], Last(g)) /\ e = Apply(c[n - 1], Last(g))
    BY <1>3, <1>4, <1>6, <2>1, DocIsSeq
  <2>3. Fits(c[n - 1], m) /\ Apply(c[n - 1], m) = x
    BY <1>7, <2>2, AppliedMerged DEF x
  <2> HIDE DEF m
  <2>4. m \in Item
    BY <2>3 DEF Fits
  <2>5. r \in Seq(Item) /\ r # <<>> /\ Len(r) = n /\ r[n] = m /\ \A i \in 1 .. n - 1 : r[i] = g[i]
    BY <1>2, <2>4, LastReplaced DEF n
  <2>6. k \in [0 .. n -> Doc] /\ k[n] = x /\ \A i \in 0 .. n - 1 : k[i] = c[i]
    BY <1>2, <1>3 DEF x
  <2> HIDE DEF r, k
  <2>7. ASSUME NEW i \in 1 .. n
        PROVE  k[i] = Apply(k[i - 1], r[i]) /\ Fits(k[i - 1], r[i])
    <3>1. CASE i = n
      <4>1. n - 1 \in 0 .. n - 1
        BY <1>3
      <4>2. QED
        BY <4>1, <3>1, <2>3, <2>5, <2>6
    <3>2. CASE i # n
      <4>1. i \in 1 .. n - 1 /\ i \in 0 .. n - 1 /\ i - 1 \in 0 .. n - 1
        BY <1>3, <3>2
      <4>2. QED
        BY <4>1, <1>4, <2>5, <2>6
    <3>3. QED
      BY <3>1, <3>2
  <2>8. k[0] = d
    <3>1. 0 \in 0 .. n - 1
      BY <1>3
    <3>2. QED
      BY <3>1, <1>3, <2>6
  <2>9. IsRun(Apply, d, r, n, k)
    BY <2>7, <2>8 DEF IsRun
  <2>10. Passage(d, r, k)
    BY <2>5, <2>6, <2>7, <2>9 DEF Passage
  <2>11. Leads(d, r, x)
    BY <2>5, <2>6, <2>10 DEF Leads
  <2>12. r = AddToGroup(g, item)
    BY <1>7 DEF AddToGroup, MergeUpdate, r, m
  <2>13. QED
    BY <2>11, <2>12 DEF x
<1>8. CASE ~ (item.op = "update" /\ Last(g).op = "update" /\ Last(g).pos = item.pos)
  <2> DEFINE r == Append(g, item)
  <2> DEFINE k == [i \in 0 .. n + 1 |-> IF i \leq n THEN c[i] ELSE x]
  <2>1. r \in Seq(Item) /\ Len(r) = n + 1 /\ r[n + 1] = item /\ \A i \in 1 .. n : r[i] = g[i]
    BY <1>2, <1>5, AppendProperties DEF n
  <2>2. k \in [0 .. n + 1 -> Doc] /\ k[n + 1] = x /\ \A i \in 0 .. n : k[i] = c[i]
    BY <1>3 DEF x
  <2> HIDE DEF r, k
  <2>3. ASSUME NEW i \in 1 .. n + 1
        PROVE  k[i] = Apply(k[i - 1], r[i]) /\ Fits(k[i - 1], r[i])
    <3>1. CASE i = n + 1
      <4>1. n \in 0 .. n /\ n + 1 - 1 = n
        BY <1>3
      <4>2. QED
        BY <4>1, <3>1, <1>6, <2>1, <2>2 DEF x
    <3>2. CASE i # n + 1
      <4>1. i \in 1 .. n /\ i \in 0 .. n /\ i - 1 \in 0 .. n
        BY <1>3, <3>2
      <4>2. QED
        BY <4>1, <1>4, <2>1, <2>2
    <3>3. QED
      BY <3>1, <3>2
  <2>4. k[0] = d
    <3>1. 0 \in 0 .. n
      BY <1>3
    <3>2. QED
      BY <3>1, <1>3, <2>2
  <2>5. IsRun(Apply, d, r, n + 1, k)
    BY <2>3, <2>4 DEF IsRun
  <2>6. r # <<>>
    BY <2>1, <1>3, EmptySeq
  <2>7. Passage(d, r, k)
    BY <2>1, <2>2, <2>3, <2>5, <2>6 DEF Passage
  <2>8. Leads(d, r, x)
    BY <2>1, <2>2, <2>7 DEF Leads
  <2>9. r = AddToGroup(g, item)
    BY <1>8 DEF AddToGroup, r
  <2>10. QED
    BY <2>8, <2>9 DEF x
<1>9. QED
  BY <1>7, <1>8

-----------------------------------------------------------------------------
(* Histories: h are the contents the groups of edits lead through from b. *)

IsHistory(b, edits, h) ==
  /\ edits \in Seq(Seq(Item))
  /\ h \in [0 .. Len(edits) -> Doc]
  /\ h[0] = b
  /\ \A n \in 1 .. Len(edits) : Leads(h[n - 1], edits[n], h[n])

LEMMA HistorySteps ==
  ASSUME NEW b, NEW edits, NEW h, IsHistory(b, edits, h)
  PROVE  /\ edits \in Seq(Seq(Item)) /\ Len(edits) \in Nat /\ DOMAIN edits = 1 .. Len(edits)
         /\ \A n \in 1 .. Len(edits) : edits[n] \in Seq(Item)
         /\ h[0] = b /\ \A n \in 0 .. Len(edits) : h[n] \in Doc
         /\ \A n \in 1 .. Len(edits) : Leads(h[n - 1], edits[n], h[n])
<1>1. edits \in Seq(Seq(Item)) /\ h \in [0 .. Len(edits) -> Doc]
  BY DEF IsHistory
<1>2. Len(edits) \in Nat /\ DOMAIN edits = 1 .. Len(edits)
  BY <1>1, LenProperties
<1>3. \A n \in 1 .. Len(edits) : edits[n] \in Seq(Item)
  BY <1>1, ElementOfSeq
<1>4. \A n \in 0 .. Len(edits) : h[n] \in Doc
  BY <1>1
<1>5. QED
  BY <1>1, <1>2, <1>3, <1>4 DEF IsHistory

LEMMA FirstGroups ==
  ASSUME NEW S, NEW s \in Seq(S), NEW n \in 0 .. Len(s)
  PROVE  /\ SubSeq(s, 1, n) \in Seq(S) /\ Len(SubSeq(s, 1, n)) = n
         /\ DOMAIN SubSeq(s, 1, n) = 1 .. n
         /\ \A i \in 1 .. n : SubSeq(s, 1, n)[i] = s[i]
<1> DEFINE r == SubSeq(s, 1, n)
<1>1. Len(s) \in Nat /\ n \in Nat
  BY LenProperties
<1>2. \A i \in 1 .. n : s[i] \in S
  BY <1>1, ElementOfSeq
<1>3. r \in Seq(S) /\ Len(r) = (IF 1 \leq n THEN n - 1 + 1 ELSE 0)
      /\ \A i \in 1 .. n - 1 + 1 : r[i] = s[1 + i - 1]
  BY <1>1, <1>2, SubSeqProperties
<1> HIDE DEF r
<1>4. n - 1 + 1 = n /\ \A i \in 1 .. n : 1 + i - 1 = i
  BY <1>1
<1>5. Len(r) = n /\ \A i \in 1 .. n : r[i] = s[i]
  BY <1>1, <1>3, <1>4
<1>6. DOMAIN r = 1 .. n
  BY <1>3, <1>5, LenProperties
<1>7. QED
  BY <1>3, <1>5, <1>6 DEF r

(* Replaying the first groups of a list leads along its history. *)
LEMMA HistoryReplayed ==
  ASSUME NEW b, NEW edits, NEW h, IsHistory(b, edits, h), NEW n \in 0 .. Len(edits)
  PROVE  FoldLeft(ApplyGroup, b, SubSeq(edits, 1, n)) = h[n]
<1> DEFINE s == SubSeq(edits, 1, n)
<1>1. n \in Nat /\ edits \in Seq(Seq(Item)) /\ Len(edits) \in Nat
  BY HistorySteps
<1>2. DOMAIN s = 1 .. n /\ \A i \in 1 .. n : s[i] = edits[i]
  BY <1>1, FirstGroups
<1>3. \A i \in 1 .. n : Leads(h[i - 1], edits[i], h[i])
  BY <1>1, HistorySteps
<1>4. \A i \in 1 .. n : h[i] = ApplyGroup(h[i - 1], edits[i])
  BY <1>3, GroupApplied
<1> HIDE DEF s
<1>5. IsRun(ApplyGroup, b, s, n, h)
  BY <1>2, <1>4, HistorySteps DEF IsRun
<1>6. FoldLeft(ApplyGroup, b, s) = h[n]
  BY <1>1, <1>2, <1>5, FoldRun
<1>7. QED
  BY <1>6 DEF s

(* The history with all after its first n groups dropped and one more group. *)
Branch(h, n, x) == [i \in 0 .. n + 1 |-> IF i \leq n THEN h[i] ELSE x]

(* A new group after the first n. *)
LEMMA HistoryBranched ==
  ASSUME NEW b, NEW edits, NEW h, IsHistory(b, edits, h), NEW n \in 0 .. Len(edits),
         NEW g, g \in Seq(Item), NEW x, Leads(h[n], g, x)
  PROVE  LET e == Append(SubSeq(edits, 1, n), g) IN
           IsHistory(b, e, Branch(h, n, x)) /\ Len(e) = n + 1 /\ e # <<>>
<1> DEFINE s == SubSeq(edits, 1, n)
<1> DEFINE e == Append(s, g)
<1> DEFINE k == Branch(h, n, x)
<1>1. edits \in Seq(Seq(Item)) /\ Len(edits) \in Nat /\ n \in Nat
  BY HistorySteps
<1>2. s \in Seq(Seq(Item)) /\ Len(s) = n /\ \A i \in 1 .. n : s[i] = edits[i]
  BY <1>1, FirstGroups
<1> HIDE DEF s
<1>3. e \in Seq(Seq(Item)) /\ Len(e) = n + 1 /\ e[n + 1] = g /\ \A i \in 1 .. n : e[i] = s[i]
  BY <1>2, AppendProperties
<1> HIDE DEF e
<1>4. e # <<>>
  BY <1>1, <1>3, EmptySeq
<1>5. \A i \in 0 .. n : h[i] \in Doc
  BY <1>1, HistorySteps
<1>6. x \in Doc
  BY LeadsToDoc
<1>7. k \in [0 .. n + 1 -> Doc] /\ k[n + 1] = x /\ \A i \in 0 .. n : k[i] = h[i]
  BY <1>1, <1>5, <1>6 DEF Branch
<1> HIDE DEF k
<1>8. ASSUME NEW i \in 1 .. n + 1
      PROVE  Leads(k[i - 1], e[i], k[i])
  <2>1. CASE i = n + 1
    <3>1. n \in 0 .. n /\ n + 1 - 1 = n
      BY <1>1
    <3>2. QED
      BY <2>1, <3>1, <1>3, <1>7
  <2>2. CASE i # n + 1
    <3>1. i \in 1 .. n /\ i \in 0 .. n /\ i - 1 \in 0 .. n
      BY <1>1, <2>2
    <3>2. i \in 1 .. Len(edits)
      BY <1>1, <3>1
    <3>3. Leads(h[i - 1], edits[i], h[i])
      BY <3>2, HistorySteps
    <3>4. QED
      BY <3>1, <3>3, <1>2, <1>3, <1>7
  <2>3. QED
    BY <2>1, <2>2
<1>9. k[0] = b
  <2>1. 0 \in 0 .. n
    BY <1>1
  <2>2. QED
    BY <2>1, <1>7, HistorySteps
<1>10. IsHistory(b, e, k)
  BY <1>3, <1>7, <1>8, <1>9 DEF IsHistory
<1>11. QED
  BY <1>3, <1>4, <1>10 DEF e, s, k

(* Another last group. *)
HasHistoryWith(b, edits, h, g, x) ==
  LET e == [edits EXCEPT ![Len(edits)] = g]
  IN  IsHistory(b, e, [h EXCEPT ![Len(edits)] = x]) /\ Len(e) = Len(edits) /\ e # <<>>

LEMMA HistoryExtended ==
  ASSUME NEW b, NEW edits, NEW h, IsHistory(b, edits, h), edits # <<>>,
         NEW g, g \in Seq(Item), NEW x, Leads(h[Len(edits) - 1], g, x)
  PROVE  HasHistoryWith(b, edits, h, g, x)
<1> DEFINE l == Len(edits)
<1> DEFINE e == [edits EXCEPT ![l] = g]
<1> DEFINE k == [h EXCEPT ![l] = x]
<1>1. edits \in Seq(Seq(Item)) /\ h \in [0 .. l -> Doc]
  BY DEF IsHistory
<1>2. l \in Nat \ {0}
  BY <1>1, EmptySeq
<1>3. e \in Seq(Seq(Item)) /\ Len(e) = l /\ \A i \in 1 .. l : e[i] = IF i = l THEN g ELSE edits[i]
  <2>1. l \in 1 .. l
    BY <1>2
  <2>2. QED
    BY <1>1, <2>1, ExceptSeq
<1> HIDE DEF e
<1>4. e # <<>>
  BY <1>2, <1>3, EmptySeq
<1>5. x \in Doc
  BY LeadsToDoc
<1>6. \A i \in 1 .. l : Leads(h[i - 1], edits[i], h[i])
  BY HistorySteps
<1>7. Leads(h[l - 1], g, x)
  OBVIOUS
<1>8. h[0] = b
  BY HistorySteps
<1> HIDE DEF l
<1>9. k \in [0 .. l -> Doc] /\ k[l] = x /\ \A i \in 0 .. l - 1 : k[i] = h[i]
  BY <1>1, <1>2, <1>5
<1> HIDE DEF k
<1>10. ASSUME NEW i \in 1 .. l
       PROVE  Leads(k[i - 1], e[i], k[i])
  <2>1. CASE i = l
    <3>1. l - 1 \in 0 .. l - 1 /\ l \in 1 .. l
      BY <1>2
    <3>2. QED
      BY <2>1, <3>1, <1>3, <1>7, <1>9
  <2>2. CASE i # l
    <3>1. i \in 0 .. l - 1 /\ i - 1 \in 0 .. l - 1
      BY <1>2, <2>2
    <3>2. QED
      BY <2>2, <3>1, <1>3, <1>6, <1>9
  <2>3. QED
    BY <2>1, <2>2
<1>11. k[0] = b
  <2>1. 0 \in 0 .. l - 1
    BY <1>2
  <2>2. QED
    BY <2>1, <1>8, <1>9
<1>12. IsHistory(b, e, k)
  BY <1>3, <1>9, <1>10, <1>11 DEF IsHistory
<1>13. QED
  BY <1>3, <1>4, <1>12 DEF e, k, l, HasHistoryWith

-----------------------------------------------------------------------------
(* The changes that may be made fit, and leave a content. *)

LEMMA AppliedLength ==
  ASSUME NEW d \in Doc, NEW item, Fits(d, item)
  PROVE  Apply(d, item) \in Seq(Line) /\ Len(Apply(d, item)) = Len(d) - Len(item.old) + Len(item.new)
<1>1. d \in Seq(Line)
  BY DocIsSeq
<1>2. Apply(d, item) \in Seq(Line) /\ IsReplaced(d, item.pos, Len(item.old), item.new, Apply(d, item))
  BY <1>1, AppliedIs
<1>3. QED
  BY <1>2 DEF IsReplaced

LEMMA MaxLenIsNat == MaxLen \in Nat \ {0}
BY BoundsAssumption

LEMMA UpdateFits ==
  ASSUME NEW d \in Doc, NEW item \in Updates(d)
  PROVE  Fits(d, item) /\ Apply(d, item) \in Doc
<1>1. d \in Seq(Line) /\ Len(d) \in 1 .. MaxLen
  BY DocIsSeq
<1>2. PICK p \in DOMAIN d, l \in Line : item = [op |-> "update", pos |-> p, old |-> <<d[p]>>, new |-> <<l>>]
  BY DEF Updates
<1>3. p \in 1 .. Len(d) /\ d[p] \in Line
  BY <1>1, LenProperties, ElementOfSeq
<1>4. <<d[p]>> \in Seq(Line) /\ Len(<<d[p]>>) = 1 /\ <<l>> \in Seq(Line) /\ Len(<<l>>) = 1
  BY <1>3
<1>5. p \in 1 .. MaxLen + 1
  BY <1>1, <1>3, MaxLenIsNat
<1>6. item \in Item
  BY <1>2, <1>4, <1>5 DEF Item
<1>7. item.pos = p /\ Len(item.old) = 1 /\ Len(item.new) = 1 /\ item.old[1] = d[p]
  BY <1>2, <1>4
<1>8. \A k \in 1 .. 1 : p + k - 1 = p /\ k = 1
  BY <1>3
<1>9. Fits(d, item)
  BY <1>1, <1>3, <1>6, <1>7, <1>8 DEF Fits
<1>10. Apply(d, item) \in Seq(Line) /\ Len(Apply(d, item)) = Len(d) - 1 + 1
  BY <1>7, <1>9, AppliedLength
<1>11. Len(Apply(d, item)) \in 1 .. MaxLen
  BY <1>1, <1>10
<1>12. QED
  BY <1>9, <1>10, <1>11, DocIsSeq

LEMMA InsertFits ==
  ASSUME NEW d \in Doc, NEW item \in Inserts(d)
  PROVE  Fits(d, item) /\ Apply(d, item) \in Doc
<1>1. d \in Seq(Line) /\ Len(d) \in 1 .. MaxLen
  BY DocIsSeq
<1>2. PICK p \in 1 .. Len(d) + 1, lines \in UNION { [1 .. n -> Line] : n \in 1 .. MaxLen - Len(d) } :
        item = [op |-> "insert", pos |-> p, old |-> <<>>, new |-> lines]
  BY DEF Inserts
<1>3. PICK n \in 1 .. MaxLen - Len(d) : lines \in [1 .. n -> Line]
  BY <1>2
<1>4. n \in Nat /\ lines \in Seq(Line)
  BY <1>3, IsASeq
<1>5. Len(lines) = n
  BY <1>3, <1>4, LenProperties
<1>6. <<>> \in Seq(Line) /\ Len(<<>>) = 0
  BY EmptySeq
<1>7. p \in 1 .. MaxLen + 1
  BY <1>1, <1>2, MaxLenIsNat
<1>8. item \in Item
  BY <1>2, <1>4, <1>6, <1>7 DEF Item
<1>9. item.pos = p /\ Len(item.old) = 0 /\ Len(item.new) = n /\ item.op = "insert"
  BY <1>2, <1>5, <1>6
<1>10. Fits(d, item)
  BY <1>1, <1>2, <1>8, <1>9 DEF Fits
<1>11. Apply(d, item) \in Seq(Line) /\ Len(Apply(d, item)) = Len(d) - 0 + n
  BY <1>9, <1>10, AppliedLength
<1>12. Len(Apply(d, item)) \in 1 .. MaxLen
  BY <1>1, <1>3, <1>11, MaxLenIsNat
<1>13. QED
  BY <1>10, <1>11, <1>12, DocIsSeq

LEMMA DeleteFits ==
  ASSUME NEW d \in Doc, NEW item \in Deletes(d)
  PROVE  Fits(d, item) /\ Apply(d, item) \in Doc
<1>1. d \in Seq(Line) /\ Len(d) \in 1 .. MaxLen /\ DOMAIN d = 1 .. Len(d)
  BY DocIsSeq, LenProperties
<1>2. PICK p \in 1 .. Len(d) : \E q \in p .. Len(d) : item = Delete(d, p, q)
  BY <1>1 DEF Deletes
<1>3. PICK q \in p .. Len(d) : item = Delete(d, p, q)
  BY <1>2
<1>4. item # Delete(d, 1, Len(d))
  <2>1. item \notin { Delete(d, 1, Len(d)) }
    BY Zenon DEF Deletes
  <2>2. QED
    BY <2>1
<1>5. ~ (p = 1 /\ q = Len(d))
  BY <1>3, <1>4
<1> DEFINE o == SubSeq(d, p, q)
<1>6. p \in Int /\ q \in Int /\ p \leq q /\ 1 \leq p /\ q \leq Len(d)
  BY <1>1, <1>3
<1>7. \A i \in p .. q : d[i] \in Line
  BY <1>1, <1>6, ElementOfSeq
<1>8. o \in Seq(Line) /\ Len(o) = (IF p \leq q THEN q - p + 1 ELSE 0)
      /\ \A i \in 1 .. q - p + 1 : o[i] = d[p + i - 1]
  BY <1>6, <1>7, SubSeqProperties
<1>9. <<>> \in Seq(Line) /\ Len(<<>>) = 0
  BY EmptySeq
<1>10. item = [op |-> "delete", pos |-> p, old |-> o, new |-> <<>>]
  BY <1>3 DEF Delete
<1> HIDE DEF o
<1>11. Len(o) = q - p + 1
  BY <1>6, <1>8
<1>12. p \in 1 .. MaxLen + 1
  BY <1>1, <1>6, MaxLenIsNat
<1>13. item \in Item
  BY <1>8, <1>9, <1>10, <1>12 DEF Item
<1>14. item.pos = p /\ item.old = o /\ Len(item.new) = 0 /\ item.op = "delete"
  BY <1>9, <1>10
<1>15. \A k \in 1 .. Len(o) : d[p + k - 1] = o[k]
  BY <1>8, <1>11
<1>16. p + Len(o) \leq Len(d) + 1
  BY <1>1, <1>6, <1>11
<1>17. Fits(d, item)
  BY <1>13, <1>14, <1>15, <1>16 DEF Fits
<1>18. Apply(d, item) \in Seq(Line) /\ Len(Apply(d, item)) = Len(d) - Len(o) + 0
  BY <1>14, <1>17, AppliedLength
<1>19. Len(Apply(d, item)) \in 1 .. MaxLen
  <2>1. q - p + 1 \leq Len(d) - 1
    <3>1. CASE p = 1
      <4>1. q # Len(d)
        BY <3>1, <1>5
      <4>2. Len(d) \in Nat
        BY <1>1, LenProperties
      <4>3. QED
        BY <3>1, <4>1, <4>2, <1>6
    <3>2. CASE p # 1
      BY <3>2, <1>1, <1>6
    <3>3. QED
      BY <3>1, <3>2
  <2>2. Len(Apply(d, item)) \in 1 .. Len(d)
    BY <2>1, <1>1, <1>6, <1>11, <1>18
  <2>3. QED
    BY <2>2, <1>1, MaxLenIsNat
<1>20. QED
  BY <1>17, <1>18, <1>19, DocIsSeq

LEMMA ChangeFits ==
  ASSUME NEW d \in Doc, NEW item \in Changes(d)
  PROVE  Fits(d, item) /\ Apply(d, item) \in Doc
BY UpdateFits, InsertFits, DeleteFits DEF Changes

-----------------------------------------------------------------------------
(* Trackers: h are the contents that undo and redo walk. *)

Tracker ==
  [doc : Doc, edits : Seq(Seq(Item)), currentPos : Int, groupRequested : BOOLEAN, made : BOOLEAN]

IsTracker(b, t, h) ==
  /\ t \in Tracker
  /\ t.currentPos \in -1 .. Len(t.edits)
  /\ t.currentPos < Len(t.edits) \/ t.edits = <<>>
  /\ t.edits # <<>> \/ t.groupRequested => t.made
  /\ IsHistory(b, t.edits, h)
  /\ t.doc = h[Applied(t)]

(* The inductive invariant. *)
IInv == base \in Doc /\ \E h : IsTracker(base, tracker, h)

LEMMA TrackerFields ==
  ASSUME NEW b, NEW t, NEW h, IsTracker(b, t, h)
  PROVE  /\ t.doc \in Doc /\ t.edits \in Seq(Seq(Item)) /\ Len(t.edits) \in Nat /\ t.currentPos \in Int
         /\ t.groupRequested \in BOOLEAN /\ t.made \in BOOLEAN
         /\ t.edits = <<>> <=> Len(t.edits) = 0
         /\ Applied(t) \in 0 .. Len(t.edits) /\ Applied(t) \in Nat
         /\ t.edits = <<>> => Applied(t) = 0
         /\ t.edits # <<>> => Applied(t) = t.currentPos + 1
<1>1. t.doc \in Doc /\ t.edits \in Seq(Seq(Item)) /\ t.currentPos \in Int
      /\ t.groupRequested \in BOOLEAN /\ t.made \in BOOLEAN
  BY DEF IsTracker, Tracker
<1> DEFINE l == Len(t.edits)
<1>2. l \in Nat /\ (t.edits = <<>> <=> l = 0)
  BY <1>1, EmptySeq, LenProperties
<1>3. t.currentPos \in -1 .. l /\ (t.currentPos < l \/ t.edits = <<>>)
  BY DEF IsTracker
<1>4. Applied(t) = IF t.currentPos < l THEN t.currentPos + 1 ELSE l
  BY DEF Applied
<1> HIDE DEF l
<1>5. Applied(t) \in 0 .. l
  BY <1>1, <1>2, <1>3, <1>4
<1>6. t.edits = <<>> => Applied(t) = 0
  BY <1>2, <1>5
<1>7. t.edits # <<>> => Applied(t) = t.currentPos + 1
  BY <1>3, <1>4
<1>8. QED
  BY <1>1, <1>2, <1>5, <1>6, <1>7 DEF l

(* The next change joins the last group. *)
Joins(t, late) ==
  t.edits # <<>> /\ t.currentPos = Len(t.edits) - 1 /\ ~ t.groupRequested /\ ~ late

(* A step of its own after t, and one that is undone together with the last of t. *)
Starts(t, h, u, k) ==
  /\ Applied(u) = Applied(t) + 1 /\ Len(u.edits) = Applied(u)
  /\ \A i \in 0 .. Applied(t) : k[i] = h[i]

Extends(t, h, u, k) ==
  /\ Len(t.edits) = Applied(t) /\ Len(u.edits) = Applied(t) /\ Applied(u) = Applied(t) /\ Applied(t) > 0
  /\ \A i \in 0 .. Applied(t) - 1 : k[i] = h[i]

(* A change that does not join the last group is a step of its own, and the next one joins it. *)
LEMMA ChangeStarts ==
  ASSUME NEW b, NEW t, NEW h, IsTracker(b, t, h), NEW item \in Changes(t.doc),
         NEW late \in BOOLEAN, ~ Joins(t, late)
  PROVE  LET u == Change(t, item, late) IN
           \E k : IsTracker(b, u, k) /\ Starts(t, h, u, k) /\ Joins(u, FALSE)
<1> DEFINE x == Apply(t.doc, item)
<1> DEFINE v == [t EXCEPT !.doc = x, !.made = TRUE]
<1> DEFINE n == Applied(t)
<1> DEFINE e == Append(SubSeq(t.edits, 1, n), <<item>>)
<1> DEFINE u == [v EXCEPT !.edits = e, !.currentPos = Len(e) - 1, !.groupRequested = FALSE]
<1> DEFINE k == Branch(h, n, x)
<1>1. t \in Tracker /\ t.doc \in Doc /\ n \in 0 .. Len(t.edits) /\ n \in Nat /\ Len(t.edits) \in Nat
      /\ (t.edits = <<>> <=> Len(t.edits) = 0)
  BY TrackerFields DEF IsTracker
<1>2. Fits(t.doc, item) /\ x \in Doc
  BY <1>1, ChangeFits
<1>3. Leads(h[n], <<item>>, x)
  BY <1>1, <1>2, GroupOfOne DEF IsTracker
<1>4. item \in Item
  BY <1>2 DEF Fits
<1>5. <<item>> \in Seq(Item)
  BY <1>4
<1>6. IsHistory(b, t.edits, h)
  BY DEF IsTracker
<1>7. IsHistory(b, e, k) /\ Len(e) = n + 1 /\ e # <<>>
  BY <1>1, <1>3, <1>5, <1>6, HistoryBranched
<1>8. v \in Tracker /\ v.edits = t.edits /\ v.currentPos = t.currentPos
      /\ v.groupRequested = t.groupRequested /\ v.doc = x /\ v.made = TRUE
  BY <1>1, <1>2 DEF Tracker
<1>9. Change(t, item, late) = u
  <2>1. Change(t, item, late) = TrackChange(v, item, late)
    BY DEF Change
  <2>2. Len(v.edits) = 0 \/ v.currentPos # Len(v.edits) - 1 \/ v.groupRequested \/ late
    BY <1>1, <1>8 DEF Joins
  <2>3. TrackChange(v, item, late) = StartNewGroup(v, item)
    BY <2>2 DEF TrackChange
  <2>4. Applied(v) = n
    BY <1>8 DEF Applied
  <2> HIDE DEF v, n
  <2>5. StartNewGroup(v, item) = u
    BY <2>4, <1>8 DEF StartNewGroup
  <2>6. QED
    BY <2>1, <2>3, <2>5
<1>10. e \in Seq(Seq(Item))
  BY <1>7 DEF IsHistory
<1>11. k[n + 1] = x /\ \A i \in 0 .. n : k[i] = h[i]
  BY <1>1 DEF Branch
<1> HIDE DEF v, e, k, x
<1>12. u \in Tracker /\ u.edits = e /\ u.currentPos = n /\ ~ u.groupRequested /\ u.doc = x /\ u.made
  <2>1. Len(e) - 1 = n /\ n \in Int
    BY <1>1, <1>7
  <2>2. u = [v EXCEPT !.edits = e, !.currentPos = n, !.groupRequested = FALSE]
    BY <2>1
  <2> HIDE DEF u, n
  <2>3. QED
    BY <2>1, <2>2, <1>8, <1>10 DEF Tracker
<1> HIDE DEF u
<1>13. Applied(u) = n + 1
  BY <1>1, <1>7, <1>12 DEF Applied
<1> HIDE DEF n
<1>14. IsTracker(b, u, k)
  BY <1>1, <1>7, <1>11, <1>12, <1>13 DEF IsTracker
<1>15. Starts(t, h, u, k)
  BY <1>7, <1>11, <1>12, <1>13 DEF Starts, n
<1>16. Joins(u, FALSE)
  BY <1>1, <1>7, <1>12 DEF Joins
<1>17. QED
  BY <1>9, <1>14, <1>15, <1>16

(* A change that joins the last group extends the last step. *)
LEMMA ChangeExtends ==
  ASSUME NEW b, NEW t, NEW h, IsTracker(b, t, h), NEW item \in Changes(t.doc),
         NEW late \in BOOLEAN, Joins(t, late)
  PROVE  LET u == Change(t, item, late) IN
           \E k : IsTracker(b, u, k) /\ Extends(t, h, u, k) /\ Joins(u, FALSE)
<1> DEFINE x == Apply(t.doc, item)
<1> DEFINE v == [t EXCEPT !.doc = x, !.made = TRUE]
<1> DEFINE l == Len(t.edits)
<1> DEFINE g == AddToGroup(t.edits[l], item)
<1> DEFINE e == [t.edits EXCEPT ![l] = g]
<1> DEFINE u == [v EXCEPT !.edits = e]
<1> DEFINE k == [h EXCEPT ![l] = x]
<1>1. t \in Tracker /\ t.doc \in Doc /\ Len(t.edits) \in Nat \ {0} /\ t.edits # <<>>
  BY TrackerFields DEF IsTracker, Joins
<1>2. Applied(t) = l /\ t.currentPos = l - 1 /\ ~ t.groupRequested
  BY <1>1, TrackerFields DEF Joins
<1>3. Fits(t.doc, item) /\ x \in Doc
  BY <1>1, ChangeFits
<1>4. IsHistory(b, t.edits, h) /\ t.doc = h[l]
  BY <1>2 DEF IsTracker
<1>5. Leads(h[l - 1], t.edits[l], h[l])
  BY <1>1, <1>4, HistorySteps
<1>6. Leads(h[l - 1], g, x)
  BY <1>3, <1>4, <1>5, GroupOfMore
<1>7. g \in Seq(Item)
  BY <1>6 DEF Leads, Passage
<1>8. IsHistory(b, e, k) /\ Len(e) = l /\ e # <<>>
  <2>1. IsHistory(b, t.edits, h) /\ t.edits # <<>> /\ g \in Seq(Item) /\ Leads(h[Len(t.edits) - 1], g, x)
    BY <1>1, <1>4, <1>6, <1>7
  <2> HIDE DEF g, x
  <2>2. HasHistoryWith(b, t.edits, h, g, x)
    BY <2>1, HistoryExtended
  <2>3. QED
    BY <2>2 DEF HasHistoryWith
<1>9. e \in Seq(Seq(Item))
  BY <1>8 DEF IsHistory
<1>10. v \in Tracker /\ v.edits = t.edits /\ v.currentPos = t.currentPos
       /\ v.groupRequested = t.groupRequested /\ v.doc = x /\ v.made = TRUE
  BY <1>1, <1>3 DEF Tracker
<1>11. Change(t, item, late) = u
  <2>1. Change(t, item, late) = TrackChange(v, item, late)
    BY DEF Change
  <2>2. ~ (Len(v.edits) = 0 \/ v.currentPos # Len(v.edits) - 1 \/ v.groupRequested \/ late)
    BY <1>1, <1>10 DEF Joins
  <2>3. TrackChange(v, item, late)
          = [v EXCEPT !.edits[Len(v.edits)] = AddToGroup(v.edits[Len(v.edits)], item)]
    BY <2>2 DEF TrackChange
  <2>4. QED
    BY <2>1, <2>3, <1>10
<1>12. k[l] = x /\ \A i \in 0 .. l - 1 : k[i] = h[i]
  <2>1. h \in [0 .. l -> Doc]
    BY <1>4 DEF IsHistory
  <2>2. QED
    BY <2>1, <1>1
<1> HIDE DEF v, e, k, x, g
<1>13. u \in Tracker /\ u.edits = e /\ u.currentPos = l - 1 /\ ~ u.groupRequested /\ u.doc = x /\ u.made
  BY <1>2, <1>9, <1>10 DEF Tracker
<1> HIDE DEF u, l
<1>14. l \in Nat \ {0}
  BY <1>1 DEF l
<1>15. Applied(u) = l
  BY <1>8, <1>13, <1>14 DEF Applied
<1>16. IsTracker(b, u, k)
  BY <1>8, <1>12, <1>13, <1>14, <1>15 DEF IsTracker
<1>17. Extends(t, h, u, k)
  BY <1>2, <1>8, <1>12, <1>13, <1>14, <1>15 DEF Extends, l
<1>18. Joins(u, FALSE)
  BY <1>8, <1>13 DEF Joins
<1>19. QED
  BY <1>11, <1>16, <1>17, <1>18

(* An edit command is one step, or part of the last one. *)
LEMMA EditedStep ==
  ASSUME NEW b, NEW t, NEW h, IsTracker(b, t, h), NEW late \in BOOLEAN, NEW u \in Edited(t, late)
  PROVE  \E k : /\ IsTracker(b, u, k)
                /\ Joins(u, FALSE)
                /\ Starts(t, h, u, k) \/ (Extends(t, h, u, k) /\ Joins(t, late))
<1>1. ASSUME NEW c \in Changes(t.doc)
      PROVE  \E k : /\ IsTracker(b, Change(t, c, late), k)
                    /\ Joins(Change(t, c, late), FALSE)
                    /\ \/ Starts(t, h, Change(t, c, late), k)
                       \/ Extends(t, h, Change(t, c, late), k) /\ Joins(t, late)
  <2>1. CASE Joins(t, late)
    BY <2>1, ChangeExtends
  <2>2. CASE ~ Joins(t, late)
    BY <2>2, ChangeStarts
  <2>3. QED
    BY <2>1, <2>2
<1>2. CASE \E c \in Changes(t.doc) : u = Change(t, c, late)
  BY <1>1, <1>2
<1>3. CASE \E c \in Updates(t.doc) : LET w == Change(t, c, late) IN
             \E d \in Inserts(w.doc) \cup Deletes(w.doc) : u = Change(w, d, FALSE)
  <2>1. PICK c \in Updates(t.doc) :
          \E d \in Inserts(Change(t, c, late).doc) \cup Deletes(Change(t, c, late).doc) :
            u = Change(Change(t, c, late), d, FALSE)
    BY <1>3
  <2> DEFINE w == Change(t, c, late)
  <2>2. PICK d \in Changes(w.doc) : u = Change(w, d, FALSE)
    BY <2>1 DEF Changes
  <2>3. c \in Changes(t.doc)
    BY DEF Changes
  <2>4. PICK j : /\ IsTracker(b, w, j)
                 /\ Joins(w, FALSE)
                 /\ Starts(t, h, w, j) \/ (Extends(t, h, w, j) /\ Joins(t, late))
    BY <1>1, <2>3
  <2> HIDE DEF w
  <2>5. PICK k : IsTracker(b, u, k) /\ Extends(w, j, u, k) /\ Joins(u, FALSE)
    BY <2>2, <2>4, ChangeExtends
  <2>6. Applied(t) \in Nat
    BY TrackerFields
  <2>7. CASE Starts(t, h, w, j)
    <3>1. Starts(t, h, u, k)
      BY <2>5, <2>6, <2>7 DEF Starts, Extends
    <3>2. QED
      BY <3>1, <2>5
  <2>8. CASE Extends(t, h, w, j) /\ Joins(t, late)
    <3>1. Extends(t, h, u, k)
      BY <2>5, <2>6, <2>8 DEF Extends
    <3>2. QED
      BY <3>1, <2>5, <2>8
  <2>9. QED
    BY <2>4, <2>7, <2>8
<1>4. QED
  BY <1>2, <1>3 DEF Edited, Twice

LEMMA SplitStep ==
  ASSUME NEW b, NEW t, NEW h, IsTracker(b, t, h)
  PROVE  /\ IsTracker(b, Split(t), h)
         /\ Split(t).edits = t.edits /\ Applied(Split(t)) = Applied(t) /\ Split(t).groupRequested = TRUE
         /\ Split(t).doc = t.doc
<1> DEFINE u == Split(t)
<1>1. t \in Tracker
  BY DEF IsTracker
<1>2. u \in Tracker /\ u.edits = t.edits /\ u.groupRequested = TRUE /\ u.doc = t.doc
      /\ u.currentPos = t.currentPos /\ u.made
  BY <1>1 DEF Split, Tracker
<1> HIDE DEF u
<1>3. Applied(u) = Applied(t)
  BY <1>2 DEF Applied
<1>4. IsTracker(b, u, h)
  BY <1>2, <1>3 DEF IsTracker
<1>5. QED
  BY <1>2, <1>3, <1>4 DEF u

-----------------------------------------------------------------------------
(* The contents behind a tracker and before it, the way undo and redo walk them. *)

Behind(t, h) == [i \in 1 .. Applied(t) |-> h[i - 1]]
Ahead(t, h) == [i \in 1 .. Len(t.edits) - Applied(t) |-> h[Applied(t) + i]]

LEMMA FunctionIsSeq ==
  ASSUME NEW S, NEW n \in Nat, NEW f, f \in [1 .. n -> S]
  PROVE  f \in Seq(S) /\ Len(f) = n
<1>1. f \in Seq(S)
  BY IsASeq
<1>2. QED
  BY <1>1, LenProperties

LEMMA Walks ==
  ASSUME NEW b, NEW t, NEW h, IsTracker(b, t, h)
  PROVE  /\ Behind(t, h) \in Seq(Doc) /\ Len(Behind(t, h)) = Applied(t)
         /\ \A i \in 1 .. Applied(t) : Behind(t, h)[i] = h[i - 1]
         /\ Ahead(t, h) \in Seq(Doc) /\ Len(Ahead(t, h)) = Len(t.edits) - Applied(t)
         /\ \A i \in 1 .. Len(t.edits) - Applied(t) : Ahead(t, h)[i] = h[Applied(t) + i]
<1> DEFINE n == Applied(t)
<1> DEFINE l == Len(t.edits)
<1>1. n \in Nat /\ l \in Nat /\ n \leq l /\ l - n \in Nat
  BY TrackerFields
<1>2. \A i \in 0 .. l : h[i] \in Doc
  BY HistorySteps DEF IsTracker
<1> HIDE DEF n, l
<1>3. \A i \in 1 .. n : h[i - 1] \in Doc
  BY <1>1, <1>2
<1>4. \A i \in 1 .. l - n : h[n + i] \in Doc
  BY <1>1, <1>2
<1>5. Behind(t, h) \in [1 .. n -> Doc] /\ \A i \in 1 .. n : Behind(t, h)[i] = h[i - 1]
  BY <1>3 DEF Behind, n
<1>6. Ahead(t, h) \in [1 .. l - n -> Doc] /\ \A i \in 1 .. l - n : Ahead(t, h)[i] = h[n + i]
  BY <1>4 DEF Ahead, n, l
<1>7. QED
  BY <1>1, <1>5, <1>6, FunctionIsSeq DEF n, l

LEMMA EmptyWalk ==
  ASSUME NEW s \in Seq(Doc), Len(s) = 0
  PROVE  s = <<>>
BY EmptySeq

LEMMA AtDoc ==
  ASSUME NEW b, NEW t, NEW h, IsTracker(b, t, h)
  PROVE  t.doc \in Doc /\ t.doc = h[Applied(t)]
BY TrackerFields DEF IsTracker

LEMMA StartsWalk ==
  ASSUME NEW b, NEW t, NEW h, IsTracker(b, t, h), NEW u, NEW k, IsTracker(b, u, k), Starts(t, h, u, k)
  PROVE  Behind(u, k) = Append(Behind(t, h), t.doc) /\ Ahead(u, k) = <<>>
<1> DEFINE n == Applied(t)
<1> DEFINE p == Behind(t, h)
<1> DEFINE q == Behind(u, k)
<1> DEFINE r == Append(p, t.doc)
<1>1. n \in Nat /\ Applied(u) = n + 1 /\ Len(u.edits) = n + 1 /\ \A i \in 0 .. n : k[i] = h[i]
  BY TrackerFields DEF Starts
<1>2. p \in Seq(Doc) /\ Len(p) = n /\ \A i \in 1 .. n : p[i] = h[i - 1]
  BY Walks
<1>3. q \in Seq(Doc) /\ Len(q) = n + 1 /\ \A i \in 1 .. n + 1 : q[i] = k[i - 1]
  BY <1>1, Walks
<1>4. t.doc \in Doc /\ t.doc = h[n]
  BY AtDoc
<1> HIDE DEF p, q, n
<1>5. r \in Seq(Doc) /\ Len(r) = n + 1 /\ r[n + 1] = t.doc /\ \A i \in 1 .. n : r[i] = p[i]
  BY <1>2, <1>4, AppendProperties
<1> HIDE DEF r
<1>6. ASSUME NEW i \in 1 .. n + 1
      PROVE  q[i] = r[i]
  <2>1. q[i] = h[i - 1]
    <3>1. i - 1 \in 0 .. n
      BY <1>1
    <3>2. QED
      BY <3>1, <1>1, <1>3
  <2>2. CASE i = n + 1
    <3>1. i - 1 = n
      BY <1>1, <2>2
    <3>2. QED
      BY <3>1, <2>1, <2>2, <1>4, <1>5
  <2>3. CASE i # n + 1
    <3>1. i \in 1 .. n
      BY <1>1, <2>3
    <3>2. QED
      BY <3>1, <2>1, <1>2, <1>5
  <2>4. QED
    BY <2>2, <2>3
<1>7. q = r
  BY <1>3, <1>5, <1>6, SeqEqual
<1>8. Ahead(u, k) \in Seq(Doc) /\ Len(Ahead(u, k)) = 0
  BY <1>1, Walks
<1>9. QED
  BY <1>7, <1>8, EmptyWalk DEF q, r, p

LEMMA ExtendsWalk ==
  ASSUME NEW b, NEW t, NEW h, IsTracker(b, t, h), NEW u, NEW k, IsTracker(b, u, k), Extends(t, h, u, k)
  PROVE  Behind(u, k) = Behind(t, h) /\ Behind(t, h) # <<>> /\ Ahead(t, h) = <<>> /\ Ahead(u, k) = <<>>
<1> DEFINE n == Applied(t)
<1> DEFINE p == Behind(t, h)
<1> DEFINE q == Behind(u, k)
<1>1. n \in Nat /\ n > 0 /\ Applied(u) = n /\ Len(u.edits) = n /\ Len(t.edits) = n
      /\ \A i \in 0 .. n - 1 : k[i] = h[i]
  BY TrackerFields DEF Extends
<1>2. p \in Seq(Doc) /\ Len(p) = n /\ \A i \in 1 .. n : p[i] = h[i - 1]
  BY Walks
<1>3. q \in Seq(Doc) /\ Len(q) = n /\ \A i \in 1 .. n : q[i] = k[i - 1]
  <2>1. q \in Seq(Doc) /\ Len(q) = Applied(u) /\ \A i \in 1 .. Applied(u) : q[i] = k[i - 1]
    BY Walks
  <2> HIDE DEF q
  <2>2. QED
    BY <2>1, <1>1
<1>4. Ahead(t, h) \in Seq(Doc) /\ Len(Ahead(t, h)) = 0 /\ Ahead(u, k) \in Seq(Doc) /\ Len(Ahead(u, k)) = 0
  BY <1>1, Walks
<1> HIDE DEF p, q, n
<1>5. \A i \in 1 .. n : i - 1 \in 0 .. n - 1
  BY <1>1
<1>6. \A i \in 1 .. n : p[i] = q[i]
  BY <1>1, <1>2, <1>3, <1>5
<1>7. p = q
  BY <1>2, <1>3, <1>6, SeqEqual
<1>8. p # <<>>
  BY <1>1, <1>2, EmptySeq
<1>9. QED
  BY <1>4, <1>7, <1>8, EmptyWalk DEF p, q

(* One group back. *)
LEMMA UndoWalk ==
  ASSUME NEW b, NEW t, NEW h, IsTracker(b, t, h), t.edits # <<>>, t.currentPos >= 0
  PROVE  LET u == [t EXCEPT !.doc = RevertGroup(@, t.edits[t.currentPos + 1]), !.currentPos = @ - 1] IN
           /\ IsTracker(b, u, h)
           /\ Behind(t, h) # <<>>
           /\ u.doc = Last(Behind(t, h))
           /\ Behind(u, h) = Front(Behind(t, h))
           /\ Ahead(u, h) = <<t.doc>> \o Ahead(t, h)
           /\ u.groupRequested = t.groupRequested
<1> DEFINE n == Applied(t)
<1> DEFINE l == Len(t.edits)
<1> DEFINE x == RevertGroup(t.doc, t.edits[n])
<1> DEFINE u == [t EXCEPT !.doc = x, !.currentPos = n - 2]
<1>1. n \in Nat /\ l \in Nat /\ n \leq l /\ n = t.currentPos + 1 /\ n > 0 /\ n - 2 = t.currentPos - 1
  BY TrackerFields
<1>2. IsHistory(b, t.edits, h) /\ t.doc = h[n] /\ t \in Tracker
  BY DEF IsTracker
<1>3. Leads(h[n - 1], t.edits[n], h[n])
  BY <1>1, <1>2, HistorySteps
<1>4. x = h[n - 1] /\ x \in Doc
  BY <1>2, <1>3, GroupReverted, LeadsToDoc
<1>5. [t EXCEPT !.doc = RevertGroup(@, t.edits[t.currentPos + 1]), !.currentPos = @ - 1] = u
  BY <1>1
<1>6. u \in Tracker /\ u.doc = x /\ u.currentPos = n - 2 /\ u.edits = t.edits
      /\ u.groupRequested = t.groupRequested /\ u.made = t.made
  <2>1. n - 2 \in Int
    BY <1>1
  <2> HIDE DEF x, n
  <2>2. QED
    BY <2>1, <1>2, <1>4 DEF Tracker
<1> HIDE DEF u, x
<1>7. Applied(u) = n - 1
  BY <1>1, <1>6 DEF Applied
<1>8. IsTracker(b, u, h)
  <2>1. u.currentPos \in -1 .. Len(u.edits) /\ u.currentPos < Len(u.edits)
    BY <1>1, <1>6
  <2>2. u.edits # <<>> \/ u.groupRequested => u.made
    BY <1>6 DEF IsTracker
  <2>3. IsHistory(b, u.edits, h)
    BY <1>2, <1>6
  <2>4. u.doc = h[Applied(u)]
    BY <1>4, <1>6, <1>7
  <2>5. QED
    BY <2>1, <2>2, <2>3, <2>4, <1>6 DEF IsTracker
<1> DEFINE p == Behind(t, h)
<1> DEFINE q == Behind(u, h)
<1> DEFINE f == Front(p)
<1> DEFINE v == Ahead(t, h)
<1> DEFINE w == Ahead(u, h)
<1> DEFINE d == <<t.doc>>
<1> DEFINE c == d \o v
<1>9. p \in Seq(Doc) /\ Len(p) = n /\ \A i \in 1 .. n : p[i] = h[i - 1]
  BY Walks
<1>10. q \in Seq(Doc) /\ Len(q) = n - 1 /\ \A i \in 1 .. n - 1 : q[i] = h[i - 1]
  BY <1>7, <1>8, Walks
<1>11. v \in Seq(Doc) /\ Len(v) = l - n /\ \A i \in 1 .. l - n : v[i] = h[n + i]
  BY Walks
<1>12. w \in Seq(Doc) /\ Len(w) = l - (n - 1) /\ \A i \in 1 .. l - (n - 1) : w[i] = h[n - 1 + i]
  BY <1>6, <1>7, <1>8, Walks
<1>13. t.doc \in Doc
  BY AtDoc
<1> HIDE DEF p, q, v, w, l, n
<1>14. p # <<>>
  BY <1>1, <1>9, EmptySeq
<1>15. Last(p) = u.doc
  BY <1>1, <1>4, <1>6, <1>9 DEF Last
<1>16. f = q
  <2>1. \A i \in 1 .. n - 1 : p[i] \in Doc
    BY <1>1, <1>9, ElementOfSeq
  <2>2. f \in Seq(Doc) /\ Len(f) = n - 1 /\ \A i \in 1 .. n - 1 : f[i] = p[i]
    <3>1. n - 1 \in 0 .. Len(p)
      BY <1>1, <1>9
    <3>2. f = SubSeq(p, 1, n - 1)
      BY <1>9 DEF Front
    <3> HIDE DEF f
    <3>3. QED
      BY <3>1, <3>2, <1>9, FirstGroups
  <2> HIDE DEF f
  <2>3. \A i \in 1 .. n - 1 : i \in 1 .. n
    BY <1>1
  <2>4. \A i \in 1 .. n - 1 : f[i] = q[i]
    BY <2>2, <2>3, <1>9, <1>10
  <2>5. QED
    BY <2>2, <2>4, <1>10, SeqEqual
<1>17. c = w
  <2>1. d \in Seq(Doc) /\ Len(d) = 1 /\ d[1] = t.doc
    BY <1>13
  <2> HIDE DEF d
  <2>2. c \in Seq(Doc) /\ Len(c) = Len(d) + Len(v)
        /\ \A i \in 1 .. Len(d) + Len(v) : c[i] = IF i \leq Len(d) THEN d[i] ELSE v[i - Len(d)]
    BY <2>1, <1>11, ConcatProperties
  <2> HIDE DEF c
  <2>3. Len(c) = l - (n - 1) /\ Len(c) = 1 + (l - n)
    BY <2>1, <2>2, <1>1, <1>11
  <2>4. ASSUME NEW i \in 1 .. l - (n - 1)
        PROVE  c[i] = w[i]
    <3>1. i \in 1 .. Len(d) + Len(v)
      BY <2>1, <1>1, <1>11
    <3>2. CASE i = 1
      <4>1. c[i] = d[1] /\ n - 1 + i = n
        BY <3>1, <3>2, <2>1, <2>2, <1>1
      <4>2. QED
        BY <4>1, <2>1, <1>2, <1>12 DEF n
    <3>3. CASE i # 1
      <4> DEFINE j == i - 1
      <4>1. j \in 1 .. l - n /\ n - 1 + i = n + j /\ ~ (i \leq 1)
        BY <3>3, <1>1
      <4>2. c[i] = v[j]
        BY <4>1, <3>1, <2>1, <2>2
      <4> HIDE DEF j
      <4>3. QED
        BY <4>1, <4>2, <1>11, <1>12
    <3>4. QED
      BY <3>2, <3>3
  <2>5. QED
    BY <2>2, <2>3, <2>4, <1>12, SeqEqual
<1>18. QED
  BY <1>5, <1>6, <1>8, <1>14, <1>15, <1>16, <1>17 DEF p, q, v, w, f, c, d

(* One group forward. *)
LEMMA RedoWalk ==
  ASSUME NEW b, NEW t, NEW h, IsTracker(b, t, h), t.currentPos < Len(t.edits) - 1
  PROVE  LET u == [t EXCEPT !.doc = ApplyGroup(@, t.edits[t.currentPos + 2]), !.currentPos = @ + 1] IN
           /\ IsTracker(b, u, h)
           /\ Ahead(t, h) # <<>>
           /\ u.doc = Head(Ahead(t, h))
           /\ Behind(u, h) = Append(Behind(t, h), t.doc)
           /\ Ahead(u, h) = Tail(Ahead(t, h))
           /\ u.groupRequested = t.groupRequested
<1> DEFINE n == Applied(t)
<1> DEFINE l == Len(t.edits)
<1> DEFINE x == ApplyGroup(t.doc, t.edits[n + 1])
<1> DEFINE u == [t EXCEPT !.doc = x, !.currentPos = n]
<1>1. n \in Nat /\ l \in Nat /\ n + 1 \leq l /\ n = t.currentPos + 1
  <2>1. t.currentPos \in -1 .. Len(t.edits)
    BY DEF IsTracker
  <2>2. t.edits # <<>>
    BY <2>1, TrackerFields
  <2>3. QED
    BY <2>2, TrackerFields
<1>2. IsHistory(b, t.edits, h) /\ t.doc = h[n] /\ t \in Tracker
  BY DEF IsTracker
<1>3. Leads(h[n], t.edits[n + 1], h[n + 1])
  <2> DEFINE j == n + 1
  <2>1. j \in 1 .. l /\ j - 1 = n
    BY <1>1
  <2> HIDE DEF j
  <2>2. Leads(h[j - 1], t.edits[j], h[j])
    BY <2>1, <1>2, HistorySteps
  <2>3. QED
    BY <2>1, <2>2 DEF j
<1>4. x = h[n + 1] /\ x \in Doc
  BY <1>2, <1>3, GroupApplied, LeadsToDoc
<1>5. [t EXCEPT !.doc = ApplyGroup(@, t.edits[t.currentPos + 2]), !.currentPos = @ + 1] = u
  <2>1. t.currentPos + 2 = n + 1 /\ t.currentPos + 1 = n
    BY <1>1, TrackerFields
  <2>2. QED
    BY <2>1
<1>6. u \in Tracker /\ u.doc = x /\ u.currentPos = n /\ u.edits = t.edits
      /\ u.groupRequested = t.groupRequested /\ u.made = t.made
  <2>1. n \in Int
    BY <1>1
  <2> HIDE DEF x, n
  <2>2. QED
    BY <2>1, <1>2, <1>4 DEF Tracker
<1> HIDE DEF u, x
<1>7. Applied(u) = n + 1
  BY <1>1, <1>6 DEF Applied
<1>8. IsTracker(b, u, h)
  <2>1. u.currentPos \in -1 .. Len(u.edits) /\ u.currentPos < Len(u.edits)
    BY <1>1, <1>6
  <2>2. u.edits # <<>> \/ u.groupRequested => u.made
    BY <1>6 DEF IsTracker
  <2>3. IsHistory(b, u.edits, h)
    BY <1>2, <1>6
  <2>4. u.doc = h[Applied(u)]
    BY <1>4, <1>6, <1>7
  <2>5. QED
    BY <2>1, <2>2, <2>3, <2>4, <1>6 DEF IsTracker
<1> DEFINE p == Behind(t, h)
<1> DEFINE q == Behind(u, h)
<1> DEFINE r == Append(p, t.doc)
<1> DEFINE v == Ahead(t, h)
<1> DEFINE w == Ahead(u, h)
<1>9. p \in Seq(Doc) /\ Len(p) = n /\ \A i \in 1 .. n : p[i] = h[i - 1]
  BY Walks
<1>10. q \in Seq(Doc) /\ Len(q) = n + 1 /\ \A i \in 1 .. n + 1 : q[i] = h[i - 1]
  BY <1>7, <1>8, Walks
<1>11. v \in Seq(Doc) /\ Len(v) = l - n /\ \A i \in 1 .. l - n : v[i] = h[n + i]
  BY Walks
<1>12. w \in Seq(Doc) /\ Len(w) = l - (n + 1) /\ \A i \in 1 .. l - (n + 1) : w[i] = h[n + 1 + i]
  BY <1>6, <1>7, <1>8, Walks
<1>13. t.doc \in Doc
  BY AtDoc
<1> HIDE DEF p, q, v, w, l, n
<1>14. v # <<>>
  BY <1>1, <1>11, EmptySeq
<1>15. Head(v) = u.doc
  <2>1. Head(v) = v[1] /\ 1 \in 1 .. l - n
    BY <1>1, <1>14
  <2>2. QED
    BY <2>1, <1>4, <1>6, <1>11
<1>16. r = q
  <2>1. r \in Seq(Doc) /\ Len(r) = n + 1 /\ r[n + 1] = t.doc /\ \A i \in 1 .. n : r[i] = p[i]
    BY <1>9, <1>13, AppendProperties
  <2> HIDE DEF r
  <2>2. ASSUME NEW i \in 1 .. n + 1
        PROVE  r[i] = q[i]
    <3>1. CASE i = n + 1
      <4>1. i - 1 = n
        BY <3>1, <1>1
      <4>2. QED
        BY <4>1, <3>1, <2>1, <1>2, <1>10 DEF n
    <3>2. CASE i # n + 1
      <4>1. i \in 1 .. n
        BY <3>2, <1>1
      <4>2. QED
        BY <4>1, <2>1, <1>9, <1>10
    <3>3. QED
      BY <3>1, <3>2
  <2>3. QED
    BY <2>1, <2>2, <1>10, SeqEqual
<1>17. Tail(v) = w
  <2> DEFINE z == Tail(v)
  <2>1. z \in Seq(Doc) /\ Len(z) = Len(v) - 1 /\ \A i \in 1 .. Len(z) : z[i] = v[i + 1]
    BY <1>11, <1>14, HeadTailProperties
  <2> HIDE DEF z
  <2>2. Len(z) = l - (n + 1)
    BY <2>1, <1>1, <1>11
  <2>3. ASSUME NEW i \in 1 .. l - (n + 1)
        PROVE  z[i] = w[i]
    <3> DEFINE j == i + 1
    <3>1. j \in 1 .. l - n /\ n + 1 + i = n + j
      BY <1>1
    <3>2. z[i] = v[j]
      BY <2>1, <2>2
    <3> HIDE DEF j
    <3>3. QED
      BY <3>1, <3>2, <1>11, <1>12
  <2>4. z = w
    BY <2>1, <2>2, <2>3, <1>12, SeqEqual
  <2>5. QED
    BY <2>4 DEF z
<1>18. QED
  BY <1>5, <1>6, <1>8, <1>14, <1>15, <1>16, <1>17 DEF p, q, v, w, r

-----------------------------------------------------------------------------
(* The specification. *)

(* What the steps of UndoStack are mapped from. *)
Past == [i \in 1 .. Applied(tracker) |-> Replay(i - 1)]
Future == [i \in 1 .. Len(tracker.edits) - Applied(tracker) |-> Replay(Applied(tracker) + i)]

ReplaysHistory ==
  \A h : IsTracker(base, tracker, h) =>
    /\ tracker.doc = Replay(Applied(tracker))
    /\ Past = Behind(tracker, h)
    /\ Future = Ahead(tracker, h)

(* The replayed contents are the ones of the history. *)
LEMMA Replayed == ReplaysHistory
<1> SUFFICES ASSUME NEW CONSTANT h, IsTracker(base, tracker, h)
             PROVE  /\ tracker.doc = Replay(Applied(tracker))
                    /\ Past = Behind(tracker, h)
                    /\ Future = Ahead(tracker, h)
  BY DEF ReplaysHistory
<1> DEFINE n == Applied(tracker)
<1> DEFINE l == Len(tracker.edits)
<1>1. n \in Nat /\ l \in Nat /\ n \leq l
  BY TrackerFields
<1>2. \A i \in 0 .. l : Replay(i) = h[i]
  BY HistoryReplayed DEF Replay, IsTracker
<1>3. tracker.doc = h[n]
  BY DEF IsTracker
<1>4. Past = [i \in 1 .. n |-> Replay(i - 1)] /\ Behind(tracker, h) = [i \in 1 .. n |-> h[i - 1]]
  BY DEF Past, Behind
<1>5. Future = [i \in 1 .. l - n |-> Replay(n + i)] /\ Ahead(tracker, h) = [i \in 1 .. l - n |-> h[n + i]]
  BY DEF Future, Ahead
<1> HIDE DEF n, l
<1>6. \A i \in 1 .. n : Replay(i - 1) = h[i - 1]
  BY <1>1, <1>2
<1>7. \A i \in 1 .. l - n : Replay(n + i) = h[n + i]
  BY <1>1, <1>2
<1>8. tracker.doc = Replay(n)
  BY <1>1, <1>2, <1>3
<1>9. QED
  BY <1>4, <1>5, <1>6, <1>7, <1>8 DEF n

LEMMA FreshTracker ==
  ASSUME NEW d \in Doc
  PROVE  LET t == Fresh(d, FALSE) IN
           \E h : /\ IsTracker(d, t, h) /\ Behind(t, h) = <<>> /\ Ahead(t, h) = <<>>
                  /\ t.doc = d /\ t.groupRequested = FALSE
<1> DEFINE t == Fresh(d, FALSE)
<1> DEFINE h == [i \in 0 .. 0 |-> d]
<1>1. <<>> \in Seq(Seq(Item)) /\ Len(<<>>) = 0
  BY EmptySeq
<1>2. t \in Tracker /\ t.doc = d /\ t.edits = <<>> /\ t.currentPos = 0 /\ t.groupRequested = FALSE
  BY <1>1 DEF Fresh, Tracker
<1>3. h \in [0 .. 0 -> Doc] /\ h[0] = d
  OBVIOUS
<1> HIDE DEF t, h
<1>4. Applied(t) = 0
  BY <1>1, <1>2 DEF Applied
<1>5. IsHistory(d, t.edits, h)
  <2>1. 1 .. 0 = {}
    OBVIOUS
  <2>2. QED
    BY <1>1, <1>2, <1>3, <2>1 DEF IsHistory
<1>6. IsTracker(d, t, h)
  <2>1. t.currentPos \in -1 .. Len(t.edits)
    BY <1>1, <1>2
  <2>2. QED
    BY <2>1, <1>2, <1>3, <1>4, <1>5 DEF IsTracker
<1>7. Behind(t, h) \in Seq(Doc) /\ Len(Behind(t, h)) = 0 /\ Ahead(t, h) \in Seq(Doc) /\ Len(Ahead(t, h)) = 0
  BY <1>1, <1>2, <1>4, <1>6, Walks
<1>8. Behind(t, h) = <<>> /\ Ahead(t, h) = <<>>
  BY <1>7, EmptyWalk
<1>9. QED
  BY <1>2, <1>6, <1>8 DEF t

LEMMA InitInv == Init => IInv /\ Steps!Init
<1> SUFFICES ASSUME Init
             PROVE  IInv /\ Steps!Init
  OBVIOUS
<1>1. base \in Doc /\ tracker = Fresh(base, FALSE)
  BY LoadedAssumption DEF Init
<1>2. PICK h : /\ IsTracker(base, tracker, h) /\ Behind(tracker, h) = <<>> /\ Ahead(tracker, h) = <<>>
               /\ tracker.doc = base /\ tracker.groupRequested = FALSE
  BY <1>1, FreshTracker
<1>3. Past = <<>> /\ Future = <<>>
  BY <1>2, Replayed DEF ReplaysHistory
<1>4. Steps!Init
  BY <1>1, <1>2, <1>3 DEF Steps!Init, Past, Future
<1>5. QED
  BY <1>1, <1>2, <1>4 DEF IInv

(* One step of the buffer, as the tracker and its history make it. *)
Walked(t, h, u, k) ==
  \/ Starts(t, h, u, k)
  \/ Extends(t, h, u, k) /\ ~ t.groupRequested /\ ~ u.groupRequested

LEMMA EditWalk ==
  ASSUME NEW b, NEW t, NEW h, IsTracker(b, t, h), NEW late \in BOOLEAN, NEW u \in Edited(t, late)
  PROVE  \E k : IsTracker(b, u, k) /\ Walked(t, h, u, k)
<1>1. PICK k : /\ IsTracker(b, u, k)
               /\ Joins(u, FALSE)
               /\ Starts(t, h, u, k) \/ (Extends(t, h, u, k) /\ Joins(t, late))
  BY EditedStep
<1>2. Walked(t, h, u, k)
  BY <1>1 DEF Walked, Joins
<1>3. QED
  BY <1>1, <1>2

(* A group is a step of its own. *)
LEMMA GroupedWalk ==
  ASSUME NEW b, NEW t, NEW h, IsTracker(b, t, h), NEW u \in Grouped(t)
  PROVE  \E k : IsTracker(b, u, k) /\ Walked(t, h, u, k)
<1> DEFINE s == Split(t)
<1>1. PICK w \in Edited(s, FALSE) : u = Split(w)
  BY DEF Grouped
<1>2. IsTracker(b, s, h) /\ Applied(s) = Applied(t) /\ s.groupRequested = TRUE
  BY SplitStep
<1> HIDE DEF s
<1>3. PICK k : IsTracker(b, w, k) /\ (Starts(s, h, w, k) \/ (Extends(s, h, w, k) /\ Joins(s, FALSE)))
  BY <1>1, <1>2, EditedStep
<1>4. Starts(s, h, w, k)
  BY <1>2, <1>3 DEF Joins
<1>5. IsTracker(b, u, k) /\ u.edits = w.edits /\ Applied(u) = Applied(w)
  BY <1>1, <1>3, SplitStep
<1>6. Starts(t, h, u, k)
  BY <1>2, <1>4, <1>5 DEF Starts
<1>7. QED
  BY <1>5, <1>6 DEF Walked

LEMMA Mapped ==
  ASSUME NEW CONSTANT h, IsTracker(base, tracker, h),
         NEW CONSTANT k, IsTracker(base', tracker', k)
  PROVE  /\ Past = Behind(tracker, h) /\ Future = Ahead(tracker, h)
         /\ Past' = Behind(tracker', k) /\ Future' = Ahead(tracker', k)
<1>1. ReplaysHistory'
  BY Replayed, PTL
<1>2. QED
  BY <1>1, Replayed DEF ReplaysHistory

(* A command with nothing to undo or redo. *)
LEMMA NothingStep ==
  ASSUME NEW CONSTANT h, IsTracker(base, tracker, h), NothingDone, base' = base
  PROVE  IsTracker(base', tracker', h) /\ UNCHANGED Steps!vars
<1>1. tracker \in Tracker /\ tracker' = [tracker EXCEPT !.made = TRUE]
  BY DEF IsTracker, NothingDone
<1>2. /\ tracker' \in Tracker /\ tracker'.doc = tracker.doc /\ tracker'.edits = tracker.edits /\ tracker'.made
      /\ tracker'.currentPos = tracker.currentPos /\ tracker'.groupRequested = tracker.groupRequested
  BY <1>1 DEF Tracker
<1>3. Applied(tracker') = Applied(tracker)
  BY <1>2 DEF Applied
<1>4. IsTracker(base', tracker', h)
  BY <1>2, <1>3 DEF IsTracker
<1>5. Behind(tracker', h) = Behind(tracker, h) /\ Ahead(tracker', h) = Ahead(tracker, h)
  BY <1>2, <1>3 DEF Behind, Ahead
<1>6. Past' = Past /\ Future' = Future
  BY <1>4, <1>5, Mapped
<1>7. QED
  BY <1>2, <1>4, <1>6 DEF Steps!vars, Past, Future

LEMMA WalkedStep ==
  ASSUME NEW CONSTANT h, IsTracker(base, tracker, h),
         NEW CONSTANT k, IsTracker(base', tracker', k), Walked(tracker, h, tracker', k), base' = base
  PROVE  Steps!Next
<1>1. Past = Behind(tracker, h) /\ Future = Ahead(tracker, h)
  BY Mapped
<1>2. Past' = Behind(tracker', k) /\ Future' = Ahead(tracker', k)
  BY Mapped
<1>3. IsTracker(base, tracker', k)
  OBVIOUS
<1>4. tracker.doc \in Doc /\ tracker'.doc \in Doc /\ tracker'.groupRequested \in BOOLEAN
      /\ tracker.groupRequested \in BOOLEAN
  BY <1>3, TrackerFields
<1>5. CASE Starts(tracker, h, tracker', k)
  <2>1. Behind(tracker', k) = Append(Behind(tracker, h), tracker.doc) /\ Ahead(tracker', k) = <<>>
    BY <1>3, <1>5, StartsWalk
  <2>2. Past' = Append(Past, tracker.doc) /\ Future' = <<>>
    BY <2>1, <1>1, <1>2
  <2>3. Steps!NewStep
    BY <2>2, <1>4 DEF Steps!NewStep, Past, Future
  <2>4. QED
    BY <2>3 DEF Steps!Next
<1>6. CASE Extends(tracker, h, tracker', k) /\ ~ tracker.groupRequested /\ ~ tracker'.groupRequested
  <2>1. Behind(tracker', k) = Behind(tracker, h) /\ Behind(tracker, h) # <<>>
        /\ Ahead(tracker, h) = <<>> /\ Ahead(tracker', k) = <<>>
    BY <1>3, <1>6, ExtendsWalk
  <2>2. Past' = Past /\ Past # <<>> /\ Future = <<>> /\ Future' = Future
    BY <2>1, <1>1, <1>2
  <2>3. tracker'.groupRequested = tracker.groupRequested
    BY <1>4, <1>6
  <2>4. Steps!ExtendStep
    BY <2>2, <2>3, <1>4, <1>6 DEF Steps!ExtendStep, Past, Future
  <2>5. QED
    BY <2>4 DEF Steps!Next
<1>7. QED
  BY <1>5, <1>6 DEF Walked

LEMMA UndoStep == IInv /\ Undo => IInv' /\ [Steps!Next]_(Steps!vars)
<1> SUFFICES ASSUME IInv, Undo
             PROVE  IInv' /\ [Steps!Next]_(Steps!vars)
  OBVIOUS
<1>1. PICK h : IsTracker(base, tracker, h)
  BY DEF IInv
<1>2. base \in Doc /\ base' = base
  BY DEF IInv, Undo
<1>3. CASE HasUndo
  <2>1. tracker.edits # <<>> /\ tracker.currentPos >= 0
    BY <1>3 DEF HasUndo
  <2>2. tracker' = [tracker EXCEPT !.doc = RevertGroup(@, tracker.edits[tracker.currentPos + 1]),
                                   !.currentPos = @ - 1]
    BY <1>3 DEF Undo
  <2>3. /\ IsTracker(base, tracker', h)
        /\ Behind(tracker, h) # <<>>
        /\ tracker'.doc = Last(Behind(tracker, h))
        /\ Behind(tracker', h) = Front(Behind(tracker, h))
        /\ Ahead(tracker', h) = <<tracker.doc>> \o Ahead(tracker, h)
        /\ tracker'.groupRequested = tracker.groupRequested
    BY <1>1, <2>1, <2>2, UndoWalk
  <2>4. /\ Past = Behind(tracker, h) /\ Future = Ahead(tracker, h)
        /\ Past' = Behind(tracker', h) /\ Future' = Ahead(tracker', h)
    BY <1>1, <1>2, <2>3, Mapped
  <2>5. Steps!Undo
    <3>1. /\ Past # <<>> /\ tracker'.doc = Last(Past) /\ Past' = Front(Past)
          /\ Future' = <<tracker.doc>> \o Future /\ tracker'.groupRequested = tracker.groupRequested
      BY <2>3, <2>4
    <3>2. QED
      BY <3>1 DEF Steps!Undo, Steps!Last, Steps!Front, Last, Front, Past, Future
  <2>6. QED
    BY <1>2, <2>3, <2>5 DEF IInv, Steps!Next
<1>4. CASE ~ HasUndo
  BY <1>1, <1>2, <1>4, NothingStep DEF Undo, IInv
<1>5. QED
  BY <1>3, <1>4

LEMMA RedoStep == IInv /\ Redo => IInv' /\ [Steps!Next]_(Steps!vars)
<1> SUFFICES ASSUME IInv, Redo
             PROVE  IInv' /\ [Steps!Next]_(Steps!vars)
  OBVIOUS
<1>1. PICK h : IsTracker(base, tracker, h)
  BY DEF IInv
<1>2. base \in Doc /\ base' = base
  BY DEF IInv, Redo
<1>3. CASE HasRedo
  <2>1. tracker.currentPos < Len(tracker.edits) - 1
    BY <1>3 DEF HasRedo
  <2>2. tracker' = [tracker EXCEPT !.doc = ApplyGroup(@, tracker.edits[tracker.currentPos + 2]),
                                   !.currentPos = @ + 1]
    BY <1>3 DEF Redo
  <2>3. /\ IsTracker(base, tracker', h)
        /\ Ahead(tracker, h) # <<>>
        /\ tracker'.doc = Head(Ahead(tracker, h))
        /\ Behind(tracker', h) = Append(Behind(tracker, h), tracker.doc)
        /\ Ahead(tracker', h) = Tail(Ahead(tracker, h))
        /\ tracker'.groupRequested = tracker.groupRequested
    BY <1>1, <2>1, <2>2, RedoWalk
  <2>4. /\ Past = Behind(tracker, h) /\ Future = Ahead(tracker, h)
        /\ Past' = Behind(tracker', h) /\ Future' = Ahead(tracker', h)
    BY <1>1, <1>2, <2>3, Mapped
  <2>5. Steps!Redo
    BY <2>3, <2>4 DEF Steps!Redo, Past, Future
  <2>6. QED
    BY <1>2, <2>3, <2>5 DEF IInv, Steps!Next
<1>4. CASE ~ HasRedo
  BY <1>1, <1>2, <1>4, NothingStep DEF Redo, IInv
<1>5. QED
  BY <1>3, <1>4

LEMMA SetModeStep == IInv /\ SetMode => IInv' /\ [Steps!Next]_(Steps!vars)
<1> SUFFICES ASSUME IInv, SetMode
             PROVE  IInv' /\ [Steps!Next]_(Steps!vars)
  OBVIOUS
<1>1. PICK h : IsTracker(base, tracker, h)
  BY DEF IInv
<1>2. base \in Doc /\ base' = base /\ tracker' = Split(tracker)
  BY DEF IInv, SetMode
<1>3. /\ IsTracker(base, tracker', h) /\ tracker'.edits = tracker.edits
      /\ Applied(tracker') = Applied(tracker) /\ tracker'.groupRequested = TRUE /\ tracker'.doc = tracker.doc
  BY <1>1, <1>2, SplitStep
<1>4. Behind(tracker', h) = Behind(tracker, h) /\ Ahead(tracker', h) = Ahead(tracker, h)
  BY <1>3 DEF Behind, Ahead
<1>5. /\ Past = Behind(tracker, h) /\ Future = Ahead(tracker, h)
      /\ Past' = Behind(tracker', h) /\ Future' = Ahead(tracker', h)
  BY <1>1, <1>2, <1>3, Mapped
<1>6. Steps!Seal
  BY <1>3, <1>4, <1>5 DEF Steps!Seal, Past, Future
<1>7. QED
  BY <1>2, <1>3, <1>6 DEF IInv, Steps!Next

LEMMA ReplaceStep == IInv /\ ReplaceContent => IInv' /\ [Steps!Next]_(Steps!vars)
<1> SUFFICES ASSUME IInv, ReplaceContent
             PROVE  IInv' /\ [Steps!Next]_(Steps!vars)
  OBVIOUS
<1>1. base' \in Doc /\ tracker' = Fresh(base', FALSE)
  BY LoadedAssumption DEF ReplaceContent
<1>2. PICK k : /\ IsTracker(base', tracker', k) /\ Behind(tracker', k) = <<>> /\ Ahead(tracker', k) = <<>>
               /\ tracker'.doc = base' /\ tracker'.groupRequested = FALSE
  BY <1>1, FreshTracker
<1>3. Past' = <<>> /\ Future' = <<>>
  <2>1. ReplaysHistory'
    BY Replayed, PTL
  <2>2. QED
    BY <1>2, <2>1 DEF ReplaysHistory
<1>4. Steps!Reload
  BY <1>1, <1>2, <1>3 DEF Steps!Reload, Past, Future
<1>5. QED
  BY <1>1, <1>2, <1>4 DEF IInv, Steps!Next

LEMMA EditStep == IInv /\ (Edit \/ EditAsGroup) => IInv' /\ [Steps!Next]_(Steps!vars)
<1> SUFFICES ASSUME IInv, Edit \/ EditAsGroup
             PROVE  IInv' /\ [Steps!Next]_(Steps!vars)
  OBVIOUS
<1>1. PICK h : IsTracker(base, tracker, h)
  BY DEF IInv
<1>2. base \in Doc /\ base' = base
  BY DEF IInv, Edit, EditAsGroup
<1>3. \E k : IsTracker(base, tracker', k) /\ Walked(tracker, h, tracker', k)
  <2>1. CASE Edit
    BY <1>1, <2>1, EditWalk DEF Edit
  <2>2. CASE EditAsGroup
    BY <1>1, <2>2, GroupedWalk DEF EditAsGroup
  <2>3. QED
    BY <2>1, <2>2
<1>4. PICK k : IsTracker(base, tracker', k) /\ Walked(tracker, h, tracker', k)
  BY <1>3
<1>5. Steps!Next
  BY <1>1, <1>2, <1>4, WalkedStep
<1>6. QED
  BY <1>2, <1>4, <1>5 DEF IInv

LEMMA NextStep == IInv /\ [Next]_vars => IInv' /\ [Steps!Next]_(Steps!vars)
<1> SUFFICES ASSUME IInv, [Next]_vars
             PROVE  IInv' /\ [Steps!Next]_(Steps!vars)
  OBVIOUS
<1>1. CASE Edit \/ EditAsGroup
  BY <1>1, EditStep
<1>2. CASE SetMode
  BY <1>2, SetModeStep
<1>3. CASE Undo
  BY <1>3, UndoStep
<1>4. CASE Redo
  BY <1>4, RedoStep
<1>5. CASE ReplaceContent
  BY <1>5, ReplaceStep
<1>6. CASE UNCHANGED vars
  BY <1>6 DEF vars, IInv, Steps!vars, Replay
<1>7. QED
  BY <1>1, <1>2, <1>3, <1>4, <1>5, <1>6 DEF Next

(* The tracker always has a history: a list of groups, each of which fits the content before it,  *)
(* whose contents are the ones undo and redo walk.                                                *)
THEOREM Invariance == Spec => []IInv
<1>1. Init => IInv
  BY InitInv
<1>2. IInv /\ [Next]_vars => IInv'
  BY NextStep
<1>3. QED
  BY <1>1, <1>2, PTL DEF Spec

(* The content is the base of the list of changes with the groups that are not undone applied to  *)
(* it (list.go), however the changes were merged, split, undone and redone.                       *)
THEOREM TypeCorrectness == Spec => []TypeOK
<1>1. IInv => TypeOK
  <2> SUFFICES ASSUME IInv
               PROVE  TypeOK
    OBVIOUS
  <2>1. PICK h : IsTracker(base, tracker, h)
    BY DEF IInv
  <2>2. tracker.doc = Replay(Applied(tracker))
    BY <2>1, Replayed DEF ReplaysHistory
  <2>3. tracker \in Tracker
    BY <2>1 DEF IsTracker
  <2>4. QED
    BY <2>1, <2>2, <2>3 DEF TypeOK, IInv, IsTracker, Tracker
<1>2. QED
  BY <1>1, Invariance, PTL

(* Undo and redo walk the contents the buffer has had, one step at a time: the tracker implements *)
(* UndoStack (list.go, buffer.go).                                                                *)
THEOREM TrackerImplementsUndoStack == Spec => UndoesSteps
<1>1. Init => Steps!Init
  BY InitInv
<1>2. IInv /\ [Next]_vars => [Steps!Next]_(Steps!vars)
  BY NextStep
<1>3. QED
  BY <1>1, <1>2, Invariance, PTL DEF Spec, UndoesSteps, Steps!Spec

-----------------------------------------------------------------------------
(* The navigation history. *)

(* What the indexes of a ring are: until it is full, its oldest location is at 0 and the next one  *)
(* goes after the newest.                                                                         *)
Dimensions(r) ==
  /\ r.len \in 0 .. Size
  /\ r.pos \in 0 .. Size - 1
  /\ r.len > 0 => r.pos < r.len
  /\ r.ringEnd \in 0 .. Size - 1
  /\ r.len < Size => r.ringEnd = r.len

IsRing(r) ==
  /\ r = Ring(r.records, r.len, r.pos, r.ringEnd)
  /\ r.records \in [0 .. r.len - 1 -> Location]
  /\ Dimensions(r)

RingIInv == IsRing(ring) /\ disabled \in BOOLEAN

(* The index of the i-th oldest location, and how old the location at an index is, without %. *)
Slot(r, i) == IF r.ringEnd + i \leq r.len THEN r.ringEnd + i - 1 ELSE
              IF r.len = Size THEN r.ringEnd + i - 1 - r.len ELSE i - 1
Rank(r, k) == IF r.len = Size /\ k \geq r.ringEnd THEN k - r.ringEnd + 1 ELSE
              IF r.len = Size THEN k - r.ringEnd + r.len + 1 ELSE k + 1

(* A ring as a list, and the place in it. *)
InOrder(r) == [i \in 1 .. r.len |-> r.records[Slot(r, i)]]
Seen(r) == List!Visits(InOrder(r), IF r.len = 0 THEN 0 ELSE Rank(r, r.pos))

-----------------------------------------------------------------------------
(* Indexes. *)

LEMMA Below == ASSUME NEW n \in Nat \ {0}, NEW a \in 0 .. n - 1 PROVE a % n = a
BY Z3

LEMMA Beyond == ASSUME NEW n \in Nat \ {0}, NEW a \in n .. 2 * n - 1 PROVE a % n = a - n
BY Z3

(* Slot and Rank are inverse to each other, and stay within the ring and the list. *)
LEMMA SlotsAndRanks ==
  ASSUME NEW r, Dimensions(r)
  PROVE  /\ \A i \in 1 .. r.len : Slot(r, i) \in 0 .. r.len - 1 /\ Rank(r, Slot(r, i)) = i
         /\ \A k \in 0 .. r.len - 1 : Rank(r, k) \in 1 .. r.len /\ Slot(r, Rank(r, k)) = k
<1>1. CASE r.len < Size
  BY <1>1, SizeAssumption DEF Dimensions, Slot, Rank
<1>2. CASE r.len = Size
  BY <1>2, SizeAssumption DEF Dimensions, Slot, Rank
<1>3. QED
  BY <1>1, <1>2, SizeAssumption DEF Dimensions

LEMMA SlotIsModulo ==
  ASSUME NEW r, Dimensions(r), NEW i \in 1 .. r.len
  PROVE  (r.ringEnd + i - 1) % r.len = Slot(r, i)
<1> DEFINE a == r.ringEnd + i - 1
<1>1. r.len \in Nat \ {0} /\ a \in 0 .. 2 * r.len - 1
  BY SizeAssumption DEF Dimensions
<1>2. CASE a < r.len
  <2>1. a % r.len = a
    BY <1>1, <1>2, Below
  <2>2. Slot(r, i) = a
    BY <1>1, <1>2, SizeAssumption DEF Dimensions, Slot
  <2>3. QED
    BY <2>1, <2>2
<1>3. CASE a \geq r.len
  <2>1. a % r.len = a - r.len
    BY <1>1, <1>3, Beyond
  <2>2. Slot(r, i) = a - r.len
    BY <1>1, <1>3, SizeAssumption DEF Dimensions, Slot
  <2>3. QED
    BY <2>1, <2>2
<1>4. QED
  BY <1>1, <1>2, <1>3

LEMMA RankIsModulo ==
  ASSUME NEW r, Dimensions(r), NEW k \in 0 .. r.len - 1
  PROVE  ((k - r.ringEnd + r.len) % r.len) + 1 = Rank(r, k)
<1> DEFINE a == k - r.ringEnd + r.len
<1>1. r.len \in Nat \ {0} /\ a \in 0 .. 2 * r.len - 1
  BY SizeAssumption DEF Dimensions
<1>2. CASE a < r.len
  <2>1. a % r.len = a
    BY <1>1, <1>2, Below
  <2>2. Rank(r, k) = a + 1
    BY <1>1, <1>2, SizeAssumption DEF Dimensions, Rank
  <2>3. QED
    BY <2>1, <2>2
<1>3. CASE a \geq r.len
  <2>1. a % r.len = a - r.len
    BY <1>1, <1>3, Beyond
  <2>2. Rank(r, k) = a - r.len + 1
    <3>1. k \geq r.ringEnd /\ r.len = Size
      BY <1>1, <1>3, SizeAssumption DEF Dimensions
    <3>2. QED
      BY <1>1, <3>1, SizeAssumption DEF Dimensions, Rank
  <2>3. QED
    BY <2>1, <2>2
<1>4. QED
  BY <1>1, <1>2, <1>3

(* Hence the list and the place of NavRing are those of Seen. *)
LEMMA SeenOfRing == RingIInv => Seen(ring) = List!Visits(Unwrapped, Place)
<1> SUFFICES ASSUME RingIInv PROVE Seen(ring) = List!Visits(Unwrapped, Place)
  OBVIOUS
<1>1. Unwrapped = InOrder(ring)
  <2>1. \A i \in 1 .. ring.len : (ring.ringEnd + i - 1) % ring.len = Slot(ring, i)
    BY SlotIsModulo DEF RingIInv, IsRing
  <2>2. QED
    BY <2>1 DEF Unwrapped, InOrder
<1>2. Place = IF ring.len = 0 THEN 0 ELSE Rank(ring, ring.pos)
  <2>1. CASE ring.len = 0
    BY <2>1 DEF Place
  <2>2. CASE ring.len # 0
    <3>1. ring.pos \in 0 .. ring.len - 1
      BY <2>2, SizeAssumption DEF RingIInv, IsRing, Dimensions
    <3>2. QED
      BY <2>2, <3>1, RankIsModulo DEF RingIInv, IsRing, Place
  <2>3. QED
    BY <2>1, <2>2
<1>3. QED
  BY <1>1, <1>2 DEF Seen

(* The previous and the next index, without %. *)
LEMMA Neighbours ==
  ASSUME NEW r, Dimensions(r)
  PROVE  /\ PrevIndex(r) = IF r.pos = 0 THEN Size - 1 ELSE r.pos - 1
         /\ NextIndex(r) = IF r.pos = Size - 1 THEN 0 ELSE r.pos + 1
<1>1. Size \in Nat \ {0} /\ r.pos \in 0 .. Size - 1
  BY SizeAssumption DEF Dimensions
<1>2. PrevIndex(r) = IF r.pos = 0 THEN Size - 1 ELSE r.pos - 1
  <2>1. CASE r.pos = 0
    BY <1>1, <2>1, Below, Size - 1 \in 0 .. Size - 1, r.pos - 1 + Size = Size - 1 DEF PrevIndex
  <2>2. CASE r.pos # 0
    <3>1. r.pos - 1 + Size \in Size .. 2 * Size - 1
      BY <1>1, <2>2
    <3>2. QED
      BY <1>1, <2>2, <3>1, Beyond DEF PrevIndex
  <2>3. QED
    BY <2>1, <2>2
<1>3. NextIndex(r) = IF r.pos = Size - 1 THEN 0 ELSE r.pos + 1
  <2>1. CASE r.pos = Size - 1
    BY <1>1, <2>1, Beyond, r.pos + 1 \in Size .. 2 * Size - 1 DEF NextIndex
  <2>2. CASE r.pos # Size - 1
    BY <1>1, <2>2, Below, r.pos + 1 \in 0 .. Size - 1 DEF NextIndex
  <2>3. QED
    BY <2>1, <2>2
<1>4. QED
  BY <1>2, <1>3

(* The guards of the two ways, and where they lead. *)
LEMMA WaysEnd ==
  ASSUME NEW r, Dimensions(r), r.len > 0
  PROVE  /\ CanMoveBack(r) <=> Rank(r, r.pos) > 1
         /\ CanMoveForward(r) <=> Rank(r, r.pos) < r.len
         /\ CanMoveBack(r) => PrevIndex(r) \in 0 .. r.len - 1 /\ Rank(r, PrevIndex(r)) = Rank(r, r.pos) - 1
         /\ CanMoveForward(r) => NextIndex(r) \in 0 .. r.len - 1 /\ Rank(r, NextIndex(r)) = Rank(r, r.pos) + 1
<1>1. CASE r.len < Size
  BY <1>1, Neighbours, SizeAssumption DEF Dimensions, Rank, CanMoveBack, CanMoveForward
<1>2. CASE r.len = Size
  BY <1>2, Neighbours, SizeAssumption DEF Dimensions, Rank, CanMoveBack, CanMoveForward
<1>3. QED
  BY <1>1, <1>2, SizeAssumption DEF Dimensions

-----------------------------------------------------------------------------
(* The location at pos becomes the newest one: what the list does, and the rotation of the ring. *)

(* What a list is after the location at i has moved to its end. *)
IsMoved(q, i, t) ==
  /\ Len(t) = Len(q)
  /\ \A j \in 1 .. Len(q) : t[j] = IF j < i THEN q[j] ELSE IF j < Len(q) THEN q[j + 1] ELSE q[i]

LEMMA RemovedFromSeq ==
  ASSUME NEW S, NEW q \in Seq(S), NEW i \in 1 .. Len(q) - 1
  PROVE  LET u == List!RemoveAt(q, i) IN
           /\ u \in Seq(S) /\ Len(u) = Len(q) - 1
           /\ \A j \in 1 .. Len(q) - 1 : u[j] = IF j < i THEN q[j] ELSE q[j + 1]
<1> DEFINE n == Len(q)
           u == List!RemoveAt(q, i)
<1>1. n \in Nat /\ i \in 1 .. n /\ DOMAIN q = 1 .. n /\ q[i] \in S
  BY LenProperties, ElementOfSeq
<1>2. /\ u \in Seq(S) /\ Len(u) = n - 1
      /\ \A j \in 1 .. n - 1 : u[j] = IF j < i THEN q[j] ELSE q[j + 1]
  BY <1>1, SMT DEF List!RemoveAt
<1>3. QED
  BY <1>2

LEMMA LastRemoved ==
  ASSUME NEW S, NEW q \in Seq(S), Len(q) > 0
  PROVE  LET u == List!RemoveAt(q, Len(q)) IN
           /\ u \in Seq(S) /\ Len(u) = Len(q) - 1
           /\ \A j \in 1 .. Len(q) - 1 : u[j] = q[j]
<1> DEFINE n == Len(q)
           v == SubSeq(q, 1, n - 1)
<1>1. n \in Nat \ {0} /\ \A j \in 1 .. n : q[j] \in S
  BY LenProperties, ElementOfSeq
<1>2. v \in Seq(S) /\ Len(v) = n - 1 /\ \A j \in 1 .. n - 1 : v[j] = q[j]
  <2>1. 1 \in Int /\ n - 1 \in Int /\ \A j \in 1 .. n - 1 : q[j] \in S
    BY <1>1
  <2>2. v \in Seq(S) /\ \A j \in 1 .. n - 1 - 1 + 1 : v[j] = q[1 + j - 1]
    BY <2>1, SubSeqProperties
  <2>3. Len(v) = n - 1
    <3>1. Len(v) = IF 1 \leq n - 1 THEN n - 1 - 1 + 1 ELSE 0
      BY <2>1, SubSeqProperties
    <3> HIDE DEF v, n
    <3>2. n \in Nat \ {0}
      BY <1>1
    <3>3. CASE n = 1
      BY <3>1, <3>3
    <3>4. CASE n > 1
      BY <3>1, <3>2, <3>4
    <3>5. QED
      BY <3>2, <3>3, <3>4
  <2> HIDE DEF v
  <2>4. ASSUME NEW j \in 1 .. n - 1 PROVE v[j] = q[j]
    <3>1. j \in 1 .. n - 1 - 1 + 1 /\ 1 + j - 1 = j
      BY <1>1
    <3>2. QED
      BY <2>2, <3>1
  <2>5. QED
    BY <2>2, <2>3, <2>4
<1>3. SubSeq(q, n + 1, n) = <<>>
  BY <1>1, SubSeqEmpty
<1>4. v \o <<>> = v
  BY <1>2, ConcatEmptySeq
<1>5. List!RemoveAt(q, n) = v \o SubSeq(q, n + 1, n)
  BY DEF List!RemoveAt
<1>6. List!RemoveAt(q, n) = v
  BY <1>3, <1>4, <1>5
<1> HIDE DEF v
<1>7. QED
  BY <1>2, <1>6

LEMMA MovedSeq ==
  ASSUME NEW S, NEW q \in Seq(S), NEW i \in 1 .. Len(q)
  PROVE  LET t == Append(List!RemoveAt(q, i), q[i]) IN t \in Seq(S) /\ IsMoved(q, i, t)
<1> DEFINE n == Len(q)
           u == List!RemoveAt(q, i)
           t == Append(u, q[i])
<1>1. n \in Nat /\ i \in 1 .. n /\ q[i] \in S
  BY LenProperties, ElementOfSeq
<1>2. /\ u \in Seq(S) /\ Len(u) = n - 1
      /\ \A j \in 1 .. n - 1 : u[j] = IF j < i THEN q[j] ELSE q[j + 1]
  <2>1. CASE i < n
    <3>1. i \in 1 .. n - 1
      BY <1>1, <2>1
    <3>2. QED
      BY <3>1, RemovedFromSeq
  <2>2. CASE i = n
    <3>1. /\ u \in Seq(S) /\ Len(u) = n - 1
          /\ \A j \in 1 .. n - 1 : u[j] = q[j]
      BY <1>1, <2>2, LastRemoved
    <3> HIDE DEF u
    <3>2. QED
      BY <1>1, <2>2, <3>1
  <2>3. QED
    BY <1>1, <2>1, <2>2
<1> HIDE DEF u
<1>3. /\ t \in Seq(S) /\ Len(t) = Len(u) + 1 /\ t[Len(u) + 1] = q[i]
      /\ \A j \in 1 .. Len(u) : t[j] = u[j]
  BY <1>1, <1>2, AppendProperties
<1> HIDE DEF t
<1>4. Len(t) = n /\ t[n] = q[i] /\ \A j \in 1 .. n - 1 : t[j] = u[j]
  BY <1>1, <1>2, <1>3
<1>5. IsMoved(q, i, t)
  BY <1>1, <1>2, <1>4 DEF IsMoved
<1>6. QED
  BY <1>3, <1>5 DEF t, u

(* The locations after lo up to hi - 1 go down by one, and x to the end of them. *)
ShiftIn(s, lo, hi, x) == [ShiftLeft(s, lo, hi) EXCEPT ![hi - 1] = x]

IsShiftedIn(s, n, lo, hi, x, t) ==
  /\ t \in [0 .. n - 1 -> Location]
  /\ \A k \in 0 .. n - 1 : t[k] = IF k = hi - 1 THEN x ELSE IF lo \leq k /\ k < hi - 1 THEN s[k + 1] ELSE s[k]

LEMMA ShiftedIn ==
  ASSUME NEW n \in Nat, NEW s \in [0 .. n - 1 -> Location], NEW x \in Location,
         NEW lo \in Nat, NEW hi \in 1 .. n, lo < hi
  PROVE  IsShiftedIn(s, n, lo, hi, x, ShiftIn(s, lo, hi, x))
<1> DEFINE t == ShiftIn(s, lo, hi, x)
           u == ShiftLeft(s, lo, hi)
<1>1. DOMAIN s = 0 .. n - 1
  OBVIOUS
<1>2. /\ DOMAIN u = 0 .. n - 1
      /\ \A k \in 0 .. n - 1 : u[k] = IF lo \leq k /\ k + 1 < hi THEN s[k + 1] ELSE s[k]
  BY <1>1 DEF ShiftLeft
<1>3. u = [k \in 0 .. n - 1 |-> u[k]]
  BY <1>1 DEF ShiftLeft
<1> HIDE DEF u
<1>4. /\ t = [k \in 0 .. n - 1 |-> t[k]]
      /\ \A k \in 0 .. n - 1 : t[k] = IF k = hi - 1 THEN x ELSE u[k]
  BY <1>2, <1>3 DEF ShiftIn, u
<1> HIDE DEF t
<1>5. ASSUME NEW k \in 0 .. n - 1
      PROVE  /\ t[k] = IF k = hi - 1 THEN x ELSE IF lo \leq k /\ k < hi - 1 THEN s[k + 1] ELSE s[k]
             /\ t[k] \in Location
  BY <1>2, <1>4
<1>6. t \in [0 .. n - 1 -> Location]
  BY <1>4, <1>5
<1>7. QED
  BY <1>5, <1>6 DEF t, IsShiftedIn

(* Where each location is after a rotation.  In a ring that is not full only the locations after  *)
(* pos move; in a full one those between pos and the newest, which may be beyond the end.         *)
RotatedAt(r, t, j) ==
  t[Slot(r, j)] = IF j < Rank(r, r.pos) THEN r.records[Slot(r, j)] ELSE
                  IF j < r.len THEN r.records[Slot(r, j + 1)] ELSE r.records[r.pos]

IsRotated(r, t) == t \in [0 .. r.len - 1 -> Location] /\ \A j \in 1 .. r.len : RotatedAt(r, t, j)

LEMMA RotateIsMove ==
  ASSUME NEW r, IsRing(r), r.len > 0
  PROVE  IsRotated(r, Rotate(r, r.pos))
<1> DEFINE s == r.records
           p == r.pos
           n == r.len
           e == r.ringEnd
           t == Rotate(r, p)
<1>1. /\ Size \in Nat /\ n \in 1 .. Size /\ p \in 0 .. n - 1 /\ e \in 0 .. Size - 1 /\ (n < Size => e = n)
      /\ s \in [0 .. n - 1 -> Location] /\ s[p] \in Location
  BY SizeAssumption DEF IsRing, Dimensions
<1>2. CASE n < Size
  <2>1. t = ShiftIn(s, p, n, s[p])
    BY <1>1, <1>2 DEF Rotate, ShiftIn
  <2>2. IsShiftedIn(s, n, p, n, s[p], t)
    BY <1>1, <2>1, ShiftedIn
  <2>3. Rank(r, p) = p + 1 /\ \A j \in 1 .. n : Slot(r, j) = j - 1
    BY <1>1, <1>2 DEF Slot, Rank
  <2> HIDE DEF t
  <2>4. ASSUME NEW j \in 1 .. n PROVE RotatedAt(r, t, j)
    <3>1. j - 1 \in 0 .. n - 1 /\ j - 1 + 1 = j /\ j + 1 - 1 = j
      BY <1>1
    <3>2. t[j - 1] = IF j = n THEN s[p] ELSE IF p \leq j - 1 /\ j < n THEN s[j] ELSE s[j - 1]
      BY <1>1, <2>2, <3>1 DEF IsShiftedIn
    <3>3. j < n => Slot(r, j + 1) = j
      BY <1>1, <2>3
    <3>4. QED
      BY <1>1, <2>3, <3>2, <3>3 DEF RotatedAt
  <2>5. QED
    BY <2>2, <2>4 DEF IsRotated, IsShiftedIn, t
<1>3. CASE n = Size /\ p < e
  <2>1. t = ShiftIn(s, p, e, s[p])
    BY <1>1, <1>3 DEF Rotate, ShiftIn
  <2>2. IsShiftedIn(s, n, p, e, s[p], t)
    <3>1. n \in Nat /\ p \in Nat /\ e \in 1 .. n /\ p < e
      BY <1>1, <1>3
    <3>2. s \in [0 .. n - 1 -> Location] /\ s[p] \in Location
      BY <1>1
    <3> HIDE DEF s, p, n, e, t
    <3>3. IsShiftedIn(s, n, p, e, s[p], ShiftIn(s, p, e, s[p]))
      BY <3>1, <3>2, ShiftedIn
    <3>4. QED
      BY <2>1, <3>3
  <2>3. /\ Rank(r, p) = p - e + n + 1
        /\ \A j \in 1 .. n : Slot(r, j) = IF e + j \leq n THEN e + j - 1 ELSE e + j - 1 - n
    BY <1>1, <1>3 DEF Slot, Rank
  <2> HIDE DEF t
  <2>4. ASSUME NEW j \in 1 .. n PROVE RotatedAt(r, t, j)
    <3> DEFINE k == Slot(r, j)
               i == Rank(r, p)
    <3>1. /\ k = IF e + j \leq n THEN e + j - 1 ELSE e + j - 1 - n
          /\ j < n => Slot(r, j + 1) = IF e + j < n THEN e + j ELSE e + j - n
          /\ i = p - e + n + 1
      <4>1. j < n => j + 1 \in 1 .. n
        BY <1>1
      <4>2. j < n => Slot(r, j + 1) = IF e + (j + 1) \leq n THEN e + (j + 1) - 1 ELSE e + (j + 1) - 1 - n
        BY <2>3, <4>1
      <4>3. QED
        BY <1>1, <2>3, <4>2
    <3> HIDE DEF k, i
    <3>2. k \in 0 .. n - 1
      <4>1. n \in Nat /\ e \in Nat /\ j \in Nat /\ e < n /\ 1 \leq j /\ j \leq n
        BY <1>1, <1>3
      <4> HIDE DEF n, e
      <4>2. CASE e + j \leq n
        BY <3>1, <4>1, <4>2
      <4>3. CASE ~ (e + j \leq n)
        BY <3>1, <4>1, <4>3
      <4>4. QED
        BY <4>2, <4>3
    <3>3. t[k] = IF k = e - 1 THEN s[p] ELSE IF p \leq k /\ k < e - 1 THEN s[k + 1] ELSE s[k]
      BY <2>2, <3>2 DEF IsShiftedIn
    <3>4. CASE j < i
      <4>1. k \geq e \/ k < p
        <5>1. n \in Nat /\ e \in Nat /\ p \in Nat /\ j \in Nat /\ 1 \leq j /\ j < p - e + n + 1
          BY <1>1, <1>3, <3>1, <3>4
        <5> HIDE DEF n, e, p
        <5>2. CASE e + j \leq n
          BY <3>1, <5>1, <5>2
        <5>3. CASE ~ (e + j \leq n)
          BY <3>1, <5>1, <5>3
        <5>4. QED
          BY <5>2, <5>3
      <4>2. QED
        BY <1>1, <1>3, <3>2, <3>3, <3>4, <4>1 DEF RotatedAt, k, i
    <3>5. CASE i \leq j /\ j < n
      <4>1. p \leq k /\ k < e - 1 /\ Slot(r, j + 1) = k + 1
        <5>1. n \in Nat /\ e \in Nat /\ p \in Nat /\ j \in Nat /\ j < n /\ p - e + n + 1 \leq j
          BY <1>1, <1>3, <3>1, <3>5
        <5>2. ~(e + j \leq n) /\ ~(e + j < n)
          BY <5>1
        <5>3. k = e + j - 1 - n /\ Slot(r, j + 1) = e + j - n
          BY <3>1, <5>1, <5>2
        <5>4. QED
          BY <5>1, <5>3
      <4>2. t[k] = s[k + 1] /\ ~(j < i)
        <5>1. k \in Int /\ e \in Int /\ i \in Int /\ j \in Int
          BY <1>1, <3>1, <3>2
        <5>2. k # e - 1 /\ ~(j < i)
          BY <3>5, <4>1, <5>1
        <5>3. QED
          BY <3>3, <4>1, <5>2
      <4>3. QED
        BY <3>5, <4>1, <4>2 DEF RotatedAt, k, i
    <3>6. CASE j = n
      <4>1. k = e - 1 /\ ~(j < i)
        BY <1>1, <1>3, <3>1, <3>6
      <4>2. QED
        BY <1>1, <3>3, <3>6, <4>1 DEF RotatedAt, k, i
    <3>7. QED
      BY <1>1, <1>3, <3>1, <3>4, <3>5, <3>6
  <2>5. QED
    BY <2>2, <2>4 DEF IsRotated, IsShiftedIn, t
<1>4. CASE n = Size /\ p \geq e
  <2> DEFINE x == IF e > 0 THEN s[0] ELSE s[p]
             w == ShiftIn(s, p, n, x)
  <2>1. IsShiftedIn(s, n, p, n, x, w)
    BY <1>1, <1>4, ShiftedIn
  <2>2. t = IF 0 < e THEN ShiftIn(w, 0, e, s[p]) ELSE w
    BY <1>1, <1>4 DEF Rotate, ShiftIn
  <2>3. /\ Rank(r, p) = p - e + 1 /\ Rank(r, p) \in 1 .. n
        /\ \A j \in 1 .. n : Slot(r, j) = IF e + j \leq n THEN e + j - 1 ELSE e + j - 1 - n
    BY <1>1, <1>4 DEF Slot, Rank
  <2> HIDE DEF t, w
  <2>4. CASE e = 0
    <3>1. t = w /\ x = s[p]
      BY <2>2, <2>4
    <3>2. ASSUME NEW j \in 1 .. n PROVE RotatedAt(r, t, j)
      <4> DEFINE k == Slot(r, j)
      <4>1. /\ k \in 0 .. n - 1
            /\ j < Rank(r, p) => k < p
            /\ j \geq Rank(r, p) /\ j < n => p \leq k /\ k < n - 1 /\ Slot(r, j + 1) = k + 1
            /\ j = n => k = n - 1
        BY <1>1, <1>4, <2>3, <2>4
      <4>2. t[k] = IF k = n - 1 THEN s[p] ELSE IF p \leq k /\ k < n - 1 THEN s[k + 1] ELSE s[k]
        BY <2>1, <3>1, <4>1 DEF IsShiftedIn
      <4> HIDE DEF k
      <4>3. QED
        BY <1>1, <1>4, <2>3, <4>1, <4>2 DEF RotatedAt, k
    <3>3. QED
      BY <2>1, <3>1, <3>2 DEF IsRotated, IsShiftedIn, t
  <2>5. CASE e > 0
    <3>1. IsShiftedIn(w, n, 0, e, s[p], t)
      <4>1. w \in [0 .. n - 1 -> Location]
        BY <2>1 DEF IsShiftedIn
      <4>2. QED
        BY <1>1, <1>4, <2>2, <2>5, <4>1, ShiftedIn
    <3>2. ASSUME NEW j \in 1 .. n PROVE RotatedAt(r, t, j)
      <4> DEFINE k == Slot(r, j)
                 i == Rank(r, p)
      <4>1. /\ k = IF e + j \leq n THEN e + j - 1 ELSE e + j - 1 - n
            /\ j < n => Slot(r, j + 1) = IF e + j < n THEN e + j ELSE e + j - n
            /\ i = p - e + 1
        <5>1. j < n => j + 1 \in 1 .. n
          BY <1>1
        <5>2. j < n => Slot(r, j + 1) = IF e + (j + 1) \leq n THEN e + (j + 1) - 1 ELSE e + (j + 1) - 1 - n
          BY <2>3, <5>1
        <5>3. j < n => Slot(r, j + 1) = IF e + j < n THEN e + j ELSE e + j - n
          BY <1>1, <5>2
        <5>4. QED
          BY <2>3, <5>3
      <4> HIDE DEF k, i
      <4>2. k \in 0 .. n - 1
        BY <1>1, <1>4, <4>1
      <4>3. /\ t[k] = IF k = e - 1 THEN s[p] ELSE IF 0 \leq k /\ k < e - 1 THEN w[k + 1] ELSE w[k]
            /\ w[k] = IF k = n - 1 THEN s[0] ELSE IF p \leq k /\ k < n - 1 THEN s[k + 1] ELSE s[k]
        BY <2>1, <2>5, <3>1, <4>2 DEF IsShiftedIn
      <4>4. CASE j < i
        <5>1. e \leq k /\ k < p
          BY <1>1, <1>4, <2>5, <4>1, <4>4
        <5>2. t[k] = s[k]
          BY <1>1, <4>2, <4>3, <5>1
        <5>3. QED
          BY <4>4, <5>2 DEF RotatedAt, k, i
      <4>5. CASE i \leq j /\ j < n /\ e + j \leq n
        <5>1. e \leq k /\ p \leq k /\ k = e + j - 1 /\ ~(j < i)
          BY <1>1, <1>4, <2>5, <4>1, <4>5
        <5>2. Slot(r, j + 1) = IF e + j < n THEN e + j ELSE 0
          BY <1>1, <4>1, <4>5
        <5>3. t[k] = IF e + j < n THEN s[e + j] ELSE s[0]
          <6>1. n \in Int /\ e \in Int /\ j \in Int /\ k \in Int /\ k = e + j - 1 /\ e \leq k /\ e + j \leq n
            BY <1>1, <4>2, <4>5, <5>1
          <6>2. k # e - 1 /\ ~(k < e - 1) /\ (k = n - 1 <=> ~(e + j < n)) /\ (k < n - 1 <=> e + j < n) /\ k + 1 = e + j
            BY <6>1
          <6>3. t[k] = w[k]
            BY <4>3, <6>2
          <6>4. QED
            BY <4>3, <5>1, <6>2, <6>3
        <5>4. QED
          BY <4>5, <5>1, <5>2, <5>3 DEF RotatedAt, k, i
      <4>6. CASE i \leq j /\ j < n /\ e + j > n
        <5>1. k < e - 1 /\ k + 1 < p /\ k + 1 \in 0 .. n - 1 /\ k + 1 = e + j - n /\ ~(j < i)
          <6>1. k = e + j - 1 - n /\ i = p - e + 1
            BY <1>1, <4>1, <4>6
          <6>2. /\ n \in Nat /\ e \in Nat /\ p \in 0 .. n - 1 /\ j \in 1 .. n - 1 /\ e + j > n
                /\ p \geq e /\ i \leq j
            BY <1>1, <1>4, <4>6
          <6>3. QED
            BY <6>1, <6>2
        <5>2. Slot(r, j + 1) = e + j - n
          BY <1>1, <4>1, <4>6
        <5>3. w[k + 1] = IF k + 1 = n - 1 THEN x ELSE
                         IF p \leq k + 1 /\ k + 1 < n - 1 THEN s[k + 1 + 1] ELSE s[k + 1]
          BY <2>1, <5>1 DEF IsShiftedIn
        <5>4. w[k + 1] = s[k + 1]
          BY <1>1, <4>2, <5>1, <5>3
        <5>5. t[k] = s[k + 1]
          BY <1>1, <4>2, <4>3, <5>1, <5>4
        <5>6. QED
          BY <4>6, <5>1, <5>2, <5>5 DEF RotatedAt, k, i
      <4>7. CASE j = n
        <5>1. k = e - 1 /\ ~(j < i)
          BY <1>1, <1>4, <2>5, <4>1, <4>7
        <5>2. QED
          BY <1>1, <4>3, <4>7, <5>1 DEF RotatedAt, k, i
      <4>8. QED
        BY <1>1, <1>4, <4>1, <4>4, <4>5, <4>6, <4>7
    <3>3. QED
      BY <3>1, <3>2 DEF IsRotated, IsShiftedIn, t
  <2>6. QED
    BY <1>1, <2>4, <2>5
<1>5. QED
  BY <1>1, <1>2, <1>3, <1>4

-----------------------------------------------------------------------------
(* What the operators on rings are to the list. *)

(* The list of a ring, and its current location. *)
LEMMA ListOfRing ==
  ASSUME NEW r, IsRing(r)
  PROVE  /\ InOrder(r) \in Seq(Location) /\ Len(InOrder(r)) = r.len
         /\ \A j \in 1 .. r.len : InOrder(r)[j] = r.records[Slot(r, j)]
         /\ r.len > 0 => /\ Rank(r, r.pos) \in 1 .. r.len
                         /\ InOrder(r)[Rank(r, r.pos)] = Current(r)
                         /\ Current(r) \in Location
<1> DEFINE q == InOrder(r)
<1>1. r.len \in Nat /\ Dimensions(r) /\ (r.len > 0 => r.pos \in 0 .. r.len - 1)
  BY SizeAssumption DEF IsRing, Dimensions
<1>2. \A j \in 1 .. r.len : r.records[Slot(r, j)] \in Location
  BY <1>1, SlotsAndRanks DEF IsRing
<1>3. q \in [1 .. r.len -> Location] /\ \A j \in 1 .. r.len : q[j] = r.records[Slot(r, j)]
  BY <1>2 DEF InOrder
<1> HIDE DEF q
<1>4. q \in Seq(Location) /\ Len(q) = r.len
  BY <1>1, <1>3
<1>5. ASSUME r.len > 0
      PROVE  Rank(r, r.pos) \in 1 .. r.len /\ q[Rank(r, r.pos)] = Current(r) /\ Current(r) \in Location
  <2>1. Rank(r, r.pos) \in 1 .. r.len /\ Slot(r, Rank(r, r.pos)) = r.pos
    BY <1>1, <1>5, SlotsAndRanks
  <2>2. r.records[r.pos] \in Location
    BY <1>1, <1>5 DEF IsRing
  <2>3. QED
    BY <1>3, <2>1, <2>2 DEF Current
<1>6. QED
  BY <1>3, <1>4, <1>5 DEF q

(* The place of a ring is that of its list. *)
LEMMA PlaceOfRing ==
  ASSUME NEW r, IsRing(r)
  PROVE  /\ Seen(r).list = InOrder(r)
         /\ Seen(r).at = IF r.len = 0 THEN 0 ELSE Rank(r, r.pos)
         /\ Seen(r).at > 0 <=> r.len > 0
         /\ Seen(r).at = 0 <=> r.len = 0
<1>1. Seen(r).list = InOrder(r) /\ Seen(r).at = IF r.len = 0 THEN 0 ELSE Rank(r, r.pos)
  BY DEF Seen, List!Visits
<1>2. r.len \in Nat
  BY SizeAssumption DEF IsRing, Dimensions
<1>3. CASE r.len = 0
  BY <1>1, <1>3
<1>4. CASE r.len > 0
  <2>1. Rank(r, r.pos) > 0 /\ Rank(r, r.pos) # 0
    BY <1>2, <1>4, ListOfRing
  <2>2. QED
    BY <1>1, <1>2, <1>4, <2>1
<1>5. QED
  BY <1>2, <1>3, <1>4

(* Two rings of the same dimensions have the same slots and places. *)
SameShape(r, q) == q.len = r.len /\ q.pos = r.pos /\ q.ringEnd = r.ringEnd

LEMMA ShapeIsKept ==
  ASSUME NEW r, IsRing(r), NEW records \in [0 .. r.len - 1 -> Location],
         NEW q, q = Ring(records, r.len, r.pos, r.ringEnd)
  PROVE  /\ IsRing(q) /\ SameShape(r, q) /\ q.records = records
         /\ Rank(q, q.pos) = Rank(r, r.pos)
         /\ \A j \in 1 .. r.len : Slot(q, j) = Slot(r, j)
<1>1. SameShape(r, q) /\ q.records = records
  BY DEF Ring, SameShape
<1>2. Dimensions(q)
  BY <1>1 DEF IsRing, Dimensions, SameShape
<1>3. IsRing(q)
  BY <1>1, <1>2 DEF IsRing, SameShape
<1>4. Rank(q, q.pos) = Rank(r, r.pos) /\ \A j \in 1 .. r.len : Slot(q, j) = Slot(r, j)
  BY <1>1 DEF SameShape, Rank, Slot
<1>5. QED
  BY <1>1, <1>3, <1>4

(* updateIfMatch matches when the list does, and replaces the current location in it. *)
LEMMA MatchIsFollow ==
  ASSUME NEW r, IsRing(r), NEW from
  PROVE  Matches(r, from) <=> List!Follows(Seen(r), from)
<1>1. CASE r.len = 0
  BY <1>1, PlaceOfRing DEF Matches, List!Follows
<1>2. CASE r.len > 0
  <2>1. Seen(r).list[Seen(r).at] = Current(r) /\ Seen(r).at > 0
    BY <1>2, PlaceOfRing, ListOfRing
  <2>2. QED
    BY <1>2, <2>1 DEF Matches, List!Follows
<1>3. QED
  BY <1>1, <1>2, SizeAssumption DEF IsRing, Dimensions

LEMMA UpdateIsUpdate ==
  ASSUME NEW r, IsRing(r), NEW from \in Location, Matches(r, from)
  PROVE  IsRing(UpdateCurrent(r, from)) /\ Seen(UpdateCurrent(r, from)) = List!Update(Seen(r), from)
<1> DEFINE records == [r.records EXCEPT ![r.pos] = from]
           q == Ring(records, r.len, r.pos, r.ringEnd)
           i == Rank(r, r.pos)
<1>1. r.len > 0 /\ r.pos \in 0 .. r.len - 1 /\ Current(r).path = from.path
  BY SizeAssumption DEF Matches, IsRing, Dimensions
<1>2. records \in [0 .. r.len - 1 -> Location]
  BY <1>1 DEF IsRing
<1>3. UpdateCurrent(r, from) = q
  <2>1. [Current(r) EXCEPT !.position = from.position] = from
    <3>1. Current(r) \in Location
      BY <1>1, ListOfRing
    <3>2. QED
      BY <1>1, <3>1 DEF Location
  <2>2. [r.records EXCEPT ![r.pos].position = from.position] = records
    BY <2>1 DEF Current
  <2>3. UpdateCurrent(r, from) = [r EXCEPT !.records = [r.records EXCEPT ![r.pos].position = from.position]]
    BY DEF UpdateCurrent
  <2>4. [r EXCEPT !.records = records] = q
    BY DEF IsRing, Ring
  <2>5. QED
    BY <2>2, <2>3, <2>4
<1> HIDE DEF q
<1>4. /\ IsRing(q) /\ q.len = r.len /\ q.records = records /\ Rank(q, q.pos) = i
      /\ \A j \in 1 .. r.len : Slot(q, j) = Slot(r, j)
  <2>1. q = Ring(records, r.len, r.pos, r.ringEnd)
    BY DEF q
  <2> HIDE DEF records
  <2>2. QED
    BY <1>2, <2>1, ShapeIsKept DEF SameShape
<1>5. InOrder(q) = [InOrder(r) EXCEPT ![i] = from]
  <2>1. /\ InOrder(r) \in Seq(Location) /\ Len(InOrder(r)) = r.len /\ i \in 1 .. r.len
        /\ \A j \in 1 .. r.len : InOrder(r)[j] = r.records[Slot(r, j)]
    BY <1>1, ListOfRing
  <2>2. /\ InOrder(q) \in Seq(Location) /\ Len(InOrder(q)) = r.len
        /\ \A j \in 1 .. r.len : InOrder(q)[j] = records[Slot(r, j)]
    BY <1>4, ListOfRing
  <2> DEFINE t == [InOrder(r) EXCEPT ![i] = from]
  <2>3. /\ t \in Seq(Location) /\ Len(t) = r.len
        /\ \A j \in 1 .. r.len : t[j] = IF j = i THEN from ELSE InOrder(r)[j]
    BY <2>1, ExceptSeq
  <2> HIDE DEF t, i
  <2>4. ASSUME NEW j \in 1 .. r.len PROVE InOrder(q)[j] = t[j]
    <3>1. Slot(r, j) \in 0 .. r.len - 1 /\ (Slot(r, j) = r.pos <=> j = i)
      BY <1>1, SlotsAndRanks DEF IsRing, i
    <3>2. records[Slot(r, j)] = IF j = i THEN from ELSE r.records[Slot(r, j)]
      BY <3>1 DEF IsRing
    <3>3. QED
      BY <2>1, <2>2, <2>3, <3>2
  <2>5. QED
    BY <2>2, <2>3, <2>4, SeqEqual DEF t
<1>6. QED
  BY <1>1, <1>3, <1>4, <1>5 DEF Seen, List!Update, List!Visits

(* The rotation is the move of the current location to the end of the list. *)
LEMMA RotateInOrder ==
  ASSUME NEW r, IsRing(r), r.len > 0
  PROVE  LET q == [r EXCEPT !.records = Rotate(r, r.pos)]
             i == Rank(r, r.pos)
         IN  IsRing(q) /\ q.len = r.len /\ InOrder(q) = Append(List!RemoveAt(InOrder(r), i), InOrder(r)[i])
<1> DEFINE records == Rotate(r, r.pos)
           q == [r EXCEPT !.records = records]
           i == Rank(r, r.pos)
           s == InOrder(r)
           t == Append(List!RemoveAt(s, i), s[i])
<1>1. IsRotated(r, records)
  BY RotateIsMove
<1>2. q = Ring(records, r.len, r.pos, r.ringEnd)
  BY DEF IsRing, Ring
<1> HIDE DEF records, q
<1>3. /\ IsRing(q) /\ q.len = r.len /\ q.records = records
      /\ \A j \in 1 .. r.len : Slot(q, j) = Slot(r, j)
  BY <1>1, <1>2, ShapeIsKept DEF IsRotated, SameShape
<1>4. /\ s \in Seq(Location) /\ Len(s) = r.len /\ i \in 1 .. r.len /\ s[i] = r.records[r.pos]
      /\ \A j \in 1 .. r.len : s[j] = r.records[Slot(r, j)]
  BY ListOfRing DEF Current
<1>5. /\ InOrder(q) \in Seq(Location) /\ Len(InOrder(q)) = r.len
      /\ \A j \in 1 .. r.len : InOrder(q)[j] = records[Slot(r, j)]
  BY <1>3, ListOfRing
<1> HIDE DEF s, i
<1>6. t \in Seq(Location) /\ IsMoved(s, i, t)
  BY <1>4, MovedSeq
<1> HIDE DEF t
<1>7. ASSUME NEW j \in 1 .. r.len PROVE InOrder(q)[j] = t[j]
  <2>1. r.len \in Nat /\ (j < r.len => j + 1 \in 1 .. r.len)
    BY SizeAssumption DEF IsRing, Dimensions
  <2>2. records[Slot(r, j)] = IF j < i THEN s[j] ELSE IF j < r.len THEN s[j + 1] ELSE s[i]
    BY <1>1, <1>4, <2>1 DEF IsRotated, RotatedAt, i
  <2>3. QED
    BY <1>4, <1>5, <1>6, <2>2 DEF IsMoved
<1>8. InOrder(q) = t
  <2>1. Len(t) = r.len
    BY <1>4, <1>6 DEF IsMoved
  <2>2. QED
    BY <1>5, <1>6, <1>7, <2>1, SeqEqual
<1>9. QED
  BY <1>3, <1>8 DEF q, records, t, s, i

(* The list without its oldest location if it has become too long. *)
Kept(all) == IF Len(all) > Size THEN Tail(all) ELSE all

(* A location pushed to the ring is appended to the list, which loses its oldest one when full. *)
LEMMA PushIsAppend ==
  ASSUME NEW r, IsRing(r), NEW loc \in Location
  PROVE  LET q == RingPush(r, loc)
             kept == Kept(Append(InOrder(r), loc))
         IN  IsRing(q) /\ Seen(q) = List!Visits(kept, Len(kept))
<1> DEFINE n == r.len
           e == r.ringEnd
           s == InOrder(r)
           all == Append(s, loc)
           kept == Kept(all)
           grown == IF n < Size THEN n + 1 ELSE n
           next == IF e = Size - 1 THEN 0 ELSE e + 1
           records == [k \in 0 .. grown - 1 |-> IF k = e THEN loc ELSE r.records[k]]
           q == RingPush(r, loc)
<1>1. /\ Size \in Nat \ {0} /\ n \in 0 .. Size /\ e \in 0 .. Size - 1 /\ (n < Size => e = n)
      /\ r.records \in [0 .. n - 1 -> Location]
  BY SizeAssumption DEF IsRing, Dimensions
<1>2. (e + 1) % Size = next
  <2>1. CASE e = Size - 1
    BY <1>1, <2>1, Beyond, e + 1 \in Size .. 2 * Size - 1
  <2>2. CASE e # Size - 1
    BY <1>1, <2>2, Below, e + 1 \in 0 .. Size - 1
  <2>3. QED
    BY <2>1, <2>2
<1>3. q = Ring(records, grown, e, next)
  BY <1>2 DEF RingPush
<1>4. records \in [0 .. grown - 1 -> Location]
  BY <1>1
<1>5. q.records = records /\ q.len = grown /\ q.pos = e /\ q.ringEnd = next
  BY <1>3 DEF Ring
<1>6. Dimensions(q)
  BY <1>1, <1>5 DEF Dimensions
<1>7. IsRing(q)
  BY <1>3, <1>4, <1>5, <1>6 DEF IsRing
<1>8. grown \in 1 .. Size /\ Rank(q, e) = grown
  BY <1>1, <1>5 DEF Rank
<1>9. InOrder(q) \in Seq(Location) /\ Len(InOrder(q)) = grown
      /\ \A j \in 1 .. grown : InOrder(q)[j] = records[Slot(q, j)]
  <2> HIDE DEF q, records, grown
  <2>1. QED
    BY <1>5, <1>7, ListOfRing
<1>10. /\ s \in Seq(Location) /\ Len(s) = n
       /\ \A j \in 1 .. n : s[j] = r.records[Slot(r, j)]
  BY ListOfRing
<1>11. /\ all \in Seq(Location) /\ Len(all) = n + 1 /\ all[n + 1] = loc /\ all # <<>>
       /\ \A j \in 1 .. n : all[j] = s[j]
  BY <1>10, AppendProperties
<1> HIDE DEF q, s, all
<1>12. CASE n < Size
  <2>1. kept = all /\ grown = n + 1 /\ e = n
    BY <1>1, <1>11, <1>12 DEF Kept
  <2>2. ASSUME NEW j \in 1 .. n + 1 PROVE InOrder(q)[j] = all[j]
    <3>1. Slot(q, j) = j - 1
      BY <1>1, <1>5, <1>12 DEF Slot
    <3>2. j \in 1 .. n => Slot(r, j) = j - 1
      BY <1>1, <1>12 DEF Slot
    <3>3. InOrder(q)[j] = records[j - 1]
      BY <1>9, <2>1, <3>1
    <3>4. records[j - 1] = IF j = n + 1 THEN loc ELSE r.records[j - 1]
      BY <1>1, <2>1
    <3> HIDE DEF records
    <3>5. QED
      BY <1>1, <1>10, <1>11, <3>2, <3>3, <3>4
  <2>3. InOrder(q) = all
    BY <1>9, <1>11, <2>1, <2>2, SeqEqual
  <2>4. QED
    BY <1>1, <1>5, <1>7, <1>8, <1>11, <2>1, <2>3 DEF Seen, List!Visits, q, all, s
<1>13. CASE n = Size
  <2>1. kept = Tail(all) /\ grown = n
    BY <1>1, <1>11, <1>13 DEF Kept
  <2>2. /\ kept \in Seq(Location) /\ Len(kept) = n
        /\ \A j \in 1 .. n : kept[j] = all[j + 1]
    BY <1>1, <1>11, <2>1, HeadTailProperties
  <2>3. ASSUME NEW j \in 1 .. n PROVE InOrder(q)[j] = kept[j]
    <3> DEFINE k == Slot(q, j)
    <3>1. k = IF next + j \leq n THEN next + j - 1 ELSE next + j - 1 - n
      BY <1>1, <1>5, <1>13, <2>1 DEF Slot
    <3>2. j < n => Slot(r, j + 1) = IF e + j < n THEN e + j ELSE e + j - n
      BY <1>1, <1>13 DEF Slot
    <3> HIDE DEF k
    <3>3. k \in 0 .. n - 1 /\ (j < n => k = Slot(r, j + 1)) /\ (k = e <=> j = n)
      <4>1. n \in Nat /\ e \in 0 .. n - 1 /\ j \in 1 .. n
        BY <1>1, <1>13
      <4>2. next = IF e = n - 1 THEN 0 ELSE e + 1
        BY <1>13
      <4> HIDE DEF n, e, next
      <4>3. CASE e = n - 1
        <5>1. k = j - 1
          BY <3>1, <4>1, <4>2, <4>3
        <5>2. QED
          BY <3>2, <4>1, <4>3, <5>1
      <4>4. CASE e # n - 1
        <5>1. k = IF e + 1 + j \leq n THEN e + j ELSE e + j - n
          BY <3>1, <4>1, <4>2, <4>4
        <5>2. QED
          BY <3>2, <4>1, <4>4, <5>1
      <4>5. QED
        BY <4>3, <4>4
    <3>4. InOrder(q)[j] = IF j = n THEN loc ELSE r.records[k]
      BY <1>9, <2>1, <3>3 DEF k
    <3>5. j < n => j + 1 \in 1 .. n
      BY <1>1
    <3>6. QED
      BY <1>1, <1>10, <1>11, <2>2, <3>3, <3>4, <3>5
  <2>4. InOrder(q) = kept
    BY <1>9, <2>1, <2>2, <2>3, SeqEqual
  <2>5. QED
    BY <1>1, <1>5, <1>7, <1>8, <2>1, <2>2, <2>4 DEF Seen, List!Visits, q, all, s
<1>14. QED
  BY <1>1, <1>12, <1>13

(* A new location is recorded by the ring as by the list. *)
LEMMA RecordIsRecord ==
  ASSUME NEW r, IsRing(r), NEW loc \in Location
  PROVE  IsRing(Record(r, loc)) /\ Seen(Record(r, loc)) = List!Record(Seen(r), loc)
<1> DEFINE q == IF r.len = 0 THEN r ELSE [r EXCEPT !.records = Rotate(r, r.pos)]
           v == Seen(r)
           moved == IF v.at = 0 THEN v.list ELSE Append(List!RemoveAt(v.list, v.at), v.list[v.at])
           kept == Kept(Append(moved, loc))
<1>1. r.len \in Nat
  BY SizeAssumption DEF IsRing, Dimensions
<1>2. IsRing(q) /\ InOrder(q) = moved
  <2>1. CASE r.len = 0
    BY <2>1, PlaceOfRing
  <2>2. CASE r.len > 0
    <3>1. q = [r EXCEPT !.records = Rotate(r, r.pos)]
      BY <2>2
    <3>2. moved = Append(List!RemoveAt(InOrder(r), Rank(r, r.pos)), InOrder(r)[Rank(r, r.pos)])
      BY <2>2, PlaceOfRing
    <3> HIDE DEF q, moved
    <3>3. QED
      BY <2>2, <3>1, <3>2, RotateInOrder
  <2>3. QED
    BY <1>1, <2>1, <2>2
<1>3. Record(r, loc) = RingPush(q, loc)
  BY DEF Record
<1>4. List!Record(v, loc) = List!Visits(kept, Len(kept))
  BY DEF List!Record, Kept
<1> HIDE DEF q, moved, v, kept
<1>5. IsRing(RingPush(q, loc)) /\ Seen(RingPush(q, loc)) = List!Visits(kept, Len(kept))
  BY <1>2, PushIsAppend DEF kept
<1>6. QED
  BY <1>3, <1>4, <1>5 DEF v

-----------------------------------------------------------------------------
(* The steps. *)

LEMMA LeaveIsLeave ==
  ASSUME NEW r, IsRing(r), NEW from \in Anywhere
  PROVE  IsRing(Leave(r, from)) /\ Seen(Leave(r, from)) = List!Leave(Seen(r), from)
<1>1. CASE from = Nowhere
  BY <1>1 DEF Leave, List!Leave
<1>2. CASE from # Nowhere /\ Matches(r, from)
  <2>1. List!Follows(Seen(r), from) /\ from \in Location
    BY <1>2, MatchIsFollow DEF Anywhere
  <2>2. Leave(r, from) = UpdateCurrent(r, from) /\ List!Leave(Seen(r), from) = List!Update(Seen(r), from)
    BY <1>2, <2>1 DEF Leave, List!Leave
  <2>3. QED
    BY <1>2, <2>1, <2>2, UpdateIsUpdate
<1>3. CASE from # Nowhere /\ ~Matches(r, from)
  <2>1. ~List!Follows(Seen(r), from) /\ from \in Location
    BY <1>3, MatchIsFollow DEF Anywhere
  <2>2. Leave(r, from) = Record(r, from) /\ List!Leave(Seen(r), from) = List!Record(Seen(r), from)
    BY <1>3, <2>1 DEF Leave, List!Leave
  <2>3. QED
    BY <2>1, <2>2, RecordIsRecord
<1>4. QED
  BY <1>1, <1>2, <1>3

LEMMA ArriveIsArrive ==
  ASSUME NEW r, IsRing(r), NEW to \in Anywhere
  PROVE  IsRing(Arrive(r, to)) /\ Seen(Arrive(r, to)) = List!Arrive(Seen(r), to)
<1> DEFINE there == to = Nowhere \/ (r.len > 0 /\ Current(r) = to)
           thereInList == to = Nowhere \/ (Seen(r).at > 0 /\ Seen(r).list[Seen(r).at] = to)
<1>1. there <=> thereInList
  <2>1. r.len > 0 => Seen(r).list[Seen(r).at] = Current(r)
    BY PlaceOfRing, ListOfRing, SizeAssumption DEF IsRing, Dimensions
  <2>2. Seen(r).at > 0 <=> r.len > 0
    BY PlaceOfRing
  <2>3. QED
    BY <2>1, <2>2
<1>2. CASE there
  BY <1>1, <1>2 DEF Arrive, List!Arrive
<1>3. CASE ~there
  <2>1. Arrive(r, to) = Record(r, to) /\ List!Arrive(Seen(r), to) = List!Record(Seen(r), to)
    BY <1>1, <1>3 DEF Arrive, List!Arrive
  <2>2. to \in Location
    BY <1>3 DEF Anywhere
  <2>3. QED
    BY <2>1, <2>2, RecordIsRecord
<1>4. QED
  BY <1>2, <1>3

(* The ring and the list after a move, by whatever index. *)
Moved(r, from, i) == [(IF Matches(r, from) THEN UpdateCurrent(r, from) ELSE r) EXCEPT !.pos = i]
MovedList(v, from, i) == [(IF List!Follows(v, from) THEN List!Update(v, from) ELSE v) EXCEPT !.at = i]

LEMMA MoveIsMove ==
  ASSUME NEW r, IsRing(r), r.len > 0, NEW from \in Anywhere, NEW k \in 0 .. r.len - 1
  PROVE  IsRing(Moved(r, from, k)) /\ Seen(Moved(r, from, k)) = MovedList(Seen(r), from, Rank(r, k))
<1> DEFINE q == IF Matches(r, from) THEN UpdateCurrent(r, from) ELSE r
           v == IF List!Follows(Seen(r), from) THEN List!Update(Seen(r), from) ELSE Seen(r)
           t == [q EXCEPT !.pos = k]
<1>1. IsRing(q) /\ Seen(q) = v /\ q.len = r.len /\ q.ringEnd = r.ringEnd
  <2>1. CASE Matches(r, from)
    <3>1. from \in Location
      BY <2>1 DEF Matches, Anywhere
    <3>2. UpdateCurrent(r, from).len = r.len /\ UpdateCurrent(r, from).ringEnd = r.ringEnd
      BY DEF UpdateCurrent, IsRing, Ring
    <3>3. q = UpdateCurrent(r, from) /\ v = List!Update(Seen(r), from)
      BY <2>1, MatchIsFollow
    <3> HIDE DEF q, v
    <3>4. QED
      BY <2>1, <3>1, <3>2, <3>3, UpdateIsUpdate
  <2>2. CASE ~Matches(r, from)
    BY <2>2, MatchIsFollow
  <2>3. QED
    BY <2>1, <2>2
<1>2. Moved(r, from, k) = t /\ MovedList(Seen(r), from, Rank(r, k)) = [v EXCEPT !.at = Rank(r, k)]
  BY DEF Moved, MovedList
<1> HIDE DEF q, v
<1>3. t = Ring(q.records, q.len, k, q.ringEnd)
  BY <1>1 DEF IsRing, Ring
<1> HIDE DEF t
<1>4. t.records = q.records /\ t.len = r.len /\ t.pos = k /\ t.ringEnd = r.ringEnd
  BY <1>1, <1>3 DEF Ring
<1>5. Dimensions(t)
  BY <1>1, <1>4, SizeAssumption DEF IsRing, Dimensions
<1>6. IsRing(t)
  BY <1>1, <1>3, <1>4, <1>5 DEF IsRing
<1>7. Rank(t, t.pos) = Rank(r, k)
  BY <1>4 DEF Rank
<1>8. InOrder(t) = InOrder(q)
  <2>1. \A j \in 1 .. r.len : Slot(t, j) = Slot(q, j)
    BY <1>1, <1>4 DEF Slot
  <2>2. QED
    BY <1>1, <1>4, <2>1 DEF InOrder
<1>9. Seen(t) = List!Visits(InOrder(q), Rank(r, k))
  BY <1>4, <1>7, <1>8 DEF Seen
<1>10. [v EXCEPT !.at = Rank(r, k)] = List!Visits(InOrder(q), Rank(r, k))
  BY <1>1 DEF Seen, List!Visits
<1>11. QED
  BY <1>2, <1>6, <1>9, <1>10 DEF t

(* The variables of the list become what is seen of the ring. *)
LEMMA BecomesSeen ==
  ASSUME RingIInv, RingIInv'
  PROVE  /\ List!Visits(Unwrapped, Place) = Seen(ring)
         /\ \A v : v = Seen(ring') => Unwrapped' = v.list /\ Place' = v.at
<1>1. List!Visits(Unwrapped, Place) = Seen(ring)
  BY SeenOfRing
<1>2. (Seen(ring) = List!Visits(Unwrapped, Place))'
  BY SeenOfRing, PTL
<1>3. Seen(ring') = List!Visits(Unwrapped', Place')
  BY <1>2
<1>4. QED
  BY <1>1, <1>3 DEF List!Visits

LEMMA InitRingIInv == RingInit => RingIInv
<1> SUFFICES ASSUME RingInit PROVE RingIInv
  OBVIOUS
<1>1. ring = Ring(<<>>, 0, 0, 0) /\ disabled = FALSE
  BY DEF RingInit
<1>2. ring.records = <<>> /\ ring.len = 0 /\ ring.pos = 0 /\ ring.ringEnd = 0
  BY <1>1 DEF Ring
<1>3. <<>> \in [0 .. 0 - 1 -> Location]
  <2>1. 0 .. 0 - 1 = {}
    OBVIOUS
  <2>2. <<>> \in [{} -> Location]
    OBVIOUS
  <2>3. QED
    BY <2>1, <2>2
<1>4. Dimensions(ring)
  BY <1>2, SizeAssumption DEF Dimensions
<1>5. QED
  BY <1>1, <1>2, <1>3, <1>4 DEF RingIInv, IsRing

(* Whatever a step does, the ring stays a ring and the list does the same. *)
LEMMA JumpStep ==
  ASSUME RingIInv, NEW from \in Anywhere, NEW to \in Anywhere, RecordJump(from, to)
  PROVE  RingIInv' /\ List!Jump(from, to)
<1> DEFINE left == Leave(ring, from)
           v == List!Arrive(List!Leave(Seen(ring), from), to)
<1>1. IsRing(left) /\ Seen(left) = List!Leave(Seen(ring), from)
  BY LeaveIsLeave DEF RingIInv
<1>2. ring' = Arrive(left, to) /\ disabled' = disabled /\ ~disabled
  BY DEF RecordJump
<1> HIDE DEF left
<1>3. IsRing(ring') /\ Seen(ring') = v
  BY <1>1, <1>2, ArriveIsArrive
<1>4. RingIInv'
  BY <1>2, <1>3 DEF RingIInv
<1> HIDE DEF v
<1>5. List!Visits(Unwrapped, Place) = Seen(ring) /\ Unwrapped' = v.list /\ Place' = v.at
  BY <1>3, <1>4, BecomesSeen
<1>6. QED
  BY <1>2, <1>4, <1>5 DEF List!Jump, List!Becomes, v

LEMMA MoveStep ==
  ASSUME RingIInv, ring.len > 0, NEW from \in Anywhere, NEW k \in 0 .. ring.len - 1, MoveTo(from, k)
  PROVE  RingIInv' /\ List!Move(from, Rank(ring, k))
<1> DEFINE v == MovedList(Seen(ring), from, Rank(ring, k))
<1>1. ring' = Moved(ring, from, k) /\ disabled' = disabled
  BY DEF MoveTo, Moved
<1>2. IsRing(ring') /\ Seen(ring') = v
  BY <1>1, MoveIsMove DEF RingIInv
<1>3. RingIInv'
  BY <1>1, <1>2 DEF RingIInv
<1> HIDE DEF v
<1>4. List!Visits(Unwrapped, Place) = Seen(ring) /\ Unwrapped' = v.list /\ Place' = v.at
  BY <1>2, <1>3, BecomesSeen
<1>5. Place > 0 /\ Rank(ring, k) \in DOMAIN Unwrapped
  <2>1. Place = Seen(ring).at /\ Unwrapped = InOrder(ring)
    BY <1>4, PlaceOfRing DEF RingIInv, List!Visits
  <2>2. Rank(ring, k) \in 1 .. ring.len
    BY SlotsAndRanks DEF RingIInv, IsRing
  <2>3. QED
    BY <2>1, <2>2, PlaceOfRing DEF RingIInv, InOrder
<1>6. QED
  BY <1>1, <1>3, <1>4, <1>5 DEF List!Move, List!Becomes, MovedList, v

LEMMA RingNextStep == RingIInv /\ [RingNext]_ringVars => RingIInv' /\ [List!Next]_(List!vars)
<1> SUFFICES ASSUME RingIInv, [RingNext]_ringVars
             PROVE  RingIInv' /\ [List!Next]_(List!vars)
  OBVIOUS
<1>1. ASSUME NEW from \in Anywhere, NEW to \in Anywhere, RecordJump(from, to)
      PROVE  RingIInv' /\ List!Next
  BY <1>1, JumpStep DEF List!Next, List!Location, Anywhere, Location
<1>2. ASSUME NEW from \in Anywhere, MovePrev(from)
      PROVE  RingIInv' /\ List!Next
  <2>1. ring.len > 0 /\ MoveTo(from, PrevIndex(ring)) /\ CanMoveBack(ring)
    BY <1>2 DEF MovePrev, CanMoveBack
  <2>2. PrevIndex(ring) \in 0 .. ring.len - 1 /\ Rank(ring, PrevIndex(ring)) = Place - 1
    <3>1. Place = Rank(ring, ring.pos)
      BY <2>1, SeenOfRing, PlaceOfRing DEF RingIInv, List!Visits
    <3>2. QED
      BY <2>1, <3>1, WaysEnd DEF RingIInv, IsRing
  <2>3. RingIInv' /\ List!Move(from, Place - 1)
    BY <2>1, <2>2, MoveStep
  <2>4. QED
    BY <2>3 DEF List!Next, List!Location, Anywhere, Location
<1>3. ASSUME NEW from \in Anywhere, MoveNext(from)
      PROVE  RingIInv' /\ List!Next
  <2>1. ring.len > 0 /\ MoveTo(from, NextIndex(ring)) /\ CanMoveForward(ring)
    BY <1>3 DEF MoveNext, CanMoveForward
  <2>2. NextIndex(ring) \in 0 .. ring.len - 1 /\ Rank(ring, NextIndex(ring)) = Place + 1
    <3>1. Place = Rank(ring, ring.pos)
      BY <2>1, SeenOfRing, PlaceOfRing DEF RingIInv, List!Visits
    <3>2. QED
      BY <2>1, <3>1, WaysEnd DEF RingIInv, IsRing
  <2>3. RingIInv' /\ List!Move(from, Place + 1)
    BY <2>1, <2>2, MoveStep
  <2>4. QED
    BY <2>3 DEF List!Next, List!Location, Anywhere, Location
<1>4. ASSUME NEW enabled \in BOOLEAN, EnableRecording(enabled)
      PROVE  RingIInv' /\ List!Next
  <2>1. ring' = ring /\ disabled' \in BOOLEAN
    BY <1>4 DEF EnableRecording
  <2>2. RingIInv' /\ Unwrapped' = Unwrapped /\ Place' = Place
    BY <2>1 DEF RingIInv, Unwrapped, Place
  <2>3. QED
    BY <2>1, <2>2 DEF List!Next, List!Enable
<1>5. CASE UNCHANGED ringVars
  <2>1. ring' = ring /\ disabled' = disabled
    BY <1>5 DEF ringVars
  <2>2. QED
    BY <2>1 DEF RingIInv, List!vars, Unwrapped, Place
<1>6. QED
  BY <1>1, <1>2, <1>3, <1>4, <1>5 DEF RingNext

-----------------------------------------------------------------------------

(* The ring stays a ring: until it is full its locations are in order from the index 0 up, and    *)
(* then ringEnd is the oldest of them, which the next one replaces.                               *)
THEOREM RingInvariance == RingSpec => []RingIInv
<1>1. RingIInv /\ [RingNext]_ringVars => RingIInv'
  BY RingNextStep
<1>2. QED
  BY InitRingIInv, <1>1, PTL DEF RingSpec

(* Types; and for a ring of any size, the way back and the way forward end where the list does,   *)
(* though the indexes of the ring never do.                                                       *)
THEOREM RingTypeCorrectness == RingSpec => []RingTypeOK
<1>1. RingIInv => RingTypeOK
  <2> SUFFICES ASSUME RingIInv PROVE RingTypeOK
    OBVIOUS
  <2>1. (CanMoveBack(ring) <=> Place > 1) /\ (CanMoveForward(ring) <=> Place < ring.len)
    <3>1. ring.len \in Nat /\ Place = IF ring.len = 0 THEN 0 ELSE Rank(ring, ring.pos)
      BY SeenOfRing, PlaceOfRing, SizeAssumption DEF RingIInv, IsRing, Dimensions, List!Visits
    <3>2. CASE ring.len = 0
      BY <3>1, <3>2 DEF CanMoveBack, CanMoveForward
    <3>3. CASE ring.len > 0
      BY <3>1, <3>3, WaysEnd DEF RingIInv, IsRing
    <3>4. QED
      BY <3>1, <3>2, <3>3
  <2>2. QED
    BY <2>1 DEF RingIInv, IsRing, Dimensions, RingTypeOK
<1>2. QED
  BY <1>1, RingInvariance, PTL

(* The ring is a list that nothing wraps around in: every jump, move and return does to the       *)
(* locations in their order what it does to those of the list, for a ring of any size.            *)
THEOREM RingImplementsList == RingSpec => RingIsList
<1>1. RingInit => List!Init
  BY DEF RingInit, List!Init, Ring, Unwrapped, Place
<1>2. RingIInv /\ [RingNext]_ringVars => [List!Next]_(List!vars)
  BY RingNextStep
<1>3. QED
  BY <1>1, <1>2, RingInvariance, PTL DEF RingSpec, RingIsList, List!Spec

=============================================================================
