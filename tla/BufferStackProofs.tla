------------------------- MODULE BufferStackProofs -------------------------
(***************************************************************************)
(* Proofs about BufferStack, for every set of files and positions, every   *)
(* size of the history and any number of waiting pickers: the prompts that *)
(* are opened, turned into each other and cancelled leave no trace, the    *)
(* way back leads to the place left, and a late list of files does not     *)
(* change the selection of a picker that did not ask for it.               *)
(*                                                                         *)
(* The matches of a picker are a fold over the open buffers; the part on   *)
(* folds rests on induction over the numbers in the form of a set.         *)
(***************************************************************************)
EXTENDS BufferStack, SequenceTheorems, FiniteSetTheorems, WellFoundedInduction, TLAPS
-----------------------------------------------------------------------------
(* Induction over the numbers. *)

LEMMA SmallestNat ==
  ASSUME NEW T, T \subseteq Nat, T # {}
  PROVE  \E x \in T : \A y \in T : ~ (y < x)
<1>1. \E x \in T : \A y \in T : ~ (<<y, x>> \in OpToRel(<, Nat))
  BY WFMin, NatLessThanWellFounded
<1>2. QED
  BY <1>1 DEF OpToRel

(* A set that holds 0, and with a number the next one, holds them all. *)
LEMMA InductiveSet ==
  ASSUME NEW S, 0 \in S, \A n \in Nat : n \in S => n + 1 \in S
  PROVE  \A n \in Nat : n \in S
<1> SUFFICES ASSUME NEW m \in Nat, m \notin S
             PROVE  FALSE
  OBVIOUS
<1> DEFINE T == {n \in Nat : n \notin S}
<1>1. PICK x \in T : \A y \in T : ~ (y < x)
  BY SmallestNat
<1>2. x - 1 \in Nat /\ x - 1 \notin T
  BY <1>1
<1>3. QED
  BY <1>1, <1>2

-----------------------------------------------------------------------------
(* Folds. *)

(* f folds Op over the elements of s at any set of places up to n. *)
IsFold(Op(_, _), b, s, n, f) ==
  f = [t \in SUBSET (1 .. n) |-> IF t = {} THEN b ELSE Op(f[t \ {Max(t)}], s[Max(t)])]

LEMMA MaxIs ==
  ASSUME NEW n \in Nat, NEW t, t \subseteq 1 .. n, n \in t
  PROVE  Max(t) = n
<1>1. \A y \in t : n \geq y
  OBVIOUS
<1>2. \A x \in t : (\A y \in t : x \geq y) => x = n
  BY <1>1
<1>3. QED
  BY <1>1, <1>2, Zenon DEF Max

LEMMA FoldOneMore ==
  ASSUME NEW Op(_, _), NEW b, NEW s, NEW n \in Nat, NEW f, IsFold(Op, b, s, n, f)
  PROVE  \E g : IsFold(Op, b, s, n + 1, g)
<1> DEFINE g == [t \in SUBSET (1 .. n + 1) |->
                   IF n + 1 \in t THEN Op(f[t \ {n + 1}], s[n + 1]) ELSE f[t]]
<1>1. ASSUME NEW t \in SUBSET (1 .. n + 1)
      PROVE  g[t] = IF t = {} THEN b ELSE Op(g[t \ {Max(t)}], s[Max(t)])
  <2>1. \A u \in SUBSET (1 .. n) : u \in SUBSET (1 .. n + 1) /\ g[u] = f[u]
    OBVIOUS
  <2>2. \A u \in SUBSET (1 .. n) : f[u] = IF u = {} THEN b ELSE Op(f[u \ {Max(u)}], s[Max(u)])
    BY Zenon DEF IsFold
  <2>3. CASE n + 1 \in t
    <3>1. n + 1 \in Nat /\ t \subseteq 1 .. n + 1
      OBVIOUS
    <3>2. Max(t) = n + 1
      BY <3>1, <2>3, MaxIs
    <3>3. t \ {n + 1} \in SUBSET (1 .. n)
      BY <2>3
    <3>4. g[t] = Op(f[t \ {n + 1}], s[n + 1])
      BY <2>3
    <3>5. QED
      BY <3>2, <3>3, <3>4, <2>1, <2>3
  <2>4. CASE n + 1 \notin t
    <3>1. \A x \in t : x \in 1 .. n
      BY <2>4
    <3>2. t \in SUBSET (1 .. n) /\ t \ {Max(t)} \in SUBSET (1 .. n)
      BY <3>1
    <3>3. QED
      BY <3>2, <2>1, <2>2
  <2>5. QED
    BY <2>3, <2>4
<1>2. IsFold(Op, b, s, n + 1, g)
  <2> DEFINE h == [t \in SUBSET (1 .. n + 1) |->
                     IF t = {} THEN b ELSE Op(g[t \ {Max(t)}], s[Max(t)])]
  <2>1. DOMAIN g = SUBSET (1 .. n + 1) /\ g = [t \in DOMAIN g |-> g[t]]
    BY Zenon
  <2> HIDE DEF g
  <2>2. g = h
    BY <1>1, <2>1, Zenon
  <2>3. QED
    BY <2>2, Zenon DEF IsFold
<1> HIDE DEF g
<1>3. QED
  BY <1>2

LEMMA FoldExists ==
  ASSUME NEW Op(_, _), NEW b, NEW s, NEW n \in Nat
  PROVE  \E f : IsFold(Op, b, s, n, f)
<1> DEFINE S == {m \in Nat : \E f : IsFold(Op, b, s, m, f)}
<1>1. 0 \in S
  <2> DEFINE f == [t \in SUBSET (1 .. 0) |-> b]
  <2>1. SUBSET (1 .. 0) = {{}}
    OBVIOUS
  <2>2. IsFold(Op, b, s, 0, f)
    BY <2>1 DEF IsFold
  <2>3. QED
    BY <2>2
<1>2. \A m \in Nat : m \in S => m + 1 \in S
  BY FoldOneMore
<1> HIDE DEF S
<1>3. n \in S
  BY <1>1, <1>2, InductiveSet
<1>4. QED
  BY <1>3 DEF S

(* FoldLeft is such a fold. *)
LEMMA FoldIsFold ==
  ASSUME NEW Op(_, _), NEW b, NEW s, NEW n \in Nat, DOMAIN s = 1 .. n
  PROVE  \E f : IsFold(Op, b, s, n, f) /\ FoldLeft(Op, b, s) = f[1 .. n]
<1> DEFINE it == CHOOSE f :
                   f = [t \in SUBSET (DOMAIN s) |-> IF t = {} THEN b ELSE Op(f[t \ {Max(t)}], s[Max(t)])]
<1>1. FoldLeft(Op, b, s) = it[DOMAIN s]
  BY DEF FoldLeft, MapThenFoldSet
<1>2. \E f : f = [t \in SUBSET (DOMAIN s) |-> IF t = {} THEN b ELSE Op(f[t \ {Max(t)}], s[Max(t)])]
  <2>1. PICK f : IsFold(Op, b, s, n, f)
    BY FoldExists
  <2>2. f = [t \in SUBSET (DOMAIN s) |-> IF t = {} THEN b ELSE Op(f[t \ {Max(t)}], s[Max(t)])]
    BY <2>1, Zenon DEF IsFold
  <2>3. QED
    BY <2>2
<1>3. it = [t \in SUBSET (DOMAIN s) |-> IF t = {} THEN b ELSE Op(it[t \ {Max(t)}], s[Max(t)])]
  BY <1>2, Zenon
<1> HIDE DEF it
<1>4. IsFold(Op, b, s, n, it)
  BY <1>3 DEF IsFold
<1>5. QED
  BY <1>1, <1>4

(* c are the values on the way of a fold. *)
IsRun(Op(_, _), b, s, n, c) == c[0] = b /\ \A i \in 1 .. n : c[i] = Op(c[i - 1], s[i])

LEMMA FoldRuns ==
  ASSUME NEW Op(_, _), NEW b, NEW s, NEW n \in Nat, DOMAIN s = 1 .. n
  PROVE  \E c : IsRun(Op, b, s, n, c) /\ FoldLeft(Op, b, s) = c[n]
<1>1. PICK f : IsFold(Op, b, s, n, f) /\ FoldLeft(Op, b, s) = f[1 .. n]
  BY FoldIsFold
<1>2. \A t \in SUBSET (1 .. n) : f[t] = IF t = {} THEN b ELSE Op(f[t \ {Max(t)}], s[Max(t)])
  BY <1>1, Zenon DEF IsFold
<1> DEFINE c == [i \in 0 .. n |-> f[1 .. i]]
<1>3. c[0] = b
  <2>1. 1 .. 0 = {} /\ c[0] = f[1 .. 0]
    OBVIOUS
  <2>2. {} \in SUBSET (1 .. n)
    OBVIOUS
  <2> HIDE DEF c
  <2>3. QED
    BY <2>1, <2>2, <1>2
<1>4. ASSUME NEW i \in 1 .. n
      PROVE  c[i] = Op(c[i - 1], s[i])
  <2>1. Max(1 .. i) = i
    BY MaxIs
  <2>2. (1 .. i) \ {i} = 1 .. i - 1
    OBVIOUS
  <2>3. 1 .. i \in SUBSET (1 .. n) /\ 1 .. i # {}
    OBVIOUS
  <2>4. f[1 .. i] = Op(f[1 .. i - 1], s[i])
    BY <2>1, <2>2, <2>3, <1>2
  <2>5. c[i] = f[1 .. i] /\ c[i - 1] = f[1 .. i - 1]
    OBVIOUS
  <2> HIDE DEF c
  <2>6. QED
    BY <2>4, <2>5
<1>5. c[n] = f[1 .. n]
  OBVIOUS
<1> HIDE DEF c
<1>6. QED
  BY <1>1, <1>3, <1>4, <1>5 DEF IsRun

-----------------------------------------------------------------------------
(* Sequences. *)

LEMMA FrontOf ==
  ASSUME NEW S, NEW q \in Seq(S), q # <<>>
  PROVE  /\ Front(q) \in Seq(S) /\ Len(Front(q)) = Len(q) - 1
         /\ Len(q) \in Nat \ {0} /\ DOMAIN q = 1 .. Len(q) /\ Last(q) \in S /\ Last(q) = q[Len(q)]
         /\ \A j \in 1 .. Len(q) - 1 : Front(q)[j] = q[j]
<1>1. Len(q) \in Nat \ {0} /\ DOMAIN q = 1 .. Len(q)
  BY LenProperties, EmptySeq
<1>2. \A j \in 1 .. Len(q) : q[j] \in S
  BY <1>1, ElementOfSeq
<1>3. Front(q) \in Seq(S) /\ Len(Front(q)) = Len(q) - 1 /\ \A j \in 1 .. Len(q) - 1 : Front(q)[j] = q[j]
  BY <1>1, <1>2, SMT DEF Front
<1>4. QED
  BY <1>1, <1>2, <1>3 DEF Last

LEMMA ReverseOf ==
  ASSUME NEW S, NEW q \in Seq(S)
  PROVE  /\ Reverse(q) \in Seq(S) /\ Len(Reverse(q)) = Len(q)
         /\ \A j \in 1 .. Len(q) : Reverse(q)[j] = q[Len(q) - j + 1]
<1>1. Len(q) \in Nat /\ \A j \in 1 .. Len(q) : q[j] \in S
  BY LenProperties, ElementOfSeq
<1>2. \A j \in 1 .. Len(q) : Len(q) - j + 1 \in 1 .. Len(q)
  BY <1>1
<1>3. Reverse(q) \in [1 .. Len(q) -> S]
  BY <1>1, <1>2 DEF Reverse
<1>4. Reverse(q) \in Seq(S)
  BY <1>1, <1>3, IsASeq
<1>5. Len(Reverse(q)) = Len(q)
  BY <1>1, <1>3, <1>4, LenProperties
<1>6. QED
  BY <1>4, <1>5 DEF Reverse

LEMMA RemovedBefore ==
  ASSUME NEW S, NEW q \in Seq(S), NEW i \in 1 .. Len(q) - 1
  PROVE  LET u == RemoveAt(q, i) IN
           /\ u \in Seq(S) /\ Len(u) = Len(q) - 1
           /\ \A j \in 1 .. Len(q) - 1 : u[j] = IF j < i THEN q[j] ELSE q[j + 1]
<1> DEFINE n == Len(q)
           u == RemoveAt(q, i)
<1>1. n \in Nat /\ i \in 1 .. n /\ DOMAIN q = 1 .. n /\ q[i] \in S
  BY LenProperties, ElementOfSeq
<1>2. /\ u \in Seq(S) /\ Len(u) = n - 1
      /\ \A j \in 1 .. n - 1 : u[j] = IF j < i THEN q[j] ELSE q[j + 1]
  BY <1>1, SMT DEF RemoveAt
<1>3. QED
  BY <1>2

LEMMA RemovedFromSeq ==
  ASSUME NEW S, NEW q \in Seq(S), NEW i \in 1 .. Len(q)
  PROVE  LET u == RemoveAt(q, i) IN
           /\ u \in Seq(S) /\ Len(u) = Len(q) - 1
           /\ \A j \in 1 .. Len(q) - 1 : u[j] = IF j < i THEN q[j] ELSE q[j + 1]
<1> DEFINE n == Len(q)
           u == RemoveAt(q, i)
           IsLeft == /\ u \in Seq(S) /\ Len(u) = n - 1
                     /\ \A j \in 1 .. n - 1 : u[j] = IF j < i THEN q[j] ELSE q[j + 1]
<1>1. n \in Nat /\ i \in 1 .. n
  BY LenProperties
<1>2. CASE i < n
  <2>1. i \in 1 .. n - 1
    BY <1>1, <1>2
  <2>2. QED
    BY <2>1, RemovedBefore
<1>3. CASE i = n
  <2>1. q # <<>>
    BY <1>1, EmptySeq
  <2>2. Front(q) \in Seq(S) /\ Len(Front(q)) = n - 1 /\ \A j \in 1 .. n - 1 : Front(q)[j] = q[j]
    BY <2>1, FrontOf
  <2>3. SubSeq(q, n + 1, n) = <<>>
    BY <1>1, SubSeqEmpty
  <2>4. u = Front(q) \o <<>>
    BY <1>3, <2>3 DEF RemoveAt, Front
  <2>5. u = Front(q)
    BY <2>2, <2>4, ConcatEmptySeq
  <2> HIDE DEF u
  <2>6. \A j \in 1 .. n - 1 : j < i
    BY <1>1, <1>3
  <2>7. IsLeft
    BY <2>2, <2>5, <2>6
  <2>8. QED
    BY <2>7 DEF u
<1>4. i < n \/ i = n
  BY <1>1
<1>5. QED
  BY <1>2, <1>3, <1>4

(* q with its element at i moved to the end. *)
IsMoved(q, i, t) ==
  /\ Len(t) = Len(q)
  /\ \A j \in 1 .. Len(q) : t[j] = IF j < i THEN q[j] ELSE IF j < Len(q) THEN q[j + 1] ELSE q[i]

LEMMA MovedSeq ==
  ASSUME NEW S, NEW q \in Seq(S), NEW i \in 1 .. Len(q)
  PROVE  LET t == Append(RemoveAt(q, i), q[i]) IN t \in Seq(S) /\ IsMoved(q, i, t)
<1> DEFINE n == Len(q)
           u == RemoveAt(q, i)
           t == Append(u, q[i])
<1>1. n \in Nat /\ i \in 1 .. n /\ q[i] \in S
  BY LenProperties, ElementOfSeq
<1>2. /\ u \in Seq(S) /\ Len(u) = n - 1
      /\ \A j \in 1 .. n - 1 : u[j] = IF j < i THEN q[j] ELSE q[j + 1]
  BY RemovedFromSeq
<1> HIDE DEF u
<1>3. /\ t \in Seq(S) /\ Len(t) = Len(u) + 1 /\ t[Len(u) + 1] = q[i]
      /\ \A j \in 1 .. Len(u) : t[j] = u[j]
  BY <1>1, <1>2, AppendProperties
<1> HIDE DEF t
<1>4. Len(t) = n /\ t[n] = q[i] /\ \A j \in 1 .. n - 1 : t[j] = u[j]
  BY <1>1, <1>2, <1>3
<1>5. IsMoved(q, i, t)
  BY <1>1, <1>2, <1>4 DEF IsMoved
<1>6. QED
  BY <1>3, <1>5 DEF t, u

LEMMA MovedStaysInjective ==
  ASSUME NEW S, NEW q \in Seq(S), NEW i \in 1 .. Len(q), NEW t \in Seq(S), IsMoved(q, i, t), IsInjective(q)
  PROVE  /\ IsInjective(t) /\ t # <<>> /\ Len(t) = Len(q) /\ t[Len(t)] = q[i]
         /\ Range(t) = Range(q)
<1> DEFINE n == Len(q)
           f(j) == IF j < i THEN j ELSE IF j < n THEN j + 1 ELSE i
           g(k) == IF k < i THEN k ELSE IF k = i THEN n ELSE k - 1
<1>1. n \in Nat /\ i \in 1 .. n /\ DOMAIN q = 1 .. n /\ DOMAIN t = 1 .. n /\ Len(t) = n
  BY LenProperties DEF IsMoved
<1>2. \A j \in 1 .. n : t[j] = q[f(j)] /\ f(j) \in 1 .. n
  BY <1>1 DEF IsMoved
<1> HIDE DEF n
<1>3. \A k \in 1 .. n : g(k) \in 1 .. n /\ f(g(k)) = k
  BY <1>1
<1>4. \A j, k \in 1 .. n : f(j) = f(k) => j = k
  BY <1>1
<1>5. f(n) = i
  BY <1>1
<1> HIDE DEF f, g
<1>6. IsInjective(t)
  BY <1>1, <1>2, <1>4 DEF IsInjective
<1>7. Range(t) = Range(q)
  <2>1. \A x \in Range(t) : x \in Range(q)
    BY <1>1, <1>2 DEF Range
  <2>2. ASSUME NEW k \in 1 .. n PROVE q[k] \in Range(t)
    <3>1. t[g(k)] = q[k] /\ g(k) \in DOMAIN t
      BY <1>1, <1>2, <1>3
    <3>2. QED
      BY <3>1 DEF Range
  <2>3. \A x \in Range(q) : x \in Range(t)
    BY <2>2, <1>1 DEF Range
  <2>4. QED
    BY <2>1, <2>3
<1>8. t[n] = q[i]
  BY <1>1, <1>2, <1>5
<1>9. t # <<>>
  BY <1>1, EmptySeq
<1>10. QED
  BY <1>1, <1>6, <1>7, <1>8, <1>9

LEMMA Appended ==
  ASSUME NEW S, NEW q \in Seq(S), NEW x \in S
  PROVE  /\ Append(q, x) \in Seq(S) /\ Append(q, x) # <<>> /\ Len(Append(q, x)) = Len(q) + 1
         /\ Append(q, x)[Len(q) + 1] = x /\ \A j \in 1 .. Len(q) : Append(q, x)[j] = q[j]
         /\ Last(Append(q, x)) = x /\ Range(Append(q, x)) = Range(q) \cup {x}
         /\ (IsInjective(q) /\ x \notin Range(q) => IsInjective(Append(q, x)))
<1> DEFINE n == Len(q)
           t == Append(q, x)
<1>1. n \in Nat /\ DOMAIN q = 1 .. n
  BY LenProperties
<1>2. /\ t \in Seq(S) /\ Len(t) = n + 1 /\ t[n + 1] = x
      /\ \A j \in 1 .. n : t[j] = q[j]
  BY AppendProperties
<1> HIDE DEF t
<1>3. DOMAIN t = 1 .. n + 1
  BY <1>2, LenProperties
<1>4. Range(t) = Range(q) \cup {x}
  <2>1. \A y \in Range(t) : y \in Range(q) \cup {x}
    BY <1>1, <1>2, <1>3 DEF Range
  <2>2. \A y \in Range(q) : y \in Range(t)
    BY <1>1, <1>2, <1>3 DEF Range
  <2>3. x \in Range(t)
    <3>1. n + 1 \in DOMAIN t
      BY <1>1, <1>3
    <3>2. QED
      BY <1>2, <3>1 DEF Range
  <2>4. QED
    BY <2>1, <2>2, <2>3
<1>5. IsInjective(q) /\ x \notin Range(q) => IsInjective(t)
  BY <1>1, <1>2, <1>3 DEF IsInjective, Range
<1>6. t # <<>>
  BY <1>2, <1>1, EmptySeq
<1>7. QED
  BY <1>2, <1>4, <1>5, <1>6 DEF Last, t

-----------------------------------------------------------------------------
(* The matches of a picker. *)

LEMMA MatchingRuns ==
  ASSUME NEW query, NEW s, NEW n \in Nat, DOMAIN s = 1 .. n
  PROVE  \E c : /\ Matching(query, s) = c[n]
                /\ c[0] = <<>>
                /\ \A i \in 1 .. n : c[i] = IF s[i] \in query THEN Append(c[i - 1], s[i]) ELSE c[i - 1]
<1>1. PICK c : /\ IsRun(LAMBDA found, p : IF p \in query THEN Append(found, p) ELSE found, <<>>, s, n, c)
               /\ FoldLeft(LAMBDA found, p : IF p \in query THEN Append(found, p) ELSE found, <<>>, s) = c[n]
  BY FoldRuns
<1>2. /\ c[0] = <<>>
      /\ \A i \in 1 .. n : c[i] = IF s[i] \in query THEN Append(c[i - 1], s[i]) ELSE c[i - 1]
  BY <1>1 DEF IsRun
<1>3. QED
  BY <1>1, <1>2 DEF Matching

(* The matches are paths of s, each one once, and all of them if the query matches every path. *)
LEMMA MatchingIs ==
  ASSUME NEW query, NEW s \in Seq(Path), IsInjective(s)
  PROVE  LET m == Matching(query, s) IN
           /\ m \in Seq(Path) /\ IsInjective(m) /\ Range(m) \subseteq Range(s)
           /\ query = Path => m = s
<1>1. Len(s) \in Nat /\ DOMAIN s = 1 .. Len(s) /\ \A i \in 1 .. Len(s) : s[i] \in Path
  BY LenProperties, ElementOfSeq
<1>2. PICK c : /\ Matching(query, s) = c[Len(s)]
               /\ c[0] = <<>>
               /\ \A i \in 1 .. Len(s) : c[i] = IF s[i] \in query THEN Append(c[i - 1], s[i]) ELSE c[i - 1]
  BY <1>1, MatchingRuns
<1> DEFINE Good(k) ==
             /\ c[k] \in Seq(Path) /\ IsInjective(c[k])
             /\ Range(c[k]) \subseteq { s[j] : j \in 1 .. k }
             /\ query = Path => Len(c[k]) = k /\ \A j \in 1 .. k : c[k][j] = s[j]
           S == {k \in Nat : k \leq Len(s) => Good(k)}
<1>3. 0 \in S
  <2>1. Good(0)
    BY <1>2, EmptySeq DEF IsInjective, Range
  <2>2. QED
    BY <2>1
<1>4. ASSUME NEW k \in Nat, k \in S, k + 1 \leq Len(s)
      PROVE  Good(k + 1)
  <2>1. Good(k) /\ k + 1 \in 1 .. Len(s) /\ k + 1 - 1 = k
    BY <1>1, <1>4
  <2>2. s[k + 1] \notin { s[j] : j \in 1 .. k }
    BY <1>1, <2>1 DEF IsInjective
  <2>3. \A j \in 1 .. k : j \in 1 .. k + 1
    OBVIOUS
  <2>4. { s[j] : j \in 1 .. k } \subseteq { s[j] : j \in 1 .. k + 1 }
    BY <2>3
  <2>5. c[k + 1] = IF s[k + 1] \in query THEN Append(c[k], s[k + 1]) ELSE c[k]
    BY <1>2, <2>1
  <2>6. s[k + 1] \in Path /\ s[k + 1] \in { s[j] : j \in 1 .. k + 1 }
    BY <1>1, <2>1
  <2>7. CASE s[k + 1] \in query
    <3>1. c[k + 1] = Append(c[k], s[k + 1])
      BY <2>5, <2>7
    <3>2. /\ c[k + 1] \in Seq(Path) /\ IsInjective(c[k + 1])
          /\ Range(c[k + 1]) = Range(c[k]) \cup {s[k + 1]}
          /\ Len(c[k + 1]) = Len(c[k]) + 1 /\ c[k + 1][Len(c[k]) + 1] = s[k + 1]
          /\ \A j \in 1 .. Len(c[k]) : c[k + 1][j] = c[k][j]
      BY <2>1, <2>2, <2>6, <3>1, Appended
    <3>3. Range(c[k + 1]) \subseteq { s[j] : j \in 1 .. k + 1 }
      BY <2>1, <2>4, <2>6, <3>2
    <3>4. ASSUME query = Path
          PROVE  Len(c[k + 1]) = k + 1 /\ \A j \in 1 .. k + 1 : c[k + 1][j] = s[j]
      <4>1. Len(c[k]) = k /\ \A j \in 1 .. k : c[k][j] = s[j]
        BY <2>1, <3>4
      <4>2. \A j \in 1 .. k + 1 : j \in 1 .. k \/ j = k + 1
        OBVIOUS
      <4>3. QED
        BY <3>2, <4>1, <4>2
    <3>5. QED
      BY <3>2, <3>3, <3>4
  <2>8. CASE s[k + 1] \notin query
    <3>1. c[k + 1] = c[k] /\ query # Path
      BY <2>5, <2>6, <2>8
    <3>2. QED
      BY <2>1, <2>4, <3>1
  <2>9. QED
    BY <2>7, <2>8
<1> HIDE DEF Good
<1>5. \A k \in Nat : k \in S => k + 1 \in S
  BY <1>4
<1> HIDE DEF S
<1>6. Len(s) \in S
  BY <1>1, <1>3, <1>5, InductiveSet
<1>7. Good(Len(s))
  BY <1>6, <1>1 DEF S
<1> USE DEF Good
<1>8. { s[j] : j \in 1 .. Len(s) } \subseteq Range(s)
  BY <1>1 DEF Range
<1>9. query = Path => c[Len(s)] = s
  <2>1. SUFFICES ASSUME query = Path PROVE c[Len(s)] = s
    OBVIOUS
  <2>2. Len(c[Len(s)]) = Len(s) /\ c[Len(s)] \in Seq(Path) /\ \A j \in 1 .. Len(s) : c[Len(s)][j] = s[j]
    BY <1>7, <2>1
  <2>3. QED
    BY <2>2, SeqEqual
<1>10. QED
  BY <1>2, <1>7, <1>8, <1>9

LEMMA SetToSeqIs ==
  ASSUME NEW T, IsFiniteSet(T)
  PROVE  SetToSeq(T) \in Seq(T) /\ IsInjective(SetToSeq(T))
<1>1. Cardinality(T) \in Nat /\ ExistsBijection(1 .. Cardinality(T), T)
  BY FS_CardinalityType
<1>2. \E f \in [1 .. Cardinality(T) -> T] : IsInjective(f)
  BY <1>1 DEF ExistsBijection, Bijection, Injection, IsInjective
<1>3. SetToSeq(T) \in [1 .. Cardinality(T) -> T] /\ IsInjective(SetToSeq(T))
  BY <1>2 DEF SetToSeq
<1>4. QED
  BY <1>1, <1>3, IsASeq

LEMMA Joined ==
  ASSUME NEW S, NEW q \in Seq(S), NEW r \in Seq(S), IsInjective(q), IsInjective(r),
         \A i \in 1 .. Len(q), j \in 1 .. Len(r) : q[i] # r[j]
  PROVE  q \o r \in Seq(S) /\ IsInjective(q \o r) /\ \A i \in 1 .. Len(q) : (q \o r)[i] = q[i]
<1> DEFINE t == q \o r
           n == Len(q)
<1>1. n \in Nat /\ Len(r) \in Nat /\ DOMAIN q = 1 .. n /\ DOMAIN r = 1 .. Len(r)
  BY LenProperties
<1>2. t \in Seq(S) /\ Len(t) = n + Len(r)
      /\ \A i \in 1 .. n + Len(r) : t[i] = IF i \leq n THEN q[i] ELSE r[i - n]
  BY ConcatProperties
<1> HIDE DEF t
<1>3. DOMAIN t = 1 .. n + Len(r)
  BY <1>2, LenProperties
<1> HIDE DEF n
<1>4. ASSUME NEW i \in 1 .. n + Len(r), NEW j \in 1 .. n + Len(r), t[i] = t[j]
      PROVE  i = j
  <2>1. CASE i \leq n /\ j \leq n
    <3>1. i \in DOMAIN q /\ j \in DOMAIN q /\ q[i] = q[j]
      BY <1>1, <1>2, <1>4, <2>1
    <3>2. QED
      BY <3>1 DEF IsInjective
  <2>2. CASE i > n /\ j > n
    <3>1. i - n \in DOMAIN r /\ j - n \in DOMAIN r /\ r[i - n] = r[j - n]
      BY <1>1, <1>2, <1>4, <2>2
    <3>2. i - n = j - n
      BY <3>1 DEF IsInjective
    <3>3. QED
      BY <1>1, <3>2
  <2>3. CASE i \leq n /\ j > n
    <3>1. i \in 1 .. n /\ j - n \in 1 .. Len(r) /\ q[i] = r[j - n]
      BY <1>1, <1>2, <1>4, <2>3
    <3>2. QED
      BY <3>1 DEF n
  <2>4. CASE i > n /\ j \leq n
    <3>1. j \in 1 .. n /\ i - n \in 1 .. Len(r) /\ q[j] = r[i - n]
      BY <1>1, <1>2, <1>4, <2>4
    <3>2. QED
      BY <3>1 DEF n
  <2>5. (i \leq n \/ i > n) /\ (j \leq n \/ j > n)
    BY <1>1
  <2>6. QED
    BY <2>1, <2>2, <2>3, <2>4, <2>5
<1>5. IsInjective(t)
  BY <1>3, <1>4 DEF IsInjective
<1>6. \A i \in 1 .. n : t[i] = q[i]
  BY <1>1, <1>2
<1>7. QED
  BY <1>2, <1>5, <1>6 DEF t, n

(* The open buffers, the current one last. *)
LEMMA CurrentIsLast ==
  ASSUME NEW q \in Seq(Path), q # <<>>, IsInjective(q)
  PROVE  LET t == Append(Reverse(Front(q)), Last(q)) IN
           /\ t \in Seq(Path) /\ IsInjective(t) /\ Range(t) \subseteq Range(q) /\ Len(t) = Len(q)
           /\ Len(q) > 1 => t[1] = q[Len(q) - 1]
<1> DEFINE f == Front(q)
           r == Reverse(f)
           t == Append(r, Last(q))
           n == Len(q)
<1>1. /\ f \in Seq(Path) /\ Len(f) = n - 1 /\ n \in Nat \ {0} /\ DOMAIN q = 1 .. n
      /\ Last(q) \in Path /\ Last(q) = q[n] /\ \A j \in 1 .. n - 1 : f[j] = q[j]
  BY FrontOf
<1>2. r \in Seq(Path) /\ Len(r) = n - 1 /\ \A j \in 1 .. n - 1 : r[j] = f[n - 1 - j + 1]
  BY <1>1, ReverseOf
<1> HIDE DEF f, r
<1>3. \A j \in 1 .. n - 1 : n - 1 - j + 1 \in 1 .. n - 1 /\ n - 1 - j + 1 = n - j
  BY <1>1
<1>4. DOMAIN r = 1 .. n - 1 /\ \A j \in 1 .. n - 1 : r[j] = q[n - j] /\ n - j \in 1 .. n - 1
  BY <1>1, <1>2, <1>3, LenProperties
<1> HIDE DEF n
<1>5. IsInjective(r)
  <2>1. ASSUME NEW i \in 1 .. n - 1, NEW j \in 1 .. n - 1, q[n - i] = q[n - j]
        PROVE  i = j
    <3>1. n - i \in DOMAIN q /\ n - j \in DOMAIN q
      BY <1>1, <2>1
    <3>2. n - i = n - j
      BY <2>1, <3>1 DEF IsInjective
    <3>3. QED
      BY <1>1, <3>2
  <2>2. QED
    BY <1>4, <2>1 DEF IsInjective
<1>6. Range(r) \subseteq Range(q) /\ Last(q) \in Range(q)
  <2>1. \A j \in 1 .. n - 1 : n - j \in DOMAIN q
    BY <1>1
  <2>2. n \in DOMAIN q
    BY <1>1
  <2>3. QED
    BY <1>1, <1>4, <2>1, <2>2 DEF Range
<1>7. Last(q) \notin Range(r)
  <2>1. ASSUME NEW j \in 1 .. n - 1, q[n - j] = q[n]
        PROVE  FALSE
    <3>1. n - j \in DOMAIN q /\ n \in DOMAIN q /\ n - j # n
      BY <1>1
    <3>2. QED
      BY <2>1, <3>1 DEF IsInjective
  <2>2. QED
    BY <1>1, <1>4, <2>1 DEF Range
<1>8. /\ t \in Seq(Path) /\ IsInjective(t) /\ Len(t) = Len(r) + 1
      /\ Range(t) = Range(r) \cup {Last(q)} /\ \A j \in 1 .. Len(r) : t[j] = r[j]
  BY <1>1, <1>2, <1>5, <1>7, Appended
<1> HIDE DEF t
<1>9. n > 1 => t[1] = q[n - 1]
  <2>1. ASSUME n > 1 PROVE t[1] = q[n - 1]
    <3>1. 1 \in 1 .. n - 1 /\ 1 \in 1 .. Len(r)
      BY <1>1, <1>2, <2>1
    <3>2. QED
      BY <3>1, <1>4, <1>8
  <2>2. QED
    BY <2>1
<1>10. Len(t) = n
  BY <1>1, <1>2, <1>8
<1>11. QED
  BY <1>6, <1>8, <1>9, <1>10 DEF t, r, f, n

-----------------------------------------------------------------------------
(* The navigation history. *)

VisitsOK(v) ==
  /\ v = [list |-> v.list, at |-> v.at]
  /\ v.list \in Seq(Location) /\ Len(v.list) \leq Size
  /\ v.at \in 1 .. Len(v.list) \/ (v.at = 0 /\ v.list = <<>>)

LEMMA VisitsFields ==
  ASSUME NEW v, VisitsOK(v)
  PROVE  /\ v.list \in Seq(Location) /\ Len(v.list) \in Nat /\ DOMAIN v.list = 1 .. Len(v.list)
         /\ Len(v.list) \leq Size /\ Size \in Nat \ {0}
         /\ v.at \in Nat /\ v.at \in 0 .. Len(v.list)
         /\ v.at = 0 <=> v.list = <<>>
         /\ v.at > 0 => v.at \in 1 .. Len(v.list) /\ v.list[v.at] \in Location
<1>1. v.list \in Seq(Location) /\ Len(v.list) \leq Size
  BY DEF VisitsOK
<1>2. Len(v.list) \in Nat /\ DOMAIN v.list = 1 .. Len(v.list) /\ (v.list = <<>> <=> Len(v.list) = 0)
  BY <1>1, LenProperties, EmptySeq
<1>3. v.at \in 1 .. Len(v.list) \/ (v.at = 0 /\ v.list = <<>>)
  BY DEF VisitsOK
<1>4. \A i \in 1 .. Len(v.list) : v.list[i] \in Location
  BY <1>1, ElementOfSeq
<1>5. QED
  BY <1>1, <1>2, <1>3, <1>4, SizeAssumption

(* A location that is recorded comes after the one that was current. *)
LEMMA Recorded ==
  ASSUME NEW v, VisitsOK(v), NEW loc \in Location
  PROVE  LET w == Nav!Record(v, loc) IN
           /\ VisitsOK(w) /\ w.at > 0 /\ w.list[w.at] = loc
           /\ v.at > 0 /\ Size > 1 => w.at > 1 /\ w.list[w.at - 1] = v.list[v.at]
<1> DEFINE n == Len(v.list)
           moved == IF v.at = 0 THEN v.list ELSE Append(Nav!RemoveAt(v.list, v.at), v.list[v.at])
           all == Append(moved, loc)
           kept == IF Len(all) > Size THEN Tail(all) ELSE all
           w == Nav!Record(v, loc)
<1>1. /\ v.list \in Seq(Location) /\ n \in Nat /\ n \leq Size /\ Size \in Nat \ {0}
      /\ v.at \in Nat /\ (v.at = 0 <=> v.list = <<>>) /\ (v.at > 0 => v.at \in 1 .. n)
  BY VisitsFields
<1>2. moved \in Seq(Location) /\ Len(moved) = n /\ (v.at > 0 => moved[n] = v.list[v.at] /\ n > 0)
  <2>1. CASE v.at = 0
    BY <1>1, <2>1
  <2>2. CASE v.at > 0
    <3> DEFINE t == Append(RemoveAt(v.list, v.at), v.list[v.at])
    <3>1. moved = t
      <4>1. Nav!RemoveAt(v.list, v.at) = RemoveAt(v.list, v.at)
        BY DEF Nav!RemoveAt, RemoveAt
      <4>2. v.at # 0
        BY <1>1, <2>2
      <4>3. QED
        BY <4>1, <4>2
    <3>2. t \in Seq(Location) /\ IsMoved(v.list, v.at, t)
      BY <1>1, <2>2, MovedSeq
    <3> HIDE DEF t, moved
    <3>3. n \in 1 .. n /\ v.at \leq n
      BY <1>1, <2>2
    <3>4. Len(t) = n /\ t[n] = v.list[v.at]
      BY <1>1, <3>2, <3>3 DEF IsMoved
    <3>5. QED
      BY <3>1, <3>2, <3>3, <3>4, <1>1, <2>2
  <2>3. QED
    BY <1>1, <2>1, <2>2
<1> HIDE DEF moved
<1>3. /\ all \in Seq(Location) /\ Len(all) = n + 1 /\ all[n + 1] = loc
      /\ \A j \in 1 .. n : all[j] = moved[j]
  BY <1>2, Appended
<1>4. v.at > 0 => n \in 1 .. n /\ all[n] = v.list[v.at]
  BY <1>1, <1>2, <1>3
<1> HIDE DEF all
<1>5. w = [list |-> kept, at |-> Len(kept)]
  BY DEF Nav!Record, Nav!Visits, all, moved
<1>6. /\ kept \in Seq(Location) /\ Len(kept) \leq Size /\ Len(kept) \in Nat \ {0} /\ kept[Len(kept)] = loc
      /\ v.at > 0 /\ Size > 1 => Len(kept) > 1 /\ kept[Len(kept) - 1] = v.list[v.at]
  <2>1. CASE n = Size
    <3>1. kept = Tail(all) /\ all # <<>>
      BY <1>1, <1>3, <2>1, EmptySeq
    <3>2. /\ Tail(all) \in Seq(Location) /\ Len(Tail(all)) = Len(all) - 1
          /\ \A i \in 1 .. Len(Tail(all)) : Tail(all)[i] = all[i + 1]
      BY <1>3, <3>1, HeadTailProperties
    <3> HIDE DEF kept
    <3>3. kept \in Seq(Location) /\ Len(kept) = n /\ \A i \in 1 .. n : kept[i] = all[i + 1]
      BY <1>1, <1>3, <3>1, <3>2
    <3> HIDE DEF n
    <3>4. n \in 1 .. n /\ (n > 1 => n - 1 \in 1 .. n /\ n - 1 + 1 = n)
      BY <1>1, <2>1
    <3>5. kept[n] = loc
      BY <1>3, <3>3, <3>4
    <3>6. n > 1 => kept[n - 1] = all[n]
      BY <3>3, <3>4
    <3>7. QED
      BY <1>1, <1>4, <2>1, <3>3, <3>5, <3>6
  <2>2. CASE n < Size
    <3>1. kept = all
      BY <1>1, <1>3, <2>2
    <3> HIDE DEF kept, n
    <3>2. Len(kept) = n + 1 /\ Len(kept) - 1 = n /\ (v.at > 0 => n > 0)
      BY <1>1, <1>3, <1>4, <3>1
    <3>3. QED
      BY <1>1, <1>3, <1>4, <2>2, <3>1, <3>2
  <2>3. QED
    BY <1>1, <2>1, <2>2
<1> HIDE DEF kept, w
<1>7. w.list = kept /\ w.at = Len(kept)
  BY <1>5
<1>8. VisitsOK(w)
  BY <1>5, <1>6, <1>7 DEF VisitsOK
<1>9. QED
  BY <1>6, <1>7, <1>8 DEF w

LEMMA Updated ==
  ASSUME NEW v, VisitsOK(v), NEW from \in Location, Nav!Follows(v, from)
  PROVE  LET w == Nav!Update(v, from) IN VisitsOK(w) /\ w.at = v.at /\ w.at > 0 /\ w.list[w.at] = from
         /\ Len(w.list) = Len(v.list)
<1> DEFINE w == Nav!Update(v, from)
           l == [v.list EXCEPT ![v.at] = from]
<1>1. /\ v.list \in Seq(Location) /\ Len(v.list) \in Nat /\ DOMAIN v.list = 1 .. Len(v.list)
      /\ v.at > 0 /\ v.at \in 1 .. Len(v.list)
  BY VisitsFields DEF Nav!Follows
<1>2. w = [list |-> l, at |-> v.at]
  BY DEF Nav!Update, Nav!Visits
<1>3. \A i \in 1 .. Len(v.list) : v.list[i] \in Location
  BY <1>1, ElementOfSeq
<1>4. l \in [1 .. Len(v.list) -> Location] /\ l[v.at] = from
  BY <1>1, <1>3
<1> HIDE DEF l, w
<1>5. l \in Seq(Location)
  BY <1>1, <1>4, IsASeq
<1>6. Len(l) = Len(v.list)
  BY <1>1, <1>4, <1>5, LenProperties
<1>7. w.list = l /\ w.at = v.at
  BY <1>2
<1>8. Len(v.list) \leq Size
  BY DEF VisitsOK
<1>9. VisitsOK(w)
  BY <1>1, <1>2, <1>5, <1>6, <1>7, <1>8 DEF VisitsOK
<1>10. QED
  BY <1>1, <1>4, <1>6, <1>7, <1>9 DEF w

AnyLocation == Location \cup {Nowhere}

LEMMA Left ==
  ASSUME NEW v, VisitsOK(v), NEW from \in AnyLocation
  PROVE  LET w == Nav!Leave(v, from) IN
           VisitsOK(w) /\ (from \in Location => w.at > 0 /\ w.list[w.at] = from)
<1>1. CASE from = Nowhere
  BY <1>1, NowhereAssumption DEF Nav!Leave
<1>2. CASE from # Nowhere
  <2>1. from \in Location
    BY <1>2 DEF AnyLocation
  <2>2. CASE Nav!Follows(v, from)
    <3>1. Nav!Leave(v, from) = Nav!Update(v, from)
      BY <1>2, <2>2 DEF Nav!Leave
    <3>2. QED
      BY <2>1, <2>2, <3>1, Updated
  <2>3. CASE ~ Nav!Follows(v, from)
    <3>1. Nav!Leave(v, from) = Nav!Record(v, from)
      BY <1>2, <2>3 DEF Nav!Leave
    <3>2. QED
      BY <2>1, <3>1, Recorded
  <2>4. QED
    BY <2>2, <2>3
<1>3. QED
  BY <1>1, <1>2

LEMMA Arrived ==
  ASSUME NEW v, VisitsOK(v), NEW to \in AnyLocation
  PROVE  LET w == Nav!Arrive(v, to) IN
           /\ VisitsOK(w)
           /\ v.at > 0 /\ to \in Location /\ v.list[v.at] # to /\ Size > 1 =>
                w.at > 1 /\ w.list[w.at - 1] = v.list[v.at]
<1>1. CASE to = Nowhere \/ (v.at > 0 /\ v.list[v.at] = to)
  BY <1>1, NowhereAssumption DEF Nav!Arrive
<1>2. CASE ~ (to = Nowhere \/ (v.at > 0 /\ v.list[v.at] = to))
  <2>1. to \in Location /\ Nav!Arrive(v, to) = Nav!Record(v, to)
    BY <1>2 DEF Nav!Arrive, AnyLocation
  <2>2. QED
    BY <2>1, Recorded
<1>3. QED
  BY <1>1, <1>2

(* A jump from a file to another leaves a way back to the location it left. *)
LEMMA JumpRecorded ==
  ASSUME NEW v, VisitsOK(v), NEW from \in AnyLocation, NEW to \in AnyLocation, NEW recording \in BOOLEAN
  PROVE  LET w == RecordJump(v, recording, from, to) IN
           /\ VisitsOK(w)
           /\ recording /\ Size > 1 /\ from \in Location /\ to \in Location /\ from # to =>
                w.at > 1 /\ w.list[w.at - 1] = from
<1> DEFINE u == Nav!Leave(v, from)
           w == Nav!Arrive(u, to)
<1>1. VisitsOK(u) /\ (from \in Location => u.at > 0 /\ u.list[u.at] = from)
  BY Left
<1> HIDE DEF u
<1>2. /\ VisitsOK(w)
      /\ u.at > 0 /\ to \in Location /\ u.list[u.at] # to /\ Size > 1 =>
           w.at > 1 /\ w.list[w.at - 1] = u.list[u.at]
  BY <1>1, Arrived
<1> HIDE DEF w
<1>3. RecordJump(v, recording, from, to) = IF recording THEN w ELSE v
  BY DEF RecordJump, w, u
<1>4. QED
  BY <1>1, <1>2, <1>3

(* Back and forward stay within the list. *)
LEMMA Moved ==
  ASSUME NEW v, VisitsOK(v), NEW from \in AnyLocation, NEW i \in 1 .. Len(v.list)
  PROVE  VisitsOK(MoveTo(v, from, i)) /\ Current(MoveTo(v, from, i)) \in Location
<1> DEFINE u == IF Nav!Follows(v, from) THEN Nav!Update(v, from) ELSE v
           w == MoveTo(v, from, i)
<1>1. VisitsOK(u) /\ Len(u.list) = Len(v.list)
  <2>1. CASE Nav!Follows(v, from)
    <3>1. from \in Location
      BY <2>1 DEF Nav!Follows, AnyLocation
    <3>2. QED
      BY <2>1, <3>1, Updated
  <2>2. QED
    BY <2>1
<1> HIDE DEF u
<1>2. w = [u EXCEPT !.at = i]
  BY DEF MoveTo, u
<1>3. w = [list |-> u.list, at |-> i]
  BY <1>1, <1>2 DEF VisitsOK
<1> HIDE DEF w
<1>4. w.list = u.list /\ w.at = i
  BY <1>3
<1>5. VisitsOK(w)
  BY <1>1, <1>3, <1>4 DEF VisitsOK
<1>6. i \in Nat /\ i > 0
  BY VisitsFields
<1>7. w.list[w.at] \in Location
  BY <1>4, <1>5, <1>6, VisitsFields
<1>8. QED
  BY <1>5, <1>7 DEF Current, w

-----------------------------------------------------------------------------
(* The editor. *)

CmdLine ==
  [kind : Kinds, buf : Path, resume : BOOLEAN, origin : Pos, id : Pickers \cup {None},
   loading : BOOLEAN, query : SUBSET Path, matches : Seq(Path), sel : Int]

Editor ==
  [bufs : Seq(Path), text : [Path -> BOOLEAN], cursor : [Path -> Pos], mode : [Path -> {"normal", "insert"}],
   cmd : CmdLine \cup {NoCmd}, nav : [list : Seq(Location), at : Nat], files : SUBSET Path]

(* A file is open once, a buffer that is closed is not a text, and only a text is in the insert mode. *)
BufsOK(ed) ==
  /\ IsInjective(ed.bufs)
  /\ \A p \in Path : ed.text[p] => p \in Open(ed)
  /\ \A p \in Path : ed.mode[p] = "insert" => ed.text[p]

(* The first match of a picker without a query is the buffer used before. *)
PickerOK(ed) ==
  LET c == ed.cmd IN
    /\ c.id \in Pickers
    /\ c.query \in Queries
    /\ IsInjective(c.matches)
    /\ c.sel \in 1 .. Len(c.matches) \/ c.matches = <<>>
    /\ c.query = Path /\ Len(ed.bufs) > 1 => c.matches[1] = ed.bufs[Len(ed.bufs) - 1]

(* A command line is the one of the top buffer, and what this buffer returns to is a mode it may have. *)
CmdLineOK(ed) ==
  LET c == ed.cmd IN
    /\ ed.bufs # <<>>
    /\ c.buf = Top(ed)
    /\ ed.mode[c.buf] = "normal"
    /\ c.resume => ed.text[c.buf]
    /\ c.kind = "picker" => PickerOK(ed)

EditorOK(ed) ==
  /\ ed \in Editor
  /\ BufsOK(ed)
  /\ VisitsOK(ed.nav)
  /\ IsFiniteSet(ed.files)
  /\ ed.cmd = NoCmd \/ CmdLineOK(ed)

LEMMA CmdKinds ==
  ASSUME NEW ed \in Editor
  PROVE  /\ ed.cmd # NoCmd <=> ed.cmd \in CmdLine
         /\ ed.cmd.kind \in Kinds <=> ed.cmd \in CmdLine
         /\ ed.cmd = NoCmd => ed.cmd.kind = "none"
<1>1. ed.cmd \in CmdLine \/ ed.cmd = NoCmd
  BY DEF Editor
<1>2. NoCmd.kind = "none" /\ "none" \notin Kinds
  BY DEF NoCmd, Kinds
<1>3. ed.cmd \in CmdLine => ed.cmd.kind \in Kinds
  BY DEF CmdLine
<1>4. QED
  BY <1>1, <1>2, <1>3

LEMMA EditorFields ==
  ASSUME NEW ed, EditorOK(ed)
  PROVE  /\ ed.bufs \in Seq(Path) /\ IsInjective(ed.bufs)
         /\ ed.text \in [Path -> BOOLEAN] /\ ed.cursor \in [Path -> Pos]
         /\ ed.mode \in [Path -> {"normal", "insert"}]
         /\ ed.files \subseteq Path /\ IsFiniteSet(ed.files)
         /\ VisitsOK(ed.nav)
         /\ ed.cmd \in CmdLine \/ ed.cmd = NoCmd
BY DEF EditorOK, Editor, BufsOK

LEMMA TopIs ==
  ASSUME NEW ed, EditorOK(ed), ed.bufs # <<>>
  PROVE  /\ Top(ed) \in Path /\ Top(ed) \in Open(ed)
         /\ Len(ed.bufs) \in Nat \ {0} /\ DOMAIN ed.bufs = 1 .. Len(ed.bufs)
         /\ Top(ed) = ed.bufs[Len(ed.bufs)]
<1>1. ed.bufs \in Seq(Path)
  BY EditorFields
<1>2. /\ Len(ed.bufs) \in Nat \ {0} /\ DOMAIN ed.bufs = 1 .. Len(ed.bufs)
      /\ Last(ed.bufs) \in Path /\ Last(ed.bufs) = ed.bufs[Len(ed.bufs)]
  BY <1>1, FrontOf
<1>3. Len(ed.bufs) \in DOMAIN ed.bufs
  BY <1>2
<1>4. QED
  BY <1>2, <1>3 DEF Top, Open, Range

(* What the handlers are made of. *)

LEMMA Unprompted ==
  ASSUME NEW ed, EditorOK(ed)
  PROVE  LET f == [ed EXCEPT !.cmd = NoCmd] IN
           /\ EditorOK(f) /\ f.cmd = NoCmd
           /\ f.bufs = ed.bufs /\ f.text = ed.text /\ f.cursor = ed.cursor /\ f.mode = ed.mode
           /\ f.nav = ed.nav /\ f.files = ed.files
BY DEF EditorOK, Editor, BufsOK, Open

LEMMA CursorSet ==
  ASSUME NEW ed, EditorOK(ed), NEW p \in Path, NEW pos \in Pos
  PROVE  LET f == [ed EXCEPT !.cursor[p] = pos] IN
           /\ EditorOK(f) /\ f.cursor = [ed.cursor EXCEPT ![p] = pos]
           /\ f.bufs = ed.bufs /\ f.text = ed.text /\ f.mode = ed.mode /\ f.cmd = ed.cmd
           /\ f.nav = ed.nav /\ f.files = ed.files
BY DEF EditorOK, Editor, BufsOK, Open, CmdLineOK, PickerOK, Top

LEMMA InsertSet ==
  ASSUME NEW ed, EditorOK(ed), ed.cmd = NoCmd, NEW p \in Path, ed.text[p]
  PROVE  LET f == [ed EXCEPT !.mode[p] = "insert"] IN
           /\ EditorOK(f) /\ f.mode = [ed.mode EXCEPT ![p] = "insert"]
           /\ f.bufs = ed.bufs /\ f.text = ed.text /\ f.cursor = ed.cursor /\ f.cmd = NoCmd
           /\ f.nav = ed.nav /\ f.files = ed.files
BY DEF EditorOK, Editor, BufsOK, Open

LEMMA NormalSet ==
  ASSUME NEW ed, EditorOK(ed), NEW p \in Path
  PROVE  LET f == [ed EXCEPT !.mode[p] = "normal"] IN
           /\ EditorOK(f) /\ f.mode = [ed.mode EXCEPT ![p] = "normal"]
           /\ f.bufs = ed.bufs /\ f.text = ed.text /\ f.cursor = ed.cursor /\ f.cmd = ed.cmd
           /\ f.nav = ed.nav /\ f.files = ed.files
<1>1. \A q \in Path : [ed EXCEPT !.mode[p] = "normal"].mode[q] = IF q = p THEN "normal" ELSE ed.mode[q]
  BY DEF EditorOK, Editor
<1>2. ed.cmd # NoCmd => ed.cmd.buf \in Path
  BY DEF EditorOK, Editor, CmdLine
<1>3. QED
  BY <1>1, <1>2 DEF EditorOK, Editor, BufsOK, Open, CmdLineOK, PickerOK, Top

LEMMA NavSet ==
  ASSUME NEW ed, EditorOK(ed), NEW v, VisitsOK(v)
  PROVE  LET f == [ed EXCEPT !.nav = v] IN
           /\ EditorOK(f) /\ f.nav = v
           /\ f.bufs = ed.bufs /\ f.text = ed.text /\ f.cursor = ed.cursor /\ f.mode = ed.mode
           /\ f.cmd = ed.cmd /\ f.files = ed.files
<1>1. v.list \in Seq(Location) /\ v.at \in Nat /\ v = [list |-> v.list, at |-> v.at]
  BY VisitsFields DEF VisitsOK
<1>2. v \in [list : Seq(Location), at : Nat]
  BY <1>1
<1>3. QED
  BY <1>2 DEF EditorOK, Editor, BufsOK, Open, CmdLineOK, PickerOK, Top

LEMMA FilesSet ==
  ASSUME NEW ed, EditorOK(ed), NEW files, files \subseteq Path, IsFiniteSet(files)
  PROVE  LET f == [ed EXCEPT !.files = files] IN
           /\ EditorOK(f) /\ f.files = files
           /\ f.bufs = ed.bufs /\ f.text = ed.text /\ f.cursor = ed.cursor /\ f.mode = ed.mode
           /\ f.cmd = ed.cmd /\ f.nav = ed.nav
BY DEF EditorOK, Editor, BufsOK, Open, CmdLineOK, PickerOK, Top

LEMMA CmdSet ==
  ASSUME NEW ed, EditorOK(ed), NEW c \in CmdLine, CmdLineOK([ed EXCEPT !.cmd = c])
  PROVE  LET f == [ed EXCEPT !.cmd = c] IN
           /\ EditorOK(f) /\ f.cmd = c
           /\ f.bufs = ed.bufs /\ f.text = ed.text /\ f.cursor = ed.cursor /\ f.mode = ed.mode
           /\ f.nav = ed.nav /\ f.files = ed.files
BY DEF EditorOK, Editor, BufsOK, Open

LEMMA LocationIs ==
  ASSUME NEW ed, EditorOK(ed), NEW p \in Path
  PROVE  /\ LocationOf(ed, p) \in AnyLocation
         /\ ed.text[p] => /\ LocationOf(ed, p) \in Location
                          /\ LocationOf(ed, p).path = p /\ LocationOf(ed, p).position = ed.cursor[p]
<1>1. ed.cursor[p] \in Pos
  BY EditorFields
<1>2. QED
  BY <1>1 DEF LocationOf, AnyLocation, Location, Nav!Location

-----------------------------------------------------------------------------
(* The command line is closed. *)

LEMMA ResumeIs ==
  ASSUME NEW ed, EditorOK(ed), ed.cmd = NoCmd, NEW c \in CmdLine
  PROVE  LET f == Resume(ed, c) IN
           /\ EditorOK(f) /\ f.cmd = NoCmd
           /\ f.mode = IF c.resume /\ ed.text[c.buf] THEN [ed.mode EXCEPT ![c.buf] = "insert"] ELSE ed.mode
           /\ f.bufs = ed.bufs /\ f.text = ed.text /\ f.cursor = ed.cursor
           /\ f.nav = ed.nav /\ f.files = ed.files
<1>1. c.buf \in Path
  BY DEF CmdLine
<1>2. CASE c.resume /\ ed.text[c.buf]
  <2>1. Resume(ed, c) = [ed EXCEPT !.mode[c.buf] = "insert"]
    BY <1>2 DEF Resume
  <2>2. QED
    BY <1>1, <1>2, <2>1, InsertSet
<1>3. CASE ~ (c.resume /\ ed.text[c.buf])
  BY <1>3 DEF Resume
<1>4. QED
  BY <1>2, <1>3

LEMMA CancelIs ==
  ASSUME NEW ed, EditorOK(ed)
  PROVE  LET f == CancelCmdLine(ed)
             c == ed.cmd
         IN  /\ EditorOK(f) /\ f.cmd = NoCmd
             /\ f.bufs = ed.bufs /\ f.text = ed.text /\ f.nav = ed.nav /\ f.files = ed.files
             /\ c = NoCmd => f = ed
             /\ c # NoCmd =>
                  /\ c.buf \in Path /\ c.origin \in Pos
                  /\ f.cursor = IF c.kind = "search" THEN [ed.cursor EXCEPT ![c.buf] = c.origin] ELSE ed.cursor
                  /\ f.mode = IF c.resume /\ ed.text[c.buf] THEN [ed.mode EXCEPT ![c.buf] = "insert"] ELSE ed.mode
<1> DEFINE f == CancelCmdLine(ed)
           c == ed.cmd
<1>1. CASE c = NoCmd
  BY <1>1 DEF CancelCmdLine
<1>2. CASE c # NoCmd
  <2> DEFINE g == [ed EXCEPT !.cmd = NoCmd]
             h == Reverted(g, c)
  <2>1. c \in CmdLine
    BY <1>2, EditorFields
  <2>2. c.buf \in Path /\ c.origin \in Pos
    BY <2>1 DEF CmdLine
  <2>3. /\ EditorOK(g) /\ g.cmd = NoCmd
        /\ g.bufs = ed.bufs /\ g.text = ed.text /\ g.cursor = ed.cursor /\ g.mode = ed.mode
        /\ g.nav = ed.nav /\ g.files = ed.files
    BY Unprompted
  <2> HIDE DEF g
  <2>4. /\ EditorOK(h) /\ h.cmd = NoCmd
        /\ h.cursor = IF c.kind = "search" THEN [ed.cursor EXCEPT ![c.buf] = c.origin] ELSE ed.cursor
        /\ h.bufs = ed.bufs /\ h.text = ed.text /\ h.mode = ed.mode /\ h.nav = ed.nav /\ h.files = ed.files
    <3>1. CASE c.kind = "search"
      <4>1. h = [g EXCEPT !.cursor[c.buf] = c.origin]
        BY <3>1 DEF Reverted
      <4>2. QED
        BY <2>2, <2>3, <3>1, <4>1, CursorSet
    <3>2. CASE c.kind # "search"
      BY <2>3, <3>2 DEF Reverted
    <3>3. QED
      BY <3>1, <3>2
  <2> HIDE DEF h
  <2>5. f = Resume(h, c)
    BY <1>2 DEF CancelCmdLine, h, g
  <2> HIDE DEF f, c
  <2>6. /\ EditorOK(f) /\ f.cmd = NoCmd
        /\ f.mode = IF c.resume /\ h.text[c.buf] THEN [h.mode EXCEPT ![c.buf] = "insert"] ELSE h.mode
        /\ f.bufs = h.bufs /\ f.text = h.text /\ f.cursor = h.cursor /\ f.nav = h.nav /\ f.files = h.files
    BY <2>1, <2>4, <2>5, ResumeIs
  <2>7. QED
    BY <1>2, <2>2, <2>4, <2>6 DEF f, c
<1>3. QED
  BY <1>1, <1>2

-----------------------------------------------------------------------------
(* The stack. *)

(* From a text to another, the way back leads to the place left: as it was, or as a search that   *)
(* is cancelled leaves it.                                                                        *)
LeadsBack(ed, f) ==
  LET from == Top(ed)
      left == {ed.cursor[from], CancelCmdLine(ed).cursor[from]}
  IN  f.bufs # <<>> /\ Size > 1 /\ Top(f) # from /\ ed.text[from] /\ f.text[Top(f)] =>
        /\ f.nav.at > 1
        /\ LET back == f.nav.list[f.nav.at - 1] IN back.path = from /\ back.position \in left

LEMMA JumpIs ==
  ASSUME NEW ed, EditorOK(ed), NEW from \in AnyLocation, NEW to \in AnyLocation, NEW recording \in BOOLEAN
  PROVE  LET f == Jump(ed, recording, from, to) IN
           /\ EditorOK(f)
           /\ f.bufs = ed.bufs /\ f.text = ed.text /\ f.cursor = ed.cursor /\ f.mode = ed.mode
           /\ f.cmd = ed.cmd /\ f.files = ed.files
           /\ ~recording => f.nav = ed.nav
           /\ recording /\ Size > 1 /\ from \in Location /\ to \in Location /\ from # to =>
                f.nav.at > 1 /\ f.nav.list[f.nav.at - 1] = from
<1> DEFINE v == RecordJump(ed.nav, recording, from, to)
           f == Jump(ed, recording, from, to)
<1>1. VisitsOK(ed.nav)
  BY EditorFields
<1>2. /\ VisitsOK(v)
      /\ recording /\ Size > 1 /\ from \in Location /\ to \in Location /\ from # to =>
           v.at > 1 /\ v.list[v.at - 1] = from
  BY <1>1, JumpRecorded
<1>3. ~recording => v = ed.nav
  BY DEF RecordJump
<1>4. f = [ed EXCEPT !.nav = v]
  BY DEF Jump
<1> HIDE DEF v, f
<1>5. /\ EditorOK(f) /\ f.nav = v
      /\ f.bufs = ed.bufs /\ f.text = ed.text /\ f.cursor = ed.cursor /\ f.mode = ed.mode
      /\ f.cmd = ed.cmd /\ f.files = ed.files
  BY <1>2, <1>4, NavSet
<1>6. QED
  BY <1>2, <1>3, <1>5 DEF f

WithPushed(ed, p, text) ==
  [ed EXCEPT !.bufs = Append(@, p), !.text[p] = text, !.cursor[p] = Start, !.mode[p] = "normal"]

LEMMA BufsAppended ==
  ASSUME NEW ed, EditorOK(ed), ed.cmd = NoCmd, NEW p \in Path, p \notin Open(ed), NEW text \in BOOLEAN
  PROVE  LET f == WithPushed(ed, p, text) IN
           /\ EditorOK(f) /\ f.bufs # <<>> /\ Top(f) = p
           /\ f.text = [ed.text EXCEPT ![p] = text]
           /\ f.cmd = NoCmd /\ f.nav = ed.nav
<1> DEFINE f == WithPushed(ed, p, text)
           b == Append(ed.bufs, p)
<1>1. /\ ed.bufs \in Seq(Path) /\ IsInjective(ed.bufs)
      /\ ed.text \in [Path -> BOOLEAN] /\ ed.cursor \in [Path -> Pos]
      /\ ed.mode \in [Path -> {"normal", "insert"}]
  BY EditorFields
<1>2. b \in Seq(Path) /\ b # <<>> /\ Last(b) = p /\ Range(b) = Range(ed.bufs) \cup {p} /\ IsInjective(b)
  BY <1>1, Appended DEF Open
<1> HIDE DEF b
<1>3. /\ f.bufs = b /\ f.text = [ed.text EXCEPT ![p] = text] /\ f.cursor = [ed.cursor EXCEPT ![p] = Start]
      /\ f.mode = [ed.mode EXCEPT ![p] = "normal"] /\ f.cmd = NoCmd /\ f.nav = ed.nav /\ f.files = ed.files
  BY DEF EditorOK, Editor, WithPushed, b
<1>4. f \in Editor
  BY <1>1, <1>2, StartAssumption DEF EditorOK, Editor, WithPushed, b
<1> HIDE DEF f
<1>5. BufsOK(f)
  <2>1. \A q \in Path : f.text[q] => q \in Open(f)
    BY <1>1, <1>2, <1>3 DEF EditorOK, BufsOK, Open
  <2>2. \A q \in Path : f.mode[q] = "insert" => f.text[q]
    BY <1>1, <1>3 DEF EditorOK, BufsOK
  <2>3. QED
    BY <1>2, <1>3, <2>1, <2>2 DEF BufsOK
<1>6. EditorOK(f)
  BY <1>3, <1>4, <1>5 DEF EditorOK
<1>7. QED
  BY <1>2, <1>3, <1>6 DEF Top, f

LEMMA BufsMoved ==
  ASSUME NEW ed, EditorOK(ed), ed.cmd = NoCmd, NEW b \in Seq(Path), IsInjective(b), Range(b) = Open(ed)
  PROVE  LET f == [ed EXCEPT !.bufs = b] IN
           /\ EditorOK(f) /\ f.bufs = b
           /\ f.text = ed.text /\ f.cursor = ed.cursor /\ f.mode = ed.mode
           /\ f.cmd = NoCmd /\ f.nav = ed.nav /\ f.files = ed.files
BY DEF EditorOK, Editor, BufsOK, Open

(* A file or an error is shown in a buffer of its own. *)
LEMMA PushIs ==
  ASSUME NEW ed, EditorOK(ed), ed.bufs # <<>>, NEW p \in Path, p \notin Open(ed),
         NEW recording \in BOOLEAN, NEW text \in BOOLEAN
  PROVE  LET f == Push(ed, p, recording, text) IN
           /\ EditorOK(f) /\ f.cmd = NoCmd /\ f.bufs # <<>> /\ Top(f) = p
           /\ recording => LeadsBack(ed, f)
           /\ ~recording => f.nav = ed.nav
<1> DEFINE from == LocationOf(ed, Top(ed))
           g == CancelCmdLine(ed)
           h == WithPushed(g, p, text)
           to == LocationOf(h, p)
           f == Jump(h, recording, from, to)
<1>1. Top(ed) \in Path /\ Top(ed) \in Open(ed)
  BY TopIs
<1>2. EditorOK(g) /\ g.cmd = NoCmd /\ g.bufs = ed.bufs /\ g.text = ed.text /\ g.nav = ed.nav
  BY CancelIs
<1>3. f = Push(ed, p, recording, text)
  BY DEF Push, WithPushed
<1> HIDE DEF g
<1>4. /\ EditorOK(h) /\ h.bufs # <<>> /\ Top(h) = p /\ h.text = [ed.text EXCEPT ![p] = text]
      /\ h.cmd = NoCmd /\ h.nav = ed.nav
  <2>1. p \notin Open(g)
    BY <1>2 DEF Open
  <2>2. /\ EditorOK(h) /\ h.bufs # <<>> /\ Top(h) = p
        /\ h.text = [g.text EXCEPT ![p] = text]
        /\ h.cmd = NoCmd /\ h.nav = g.nav
    BY <1>2, <2>1, BufsAppended
  <2> HIDE DEF h
  <2>3. QED
    BY <1>2, <2>2
<1> HIDE DEF h
<1>5. /\ from \in AnyLocation
      /\ ed.text[Top(ed)] => from \in Location /\ from.path = Top(ed) /\ from.position = ed.cursor[Top(ed)]
  BY <1>1, LocationIs
<1>6. to \in AnyLocation /\ (h.text[p] => to \in Location /\ to.path = p)
  BY <1>4, LocationIs
<1> HIDE DEF from, to
<1>7. /\ EditorOK(f)
      /\ f.bufs = h.bufs /\ f.text = h.text /\ f.cmd = h.cmd
      /\ ~recording => f.nav = h.nav
      /\ recording /\ Size > 1 /\ from \in Location /\ to \in Location /\ from # to =>
           f.nav.at > 1 /\ f.nav.list[f.nav.at - 1] = from
  BY <1>4, <1>5, <1>6, JumpIs
<1> HIDE DEF f
<1>8. Top(f) = p
  BY <1>4, <1>7 DEF Top
<1>9. ASSUME recording
      PROVE  LeadsBack(ed, f)
  <2>1. SUFFICES ASSUME Size > 1, ed.text[Top(ed)], f.text[p]
                 PROVE  /\ f.nav.at > 1
                        /\ f.nav.list[f.nav.at - 1].path = Top(ed)
                        /\ f.nav.list[f.nav.at - 1].position = ed.cursor[Top(ed)]
    BY <1>8 DEF LeadsBack
  <2>2. from \in Location /\ to \in Location /\ from # to
    BY <1>1, <1>5, <1>6, <1>7, <2>1
  <2>3. QED
    BY <1>5, <1>7, <1>9, <2>1, <2>2
<1>10. QED
  BY <1>3, <1>4, <1>7, <1>8, <1>9

(* A buffer is moved to the top. *)
LEMMA SelectIs ==
  ASSUME NEW ed, EditorOK(ed), ed.bufs # <<>>, NEW i \in DOMAIN ed.bufs, NEW recording \in BOOLEAN
  PROVE  LET f == SelectBuffer(ed, i, recording) IN
           /\ EditorOK(f) /\ f.bufs # <<>> /\ Top(f) = ed.bufs[i]
           /\ f = ed \/ f.cmd = NoCmd
           /\ recording => LeadsBack(ed, f)
           /\ ~recording => f.nav = ed.nav
<1>1. /\ Top(ed) \in Path /\ Len(ed.bufs) \in Nat \ {0} /\ DOMAIN ed.bufs = 1 .. Len(ed.bufs)
      /\ Top(ed) = ed.bufs[Len(ed.bufs)]
  BY TopIs
<1>2. ed.bufs \in Seq(Path) /\ IsInjective(ed.bufs)
  BY EditorFields
<1>3. CASE i = Len(ed.bufs)
  BY <1>1, <1>3 DEF SelectBuffer, LeadsBack
<1>4. CASE i # Len(ed.bufs)
  <2> DEFINE g == CancelCmdLine(ed)
             p == g.bufs[i]
             from == LocationOf(g, Top(g))
             to == LocationOf(g, p)
             h == Jump(g, recording, from, to)
             b == Append(RemoveAt(h.bufs, i), p)
             f == [h EXCEPT !.bufs = b]
  <2>1. f = SelectBuffer(ed, i, recording)
    BY <1>4 DEF SelectBuffer
  <2>2. EditorOK(g) /\ g.cmd = NoCmd /\ g.bufs = ed.bufs /\ g.text = ed.text /\ g.nav = ed.nav
    BY CancelIs
  <2>3. Top(g) = Top(ed) /\ p = ed.bufs[i] /\ p \in Path /\ p # Top(ed)
    <3>1. ed.bufs[i] \in Path
      BY <1>1, <1>2, ElementOfSeq
    <3>2. Len(ed.bufs) \in DOMAIN ed.bufs
      BY <1>1
    <3>3. ed.bufs[i] # ed.bufs[Len(ed.bufs)]
      BY <1>2, <1>4, <3>2 DEF IsInjective
    <3>4. QED
      BY <1>1, <2>2, <3>1, <3>3 DEF Top
  <2>4. /\ from \in AnyLocation
        /\ g.text[Top(ed)] => from \in Location /\ from.path = Top(ed) /\ from.position = g.cursor[Top(ed)]
    BY <1>1, <2>2, <2>3, LocationIs
  <2>5. to \in AnyLocation /\ (g.text[p] => to \in Location /\ to.path = p)
    BY <2>2, <2>3, LocationIs
  <2> HIDE DEF p, from, to
  <2>6. /\ EditorOK(h)
        /\ h.bufs = g.bufs /\ h.text = g.text /\ h.cmd = g.cmd
        /\ ~recording => h.nav = g.nav
        /\ recording /\ Size > 1 /\ from \in Location /\ to \in Location /\ from # to =>
             h.nav.at > 1 /\ h.nav.list[h.nav.at - 1] = from
    BY <2>2, <2>4, <2>5, JumpIs
  <2> HIDE DEF h
  <2>7. b \in Seq(Path) /\ IsInjective(b) /\ b # <<>> /\ Last(b) = p /\ Range(b) = Open(h)
    <3>1. i \in 1 .. Len(ed.bufs) /\ h.bufs = ed.bufs
      BY <1>1, <2>2, <2>6
    <3>2. b = Append(RemoveAt(ed.bufs, i), ed.bufs[i])
      BY <2>3, <3>1
    <3> HIDE DEF b
    <3>3. b \in Seq(Path) /\ IsMoved(ed.bufs, i, b)
      BY <1>2, <3>1, <3>2, MovedSeq
    <3>4. IsInjective(b) /\ b # <<>> /\ b[Len(b)] = ed.bufs[i] /\ Range(b) = Range(ed.bufs)
      BY <1>2, <3>1, <3>3, MovedStaysInjective
    <3>5. QED
      BY <2>3, <3>1, <3>3, <3>4 DEF Last, Open
  <2> HIDE DEF b
  <2>8. EditorOK(f) /\ f.bufs = b /\ f.text = h.text /\ f.cmd = NoCmd /\ f.nav = h.nav
    <3>1. h.cmd = NoCmd
      BY <2>2, <2>6
    <3>2. QED
      BY <2>6, <2>7, <3>1, BufsMoved
  <2> HIDE DEF f
  <2>9. Top(f) = p /\ f.bufs # <<>>
    BY <2>7, <2>8 DEF Top
  <2>10. ASSUME recording
         PROVE  LeadsBack(ed, f)
    <3>1. SUFFICES ASSUME Size > 1, ed.text[Top(ed)], f.text[p]
                   PROVE  /\ f.nav.at > 1
                          /\ f.nav.list[f.nav.at - 1].path = Top(ed)
                          /\ f.nav.list[f.nav.at - 1].position = g.cursor[Top(ed)]
      BY <2>9 DEF LeadsBack, g
    <3>2. from \in Location /\ to \in Location /\ from # to
      BY <2>2, <2>3, <2>4, <2>5, <2>6, <2>8, <3>1
    <3>3. QED
      BY <2>2, <2>4, <2>6, <2>8, <2>10, <3>1, <3>2
  <2>11. QED
    BY <2>1, <2>2, <2>3, <2>6, <2>8, <2>9, <2>10
<1>5. QED
  BY <1>3, <1>4

LEMMA OpenPathIs ==
  ASSUME NEW ed, EditorOK(ed), ed.bufs # <<>>, NEW p \in Path, NEW recording \in BOOLEAN,
         NEW outcome \in IF p \in Open(ed) THEN {"activated"} ELSE {"text", "error", "elsewhere"}
  PROVE  LET f == OpenPath(ed, p, recording, outcome) IN
           /\ EditorOK(f) /\ f.bufs # <<>>
           /\ f = ed \/ (f.cmd = NoCmd /\ Top(f) = p)
           /\ recording => LeadsBack(ed, f)
           /\ ~recording => f.nav = ed.nav
<1>1. CASE p \in Open(ed)
  <2> DEFINE i == CHOOSE i \in DOMAIN ed.bufs : ed.bufs[i] = p
  <2>1. i \in DOMAIN ed.bufs /\ ed.bufs[i] = p
    BY <1>1 DEF Open, Range
  <2>2. OpenPath(ed, p, recording, outcome) = SelectBuffer(ed, i, recording)
    BY <1>1 DEF OpenPath
  <2> HIDE DEF i
  <2>3. QED
    BY <2>1, <2>2, SelectIs
<1>2. CASE p \notin Open(ed) /\ outcome = "elsewhere"
  BY <1>2 DEF OpenPath, LeadsBack
<1>3. CASE p \notin Open(ed) /\ outcome # "elsewhere"
  <2> DEFINE text == outcome = "text"
  <2>1. OpenPath(ed, p, recording, outcome) = Push(ed, p, recording, text)
    BY <1>3 DEF OpenPath
  <2>2. text \in BOOLEAN
    OBVIOUS
  <2> HIDE DEF text
  <2>3. QED
    BY <1>3, <2>1, <2>2, PushIs
<1>4. QED
  BY <1>1, <1>2, <1>3

LEMMA GoToIs ==
  ASSUME NEW ed, EditorOK(ed), ed.bufs # <<>>, NEW loc \in Location, NEW recording \in BOOLEAN,
         NEW outcome \in IF loc.path \in Open(ed) THEN {"activated"} ELSE {"text", "error", "elsewhere"}
  PROVE  LET f == GoTo(ed, loc, recording, outcome) IN
           /\ EditorOK(f) /\ f.bufs # <<>>
           /\ f.cmd = NoCmd \/ f.cmd = ed.cmd
           /\ recording => LeadsBack(ed, f)
<1> DEFINE g == OpenPath(ed, loc.path, FALSE, outcome)
           from == LocationOf(ed, Top(ed))
           h == [g EXCEPT !.cursor[loc.path] = loc.position]
           to == LocationOf(h, loc.path)
           f == Jump(h, recording, from, to)
<1>1. loc.path \in Path /\ loc.position \in Pos /\ Top(ed) \in Path
  BY TopIs DEF Location, Nav!Location
<1>2. EditorOK(g) /\ g.bufs # <<>> /\ (g = ed \/ (g.cmd = NoCmd /\ Top(g) = loc.path)) /\ g.nav = ed.nav
  BY <1>1, OpenPathIs
<1>3. GoTo(ed, loc, recording, outcome) = IF Top(g) # loc.path THEN g ELSE f
  BY DEF GoTo, LeftBefore
<1> HIDE DEF g
<1>4. CASE Top(g) # loc.path
  <2>1. GoTo(ed, loc, recording, outcome) = ed
    BY <1>2, <1>3, <1>4
  <2>2. LeadsBack(ed, ed)
    BY DEF LeadsBack
  <2>3. QED
    BY <2>1, <2>2
<1>5. CASE Top(g) = loc.path
  <2>1. /\ EditorOK(h) /\ h.bufs = g.bufs /\ h.text = g.text /\ h.cmd = g.cmd /\ h.nav = g.nav
    BY <1>1, <1>2, CursorSet
  <2> HIDE DEF h
  <2>2. /\ from \in AnyLocation
        /\ ed.text[Top(ed)] => from \in Location /\ from.path = Top(ed) /\ from.position = ed.cursor[Top(ed)]
    BY <1>1, LocationIs
  <2>3. to \in AnyLocation /\ (h.text[loc.path] => to \in Location /\ to.path = loc.path)
    BY <1>1, <2>1, LocationIs
  <2> HIDE DEF from, to
  <2>4. /\ EditorOK(f)
        /\ f.bufs = h.bufs /\ f.text = h.text /\ f.cmd = h.cmd
        /\ recording /\ Size > 1 /\ from \in Location /\ to \in Location /\ from # to =>
             f.nav.at > 1 /\ f.nav.list[f.nav.at - 1] = from
    BY <2>1, <2>2, <2>3, JumpIs
  <2> HIDE DEF f
  <2>5. Top(f) = loc.path /\ f.bufs # <<>> /\ (f.cmd = NoCmd \/ f.cmd = ed.cmd)
    BY <1>2, <1>5, <2>1, <2>4 DEF Top
  <2>6. ASSUME recording
        PROVE  LeadsBack(ed, f)
    <3>1. SUFFICES ASSUME Size > 1, loc.path # Top(ed), ed.text[Top(ed)], f.text[loc.path]
                   PROVE  /\ f.nav.at > 1
                          /\ f.nav.list[f.nav.at - 1].path = Top(ed)
                          /\ f.nav.list[f.nav.at - 1].position = ed.cursor[Top(ed)]
      BY <2>5 DEF LeadsBack
    <3>2. from \in Location /\ to \in Location /\ from # to
      BY <2>2, <2>3, <2>4, <3>1
    <3>3. QED
      BY <2>2, <2>4, <2>6, <3>1, <3>2
  <2>7. GoTo(ed, loc, recording, outcome) = f
    BY <1>3, <1>5
  <2>8. QED
    BY <2>4, <2>5, <2>6, <2>7
<1>6. QED
  BY <1>4, <1>5

(* A buffer that is closed is forgotten. *)
WithoutTop(ed) ==
  LET top == Top(ed)
  IN  [ed EXCEPT !.bufs = Front(ed.bufs), !.text[top] = FALSE, !.cursor[top] = Start, !.mode[top] = "normal"]

LEMMA BufsDropped ==
  ASSUME NEW ed, EditorOK(ed), ed.cmd = NoCmd, ed.bufs # <<>>
  PROVE  LET top == Top(ed)
             f == WithoutTop(ed)
         IN  /\ EditorOK(f) /\ f.cmd = NoCmd /\ f.nav = ed.nav
             /\ f.bufs = Front(ed.bufs) /\ f.text = [ed.text EXCEPT ![top] = FALSE]
<1> DEFINE top == Top(ed)
           b == Front(ed.bufs)
           f == WithoutTop(ed)
<1>1. /\ ed.bufs \in Seq(Path) /\ IsInjective(ed.bufs)
      /\ ed.text \in [Path -> BOOLEAN] /\ ed.cursor \in [Path -> Pos]
      /\ ed.mode \in [Path -> {"normal", "insert"}]
  BY EditorFields
<1>2. /\ b \in Seq(Path) /\ Len(b) = Len(ed.bufs) - 1
      /\ Len(ed.bufs) \in Nat \ {0} /\ DOMAIN ed.bufs = 1 .. Len(ed.bufs)
      /\ \A j \in 1 .. Len(ed.bufs) - 1 : b[j] = ed.bufs[j]
  BY <1>1, FrontOf
<1>3. top \in Path /\ top = ed.bufs[Len(ed.bufs)]
  BY TopIs
<1> HIDE DEF b, top
<1>4. DOMAIN b = 1 .. Len(ed.bufs) - 1
  BY <1>2, LenProperties
<1>5. IsInjective(b)
  BY <1>1, <1>2, <1>4 DEF IsInjective
<1>6. \A q \in Range(ed.bufs) : q # top => q \in Range(b)
  BY <1>2, <1>3, <1>4 DEF Range
<1>7. /\ f.bufs = b /\ f.text = [ed.text EXCEPT ![top] = FALSE] /\ f.cursor = [ed.cursor EXCEPT ![top] = Start]
      /\ f.mode = [ed.mode EXCEPT ![top] = "normal"] /\ f.cmd = NoCmd /\ f.nav = ed.nav /\ f.files = ed.files
  BY DEF EditorOK, Editor, WithoutTop, b, top
<1>8. f \in Editor
  BY <1>1, <1>2, StartAssumption DEF EditorOK, Editor, WithoutTop, b, top
<1> HIDE DEF f
<1>9. BufsOK(f)
  <2>1. ASSUME NEW q \in Path, f.text[q] PROVE q \in Open(f)
    <3>1. q # top /\ ed.text[q]
      BY <1>1, <1>3, <1>7, <2>1
    <3>2. q \in Range(ed.bufs)
      BY <3>1 DEF EditorOK, BufsOK, Open
    <3>3. QED
      BY <1>6, <1>7, <3>1, <3>2 DEF Open
  <2>2. \A q \in Path : f.mode[q] = "insert" => f.text[q]
    BY <1>1, <1>7 DEF EditorOK, BufsOK
  <2>3. QED
    BY <1>5, <1>7, <2>1, <2>2 DEF BufsOK
<1>10. EditorOK(f)
  BY <1>7, <1>8, <1>9 DEF EditorOK
<1>11. QED
  BY <1>7, <1>10 DEF f, top, b

LEMMA PopIs ==
  ASSUME NEW ed, EditorOK(ed), ed.bufs # <<>>
  PROVE  LET f == Pop(ed) IN EditorOK(f) /\ f.cmd = NoCmd /\ LeadsBack(ed, f)
<1> DEFINE g == CancelCmdLine(ed)
           top == Top(g)
           rest == Front(g.bufs)
           from == LocationOf(g, top)
           to == IF rest = <<>> THEN Nowhere ELSE LocationOf(g, Last(rest))
           h == Jump(g, TRUE, from, to)
           f == WithoutTop(h)
<1>1. EditorOK(g) /\ g.cmd = NoCmd /\ g.bufs = ed.bufs /\ g.text = ed.text /\ g.nav = ed.nav
  BY CancelIs
<1>2. top = Top(ed) /\ top \in Path
  BY <1>1, TopIs DEF Top
<1>3. rest # <<>> => Last(rest) \in Path
  <2>1. rest \in Seq(Path)
    BY <1>1, EditorFields, FrontOf
  <2>2. QED
    BY <2>1, FrontOf
<1>4. /\ from \in AnyLocation
      /\ g.text[top] => from \in Location /\ from.path = top /\ from.position = g.cursor[top]
  BY <1>1, <1>2, LocationIs
<1>5. /\ to \in AnyLocation
      /\ rest # <<>> /\ g.text[Last(rest)] => to \in Location /\ to.path = Last(rest)
  <2>1. CASE rest = <<>>
    BY <2>1 DEF AnyLocation
  <2>2. CASE rest # <<>>
    BY <1>1, <1>3, <2>2, LocationIs
  <2>3. QED
    BY <2>1, <2>2
<1> HIDE DEF from, to
<1>6. /\ EditorOK(h)
      /\ h.bufs = g.bufs /\ h.text = g.text /\ h.cmd = g.cmd
      /\ Size > 1 /\ from \in Location /\ to \in Location /\ from # to =>
           h.nav.at > 1 /\ h.nav.list[h.nav.at - 1] = from
  BY <1>1, <1>4, <1>5, JumpIs
<1> HIDE DEF h
<1>7. top = Top(h) /\ rest = Front(h.bufs)
  BY <1>6 DEF Top
<1>8. f = Pop(ed)
  BY <1>7 DEF Pop, WithoutTop, h, from, to
<1> HIDE DEF top, rest
<1>9. EditorOK(f) /\ f.cmd = NoCmd /\ f.nav = h.nav /\ f.bufs = rest /\ f.text = [h.text EXCEPT ![top] = FALSE]
  <2>1. h.bufs # <<>> /\ h.cmd = NoCmd
    BY <1>1, <1>6
  <2>2. QED
    BY <1>6, <1>7, <2>1, BufsDropped
<1> HIDE DEF f
<1>10. LeadsBack(ed, f)
  <2>1. SUFFICES ASSUME rest # <<>>, Size > 1, Last(rest) # top, ed.text[top], f.text[Last(rest)]
                 PROVE  /\ f.nav.at > 1
                        /\ f.nav.list[f.nav.at - 1].path = top
                        /\ f.nav.list[f.nav.at - 1].position = g.cursor[top]
    BY <1>2, <1>9 DEF LeadsBack, Top, g
  <2>2. g.text[Last(rest)]
    <3>1. h.text \in [Path -> BOOLEAN]
      BY <1>6, EditorFields
    <3>2. h.text[Last(rest)]
      BY <1>3, <1>9, <2>1, <3>1
    <3>3. QED
      BY <1>6, <3>2
  <2>3. from \in Location /\ to \in Location /\ from # to
    BY <1>1, <1>4, <1>5, <2>1, <2>2
  <2>4. QED
    BY <1>1, <1>4, <1>6, <1>9, <2>1, <2>3
<1>11. QED
  BY <1>8, <1>9, <1>10

-----------------------------------------------------------------------------
(* The prompts. *)

LEMMA FileMatchesIs ==
  ASSUME NEW ed, EditorOK(ed), ed.bufs # <<>>, NEW query
  PROVE  LET m == FileMatches(ed, query) IN
           /\ m \in Seq(Path) /\ IsInjective(m)
           /\ query = Path /\ Len(ed.bufs) > 1 => m[1] = ed.bufs[Len(ed.bufs) - 1]
<1> DEFINE s == CurrentLast(ed)
           q == Matching(query, s)
           T == (ed.files \cap query) \ Open(ed)
           r == SetToSeq(T)
           m == q \o r
<1>1. ed.bufs \in Seq(Path) /\ IsInjective(ed.bufs) /\ ed.files \subseteq Path /\ IsFiniteSet(ed.files)
  BY EditorFields
<1>2. /\ s \in Seq(Path) /\ IsInjective(s) /\ Range(s) \subseteq Open(ed) /\ Len(s) = Len(ed.bufs)
      /\ Len(ed.bufs) > 1 => s[1] = ed.bufs[Len(ed.bufs) - 1]
  BY <1>1, CurrentIsLast DEF CurrentLast, Top, Open
<1> HIDE DEF s
<1>3. q \in Seq(Path) /\ IsInjective(q) /\ Range(q) \subseteq Open(ed) /\ (query = Path => q = s)
  BY <1>2, MatchingIs
<1> HIDE DEF q
<1>4. T \subseteq Path /\ IsFiniteSet(T) /\ \A x \in T : x \notin Open(ed)
  BY <1>1, FS_Subset
<1> HIDE DEF T
<1>5. r \in Seq(T) /\ IsInjective(r)
  BY <1>4, SetToSeqIs
<1> HIDE DEF r
<1>6. Len(q) \in Nat /\ DOMAIN q = 1 .. Len(q) /\ \A j \in 1 .. Len(r) : r[j] \in T
  BY <1>3, <1>5, LenProperties, ElementOfSeq
<1>7. r \in Seq(Path)
  BY <1>4, <1>5, SMT
<1>8. ASSUME NEW i \in 1 .. Len(q), NEW j \in 1 .. Len(r)
      PROVE  q[i] # r[j]
  <2>1. q[i] \in Open(ed)
    BY <1>3, <1>6 DEF Range
  <2>2. QED
    BY <1>4, <1>6, <2>1
<1>9. m \in Seq(Path) /\ IsInjective(m) /\ \A i \in 1 .. Len(q) : m[i] = q[i]
  BY <1>3, <1>5, <1>7, <1>8, Joined
<1> HIDE DEF m
<1>10. query = Path /\ Len(ed.bufs) > 1 => m[1] = ed.bufs[Len(ed.bufs) - 1]
  <2>1. SUFFICES ASSUME query = Path, Len(ed.bufs) > 1
                 PROVE  m[1] = ed.bufs[Len(ed.bufs) - 1]
    OBVIOUS
  <2>2. 1 \in 1 .. Len(q)
    BY <1>2, <1>3, <1>6, <2>1
  <2>3. QED
    BY <1>2, <1>3, <1>9, <2>1, <2>2
<1>11. FileMatches(ed, query) = m
  BY DEF FileMatches, m, q, r, s, T
<1>12. QED
  BY <1>9, <1>10, <1>11

(* What all command lines have in common. *)
PromptOK(ed, c) ==
  /\ c \in CmdLine
  /\ ed.bufs # <<>>
  /\ c.buf = Top(ed)
  /\ ed.mode[c.buf] = "normal"
  /\ c.resume => ed.text[c.buf]

(* f is ed with another command line. *)
OnlyCmdDiffers(ed, f) ==
  /\ f.bufs = ed.bufs /\ f.text = ed.text /\ f.cursor = ed.cursor /\ f.mode = ed.mode
  /\ f.nav = ed.nav /\ f.files = ed.files

(* d returns to what c returns to. *)
SameReturn(c, d) ==
  /\ d.buf = c.buf /\ d.resume = c.resume
  /\ d.kind = "search" <=> c.kind = "search"
  /\ d.origin = c.origin

LEMMA Prompted ==
  ASSUME NEW ed, EditorOK(ed), NEW c, PromptOK(ed, c), c.kind # "picker"
  PROVE  LET f == [ed EXCEPT !.cmd = c] IN EditorOK(f) /\ f.cmd = c /\ OnlyCmdDiffers(ed, f)
<1>1. c \in CmdLine
  BY DEF PromptOK
<1>2. CmdLineOK([ed EXCEPT !.cmd = c])
  BY DEF EditorOK, Editor, PromptOK, CmdLineOK, Top
<1>3. QED
  BY <1>1, <1>2, CmdSet DEF OnlyCmdDiffers

LEMMA Refreshed ==
  ASSUME NEW ed, EditorOK(ed), NEW c, PromptOK(ed, c), c.kind = "picker", c.id \in Pickers,
         NEW query \in Queries
  PROVE  LET f == Refresh([ed EXCEPT !.cmd = c], query) IN
           /\ EditorOK(f) /\ OnlyCmdDiffers(ed, f) /\ SameReturn(c, f.cmd)
           /\ f.cmd.kind = "picker" /\ f.cmd.id = c.id /\ f.cmd.loading = c.loading /\ f.cmd.query = query
<1> DEFINE g == [ed EXCEPT !.cmd = c]
           m == FileMatches(g, query)
           d == [c EXCEPT !.query = query, !.matches = m, !.sel = 1]
           f == [ed EXCEPT !.cmd = d]
<1>1. g.bufs = ed.bufs /\ g.files = ed.files /\ g.cmd = c
  BY DEF EditorOK, Editor
<1>2. m = FileMatches(ed, query)
  BY <1>1 DEF FileMatches, CurrentLast, Top, Open
<1>3. /\ m \in Seq(Path) /\ IsInjective(m)
      /\ query = Path /\ Len(ed.bufs) > 1 => m[1] = ed.bufs[Len(ed.bufs) - 1]
  BY <1>2, FileMatchesIs DEF PromptOK
<1>4. Refresh(g, query) = f
  BY DEF Refresh, EditorOK, Editor
<1> HIDE DEF g, m
<1>5. /\ d \in CmdLine /\ SameReturn(c, d)
      /\ d.kind = "picker" /\ d.id = c.id /\ d.loading = c.loading /\ d.query = query /\ d.matches = m /\ d.sel = 1
  <2>1. c \in CmdLine /\ query \subseteq Path
    BY QueriesAssumption DEF PromptOK
  <2>2. /\ d.kind = c.kind /\ d.buf = c.buf /\ d.resume = c.resume /\ d.origin = c.origin
        /\ d.id = c.id /\ d.loading = c.loading /\ d.query = query /\ d.matches = m /\ d.sel = 1
    BY <2>1 DEF CmdLine
  <2>3. d \in CmdLine
    <3> DEFINE x == [c EXCEPT !.query = query]
               y == [x EXCEPT !.matches = m]
    <3>1. x \in CmdLine
      BY <2>1 DEF CmdLine
    <3>2. d = [y EXCEPT !.sel = 1]
      OBVIOUS
    <3> HIDE DEF x, d
    <3>3. y \in CmdLine
      BY <1>3, <3>1 DEF CmdLine
    <3> HIDE DEF y
    <3>4. \A i \in Int : [y EXCEPT !.sel = i] \in CmdLine
      BY <3>3 DEF CmdLine
    <3>5. QED
      BY <3>2, <3>4
  <2>4. QED
    BY <2>2, <2>3 DEF SameReturn
<1> HIDE DEF d
<1>6. CmdLineOK(f)
  <2>1. f.cmd = d /\ f.bufs = ed.bufs /\ f.mode = ed.mode /\ f.text = ed.text
    BY DEF EditorOK, Editor
  <2>2. d.sel \in 1 .. Len(d.matches) \/ d.matches = <<>>
    BY <1>3, <1>5, LenProperties, EmptySeq
  <2> HIDE DEF f
  <2>3. PickerOK(f)
    BY <1>3, <1>5, <2>1, <2>2 DEF PickerOK
  <2>4. QED
    BY <1>5, <2>1, <2>3 DEF CmdLineOK, PromptOK, SameReturn, Top
<1>7. EditorOK(f) /\ f.cmd = d /\ OnlyCmdDiffers(ed, f)
  BY <1>5, <1>6, CmdSet DEF OnlyCmdDiffers
<1> HIDE DEF f
<1>8. QED
  BY <1>4, <1>5, <1>7 DEF g

LEMMA Started ==
  ASSUME NEW ed, EditorOK(ed), NEW c, PromptOK(ed, c), c.kind # "search", NEW id \in Pickers
  PROVE  LET f == StartPicker([ed EXCEPT !.cmd = c], id) IN
           /\ EditorOK(f) /\ OnlyCmdDiffers(ed, f) /\ SameReturn(c, f.cmd)
           /\ f.cmd.kind = "picker" /\ f.cmd.id = id /\ f.cmd.loading
<1> DEFINE d == [c EXCEPT !.kind = "picker", !.id = id, !.loading = TRUE]
           f == Refresh([ed EXCEPT !.cmd = d], Path)
<1>1. d \in CmdLine /\ SameReturn(c, d) /\ d.kind = "picker" /\ d.id = id /\ d.loading
  BY DEF PromptOK, CmdLine, SameReturn, Kinds
<1>2. PromptOK(ed, d)
  BY <1>1 DEF PromptOK, SameReturn
<1>3. StartPicker([ed EXCEPT !.cmd = c], id) = f
  BY DEF StartPicker, EditorOK, Editor
<1> HIDE DEF d
<1>4. /\ EditorOK(f) /\ OnlyCmdDiffers(ed, f) /\ SameReturn(d, f.cmd)
      /\ f.cmd.kind = "picker" /\ f.cmd.id = d.id /\ f.cmd.loading = d.loading
  <2>1. Path \in Queries /\ d.kind = "picker" /\ d.id \in Pickers
    BY <1>1, QueriesAssumption
  <2>2. QED
    BY <1>2, <2>1, Refreshed
<1> HIDE DEF f
<1>5. SameReturn(c, f.cmd)
  BY <1>1, <1>4 DEF SameReturn
<1>6. QED
  BY <1>1, <1>3, <1>4, <1>5

(* A prompt becomes another one. *)
LEMMA Turned ==
  ASSUME NEW ed, EditorOK(ed), ed.cmd # NoCmd, NEW kind \in Kinds
  PROVE  LET c == Cmd(kind, ed.cmd.buf, ed.cmd.resume, ed.cmd.origin, None, FALSE, {}, <<>>, 1) IN
           /\ Becomes(ed, kind) = [ed EXCEPT !.cmd = c]
           /\ PromptOK(ed, c) /\ c.kind = kind
           /\ c.buf = ed.cmd.buf /\ c.resume = ed.cmd.resume /\ c.origin = ed.cmd.origin
<1> DEFINE c == Cmd(kind, ed.cmd.buf, ed.cmd.resume, ed.cmd.origin, None, FALSE, {}, <<>>, 1)
<1>1. ed.cmd.buf \in Path /\ ed.cmd.resume \in BOOLEAN /\ ed.cmd.origin \in Pos /\ CmdLineOK(ed)
  BY DEF EditorOK, Editor, CmdLine
<1>2. Becomes(ed, kind) = [ed EXCEPT !.cmd = c]
  BY DEF Becomes
<1>3. c.kind = kind /\ c.buf = ed.cmd.buf /\ c.resume = ed.cmd.resume /\ c.origin = ed.cmd.origin
  BY DEF Cmd
<1>4. c \in CmdLine
  <2>1. <<>> \in Seq(Path)
    BY EmptySeq
  <2>2. QED
    BY <1>1, <2>1 DEF Cmd, CmdLine
<1>5. QED
  BY <1>1, <1>2, <1>3, <1>4 DEF PromptOK, CmdLineOK

(* A prompt is opened: the buffer leaves the insert mode, and what it returns to is noted. *)
LEMMA LineOpened ==
  ASSUME NEW ed, EditorOK(ed), ed.bufs # <<>>, NEW kind \in Kinds
  PROVE  LET b == Top(ed)
             g == CancelCmdLine(ed)
         IN  \E h, c :
               /\ OpenCmdLine(ed, kind) = [h EXCEPT !.cmd = c]
               /\ EditorOK(h) /\ PromptOK(h, c)
               /\ h.bufs = ed.bufs /\ h.text = g.text /\ h.cursor = g.cursor /\ h.nav = g.nav /\ h.files = g.files
               /\ h.mode = [g.mode EXCEPT ![b] = "normal"]
               /\ c.kind = kind /\ c.buf = b /\ c.resume = (g.mode[b] = "insert")
               /\ kind = "search" => c.origin = g.cursor[b]
<1> DEFINE b == Top(ed)
           g == CancelCmdLine(ed)
           h == [g EXCEPT !.mode[b] = "normal"]
           resume == g.mode[b] = "insert"
           origin == IF kind = "search" THEN g.cursor[b] ELSE Start
           c == Cmd(kind, b, resume, origin, None, FALSE, {}, <<>>, 1)
<1>1. b \in Path
  BY TopIs
<1>2. EditorOK(g) /\ g.cmd = NoCmd /\ g.bufs = ed.bufs
  BY CancelIs
<1>3. OpenCmdLine(ed, kind) = [h EXCEPT !.cmd = c]
  BY DEF OpenCmdLine, NotedAfter
<1> HIDE DEF g
<1>4. /\ EditorOK(h) /\ h.mode = [g.mode EXCEPT ![b] = "normal"]
      /\ h.bufs = g.bufs /\ h.text = g.text /\ h.cursor = g.cursor /\ h.nav = g.nav /\ h.files = g.files
  BY <1>1, <1>2, NormalSet
<1> HIDE DEF h
<1>5. g.mode \in [Path -> {"normal", "insert"}] /\ g.cursor \in [Path -> Pos] /\ (g.mode[b] = "insert" => g.text[b])
  BY <1>1, <1>2 DEF EditorOK, Editor, BufsOK
<1>6. origin \in Pos /\ resume \in BOOLEAN
  BY <1>1, <1>5, StartAssumption
<1>7. c.kind = kind /\ c.buf = b /\ c.resume = resume /\ c.origin = origin
  BY DEF Cmd
<1>8. c \in CmdLine
  <2>1. <<>> \in Seq(Path)
    BY EmptySeq
  <2> HIDE DEF origin, resume, b
  <2>2. QED
    BY <1>1, <1>6, <2>1 DEF Cmd, CmdLine
<1>9. PromptOK(h, c)
  <2>1. h.mode[b] = "normal" /\ Top(h) = b /\ h.bufs # <<>>
    BY <1>1, <1>2, <1>4, <1>5 DEF Top
  <2>2. resume => h.text[b]
    BY <1>4, <1>5
  <2> HIDE DEF c, b, resume
  <2>3. QED
    BY <1>7, <1>8, <2>1, <2>2 DEF PromptOK
<1> HIDE DEF c
<1>10. QED
  BY <1>2, <1>3, <1>4, <1>7, <1>9 DEF g

-----------------------------------------------------------------------------
(* What remains when the command line is cancelled. *)

LEMMA EditorsEqual ==
  ASSUME NEW f \in Editor, NEW g \in Editor, OnlyCmdDiffers(f, g), f.cmd = g.cmd
  PROVE  f = g
BY DEF Editor, OnlyCmdDiffers

LEMMA SameCancelled ==
  ASSUME NEW ed, EditorOK(ed), ed.cmd # NoCmd, NEW f, EditorOK(f), f.cmd # NoCmd,
         SameReturn(ed.cmd, f.cmd), OnlyCmdDiffers(ed, f)
  PROVE  CancelCmdLine(f) = CancelCmdLine(ed)
<1> DEFINE x == CancelCmdLine(f)
           y == CancelCmdLine(ed)
<1>1. /\ EditorOK(x) /\ x.cmd = NoCmd
      /\ x.bufs = f.bufs /\ x.text = f.text /\ x.nav = f.nav /\ x.files = f.files
      /\ x.cursor = IF f.cmd.kind = "search" THEN [f.cursor EXCEPT ![f.cmd.buf] = f.cmd.origin] ELSE f.cursor
      /\ x.mode = IF f.cmd.resume /\ f.text[f.cmd.buf] THEN [f.mode EXCEPT ![f.cmd.buf] = "insert"] ELSE f.mode
  BY CancelIs
<1>2. /\ EditorOK(y) /\ y.cmd = NoCmd
      /\ y.bufs = ed.bufs /\ y.text = ed.text /\ y.nav = ed.nav /\ y.files = ed.files
      /\ y.cursor = IF ed.cmd.kind = "search" THEN [ed.cursor EXCEPT ![ed.cmd.buf] = ed.cmd.origin] ELSE ed.cursor
      /\ y.mode = IF ed.cmd.resume /\ ed.text[ed.cmd.buf] THEN [ed.mode EXCEPT ![ed.cmd.buf] = "insert"] ELSE ed.mode
  BY CancelIs
<1> HIDE DEF x, y
<1>3. x \in Editor /\ y \in Editor /\ x.cmd = y.cmd
  BY <1>1, <1>2 DEF EditorOK
<1>4. OnlyCmdDiffers(x, y)
  BY <1>1, <1>2 DEF OnlyCmdDiffers, SameReturn
<1>5. QED
  BY <1>3, <1>4, EditorsEqual DEF x, y

(* A prompt that is opened and cancelled has changed nothing. *)
LEMMA OpenedCancelled ==
  ASSUME NEW ed, EditorOK(ed), NEW h, EditorOK(h), NEW b \in Path, NEW f, EditorOK(f), f.cmd # NoCmd,
         OnlyCmdDiffers(h, f), NEW g, g = CancelCmdLine(ed),
         /\ h.bufs = g.bufs /\ h.text = g.text /\ h.cursor = g.cursor /\ h.nav = g.nav /\ h.files = g.files
         /\ h.mode = [g.mode EXCEPT ![b] = "normal"]
         /\ f.cmd.buf = b /\ f.cmd.resume = (g.mode[b] = "insert")
         /\ f.cmd.kind = "search" => f.cmd.origin = g.cursor[b]
  PROVE  CancelCmdLine(f) = g
<1> DEFINE x == CancelCmdLine(f)
<1>1. EditorOK(g) /\ g.cmd = NoCmd
  BY CancelIs
<1>2. /\ h.bufs = g.bufs /\ h.text = g.text /\ h.cursor = g.cursor /\ h.nav = g.nav /\ h.files = g.files
      /\ h.mode = [g.mode EXCEPT ![b] = "normal"]
      /\ f.cmd.buf = b /\ f.cmd.resume = (g.mode[b] = "insert")
      /\ f.cmd.kind = "search" => f.cmd.origin = g.cursor[b]
  OBVIOUS
<1>3. /\ EditorOK(x) /\ x.cmd = NoCmd
      /\ x.bufs = f.bufs /\ x.text = f.text /\ x.nav = f.nav /\ x.files = f.files
      /\ x.cursor = IF f.cmd.kind = "search" THEN [f.cursor EXCEPT ![f.cmd.buf] = f.cmd.origin] ELSE f.cursor
      /\ x.mode = IF f.cmd.resume /\ f.text[f.cmd.buf] THEN [f.mode EXCEPT ![f.cmd.buf] = "insert"] ELSE f.mode
  BY CancelIs
<1> HIDE DEF x
<1>4. g.mode \in [Path -> {"normal", "insert"}] /\ g.cursor \in [Path -> Pos] /\ (g.mode[b] = "insert" => g.text[b])
  BY <1>1 DEF EditorOK, Editor, BufsOK
<1>5. x.cursor = g.cursor
  BY <1>2, <1>3, <1>4 DEF OnlyCmdDiffers
<1>6. x.mode = g.mode
  <2>1. CASE g.mode[b] = "insert"
    <3>1. x.mode = [[g.mode EXCEPT ![b] = "normal"] EXCEPT ![b] = "insert"]
      BY <1>2, <1>3, <1>4, <2>1 DEF OnlyCmdDiffers
    <3>2. QED
      BY <1>4, <2>1, <3>1
  <2>2. CASE g.mode[b] # "insert"
    <3>1. x.mode = [g.mode EXCEPT ![b] = "normal"] /\ g.mode[b] = "normal"
      BY <1>2, <1>3, <1>4, <2>2 DEF OnlyCmdDiffers
    <3>2. QED
      BY <1>4, <3>1
  <2>3. QED
    BY <2>1, <2>2
<1>7. OnlyCmdDiffers(x, g) /\ x \in Editor /\ g \in Editor /\ x.cmd = g.cmd
  BY <1>1, <1>2, <1>3, <1>5, <1>6 DEF OnlyCmdDiffers, EditorOK
<1>8. x = g
  BY <1>7, EditorsEqual
<1>9. QED
  BY <1>8 DEF x

-----------------------------------------------------------------------------
(* The inductive invariant. *)

(* A picker waits for its list exactly while a goroutine makes it. *)
ListingOK(ed, l) == ed.cmd.kind = "picker" => (ed.cmd.loading <=> ed.cmd.id \in l)

IInv ==
  /\ EditorOK(e)
  /\ ListingOK(e, listing)
  /\ listing \subseteq Pickers

LEMMA InvIsTypeOK == IInv => TypeOK
<1> SUFFICES ASSUME IInv
             PROVE  TypeOK
  OBVIOUS
<1>1. EditorOK(e)
  BY DEF IInv
<1>2. /\ e.bufs \in Seq(Path) /\ IsInjective(e.bufs)
      /\ e.text \in [Path -> BOOLEAN] /\ e.cursor \in [Path -> Pos] /\ e.mode \in [Path -> {"normal", "insert"}]
      /\ e.files \subseteq Path
      /\ \A p \in Path : e.text[p] => p \in Open(e)
      /\ \A p \in Path : e.mode[p] = "insert" => e.text[p]
  BY <1>1 DEF EditorOK, Editor, BufsOK
<1>3. /\ e.nav.list \in Seq(Location) /\ Len(e.nav.list) \leq Size
      /\ e.nav.at \in DOMAIN e.nav.list \/ (e.nav.at = 0 /\ e.nav.list = <<>>)
  <2>1. VisitsOK(e.nav)
    BY <1>1, EditorFields
  <2>2. QED
    BY <2>1, VisitsFields DEF VisitsOK
<1>4. e.cmd = NoCmd \/ CmdOK(e.cmd)
  <2>1. SUFFICES ASSUME e.cmd # NoCmd
                 PROVE  CmdOK(e.cmd)
    OBVIOUS
  <2>2. CmdLineOK(e) /\ e.cmd \in CmdLine
    BY <1>1, <2>1 DEF EditorOK, Editor
  <2>3. e.cmd.kind \in Kinds /\ e.cmd.origin \in Pos /\ e.cmd.matches \in Seq(Path)
    BY <2>2 DEF CmdLine
  <2>4. QED
    BY <2>2, <2>3 DEF CmdOK, CmdLineOK, PickerOK, IInv, ListingOK
<1>5. QED
  BY <1>2, <1>3, <1>4 DEF TypeOK, IInv

LEMMA InitInv == Init => IInv
<1> SUFFICES ASSUME Init
             PROVE  IInv
  OBVIOUS
<1>1. PICK p \in Path :
        \E text \in BOOLEAN :
          e = [bufs |-> <<p>>,
               text |-> [q \in Path |-> q = p /\ text],
               cursor |-> [q \in Path |-> Start],
               mode |-> [q \in Path |-> "normal"],
               cmd |-> NoCmd,
               nav |-> RecordJump([list |-> <<>>, at |-> 0], TRUE, Nowhere, IF text THEN [path |-> p, position |-> Start] ELSE Nowhere),
               files |-> {}]
  BY DEF Init
<1>2. PICK text \in BOOLEAN :
          e = [bufs |-> <<p>>,
               text |-> [q \in Path |-> q = p /\ text],
               cursor |-> [q \in Path |-> Start],
               mode |-> [q \in Path |-> "normal"],
               cmd |-> NoCmd,
               nav |-> RecordJump([list |-> <<>>, at |-> 0], TRUE, Nowhere, IF text THEN [path |-> p, position |-> Start] ELSE Nowhere),
               files |-> {}]
  BY <1>1
<1> DEFINE none == [list |-> <<>>, at |-> 0]
           to == IF text THEN [path |-> p, position |-> Start] ELSE Nowhere
           nav == RecordJump(none, TRUE, Nowhere, to)
<1>3. VisitsOK(none)
  BY SizeAssumption, EmptySeq DEF VisitsOK
<1>4. to \in AnyLocation /\ Nowhere \in AnyLocation
  BY StartAssumption DEF AnyLocation, Location, Nav!Location
<1> HIDE DEF none, to
<1>5. VisitsOK(nav)
  BY <1>3, <1>4, JumpRecorded
<1> HIDE DEF nav
<1>6. nav \in [list : Seq(Location), at : Nat]
  <2>1. nav.list \in Seq(Location) /\ nav.at \in Nat /\ nav = [list |-> nav.list, at |-> nav.at]
    BY <1>5, VisitsFields DEF VisitsOK
  <2>2. QED
    BY <2>1
<1>7. /\ e.bufs = <<p>> /\ e.text = [q \in Path |-> q = p /\ text] /\ e.cursor = [q \in Path |-> Start]
      /\ e.mode = [q \in Path |-> "normal"] /\ e.cmd = NoCmd /\ e.nav = nav /\ e.files = {}
  BY <1>2 DEF nav, none, to
<1>8. <<p>> \in Seq(Path) /\ IsInjective(<<p>>) /\ p \in Range(<<p>>)
  BY DEF IsInjective, Range
<1>9. e = [bufs |-> e.bufs, text |-> e.text, cursor |-> e.cursor, mode |-> e.mode, cmd |-> e.cmd,
           nav |-> e.nav, files |-> e.files]
  BY <1>2
<1>10. e \in Editor
  BY <1>6, <1>7, <1>8, <1>9, StartAssumption DEF Editor
<1>11. BufsOK(e)
  BY <1>7, <1>8 DEF BufsOK, Open
<1>12. EditorOK(e)
  BY <1>5, <1>7, <1>10, <1>11, FS_EmptySet DEF EditorOK
<1>13. ListingOK(e, listing)
  BY <1>7 DEF ListingOK, NoCmd
<1>14. QED
  BY <1>12, <1>13 DEF IInv, Init

-----------------------------------------------------------------------------
(* The steps. *)

KeepsSelection(ed, f) ==
  Prompting(ed, "picker") /\ Prompting(f, "picker") /\ ed.cmd.id = f.cmd.id /\ ed.cmd.query = f.cmd.query =>
    Selection(f) = Selection(ed) \/ (ed.cmd.loading /\ ~f.cmd.loading)

GoodStep == IInv' /\ LeadsBack(e, e') /\ KeepsSelection(e, e')

LEMMA SameTop ==
  ASSUME NEW ed, NEW f, f.bufs = ed.bufs
  PROVE  LeadsBack(ed, f)
BY DEF LeadsBack, Top

(* The command line is closed or left alone. *)
LEMMA Kept ==
  ASSUME IInv, NEW f, EditorOK(f), f.cmd = NoCmd \/ f.cmd = e.cmd
  PROVE  ListingOK(f, listing) /\ KeepsSelection(e, f)
BY DEF IInv, ListingOK, KeepsSelection, Prompting, Selection, NoCmd

LEMMA KeptStep ==
  ASSUME IInv, EditorOK(e'), e'.cmd = NoCmd \/ e'.cmd = e.cmd, LeadsBack(e, e'), UNCHANGED listing
  PROVE  GoodStep
<1>1. ListingOK(e', listing) /\ KeepsSelection(e, e')
  BY Kept
<1>2. QED
  BY <1>1 DEF GoodStep, IInv

(* The prompt of the kind is shown. *)
LEMMA Shown ==
  ASSUME IInv, NEW h, EditorOK(h), NEW c, PromptOK(h, c), NEW kind \in Kinds, c.kind = kind,
         Show([h EXCEPT !.cmd = c], kind)
  PROVE  /\ IInv'
         /\ OnlyCmdDiffers(h, e') /\ SameReturn(c, e'.cmd) /\ e'.cmd.kind = kind /\ e'.cmd # NoCmd
<1>1. CASE kind = "picker"
  <2>1. PICK id \in FreePickers : /\ e' = StartPicker([h EXCEPT !.cmd = c], id)
                                  /\ listing' = listing \cup {id}
    BY <1>1 DEF Show
  <2>2. id \in Pickers /\ c.kind # "search"
    BY <1>1, <2>1 DEF FreePickers
  <2>3. /\ EditorOK(e') /\ OnlyCmdDiffers(h, e') /\ SameReturn(c, e'.cmd)
        /\ e'.cmd.kind = "picker" /\ e'.cmd.id = id /\ e'.cmd.loading
    BY <2>1, <2>2, Started
  <2>4. ListingOK(e', listing') /\ listing' \subseteq Pickers
    BY <2>1, <2>2, <2>3 DEF ListingOK, IInv
  <2>5. e'.cmd # NoCmd
    BY <2>3 DEF NoCmd
  <2>6. QED
    BY <1>1, <2>3, <2>4, <2>5 DEF IInv
<1>2. CASE kind # "picker"
  <2>1. e' = [h EXCEPT !.cmd = c] /\ UNCHANGED listing
    BY <1>2 DEF Show
  <2>2. EditorOK(e') /\ e'.cmd = c /\ OnlyCmdDiffers(h, e')
    BY <1>2, <2>1, Prompted
  <2>3. ListingOK(e', listing')
    BY <1>2, <2>2 DEF ListingOK
  <2>4. c # NoCmd
    BY DEF NoCmd, Kinds
  <2>5. QED
    BY <2>1, <2>2, <2>3, <2>4 DEF IInv, SameReturn
<1>3. QED
  BY <1>1, <1>2

LEMMA OpenPromptStep ==
  ASSUME IInv, NEW kind \in Kinds, OpenPrompt(kind)
  PROVE  GoodStep /\ CancelCmdLine(e') = CancelCmdLine(e)
<1> DEFINE b == Top(e)
           g == CancelCmdLine(e)
<1>1. EditorOK(e) /\ e.bufs # <<>>
  BY DEF IInv, OpenPrompt, Running
<1>2. b \in Path
  BY <1>1, TopIs
<1>3. PICK h, c :
        /\ OpenCmdLine(e, kind) = [h EXCEPT !.cmd = c]
        /\ EditorOK(h) /\ PromptOK(h, c)
        /\ h.bufs = e.bufs /\ h.text = g.text /\ h.cursor = g.cursor /\ h.nav = g.nav /\ h.files = g.files
        /\ h.mode = [g.mode EXCEPT ![b] = "normal"]
        /\ c.kind = kind /\ c.buf = b /\ c.resume = (g.mode[b] = "insert")
        /\ kind = "search" => c.origin = g.cursor[b]
  BY <1>1, LineOpened
<1>4. Show([h EXCEPT !.cmd = c], kind)
  BY <1>3 DEF OpenPrompt
<1>5. /\ IInv'
      /\ OnlyCmdDiffers(h, e') /\ SameReturn(c, e'.cmd) /\ e'.cmd.kind = kind /\ e'.cmd # NoCmd
  BY <1>3, <1>4, Shown
<1>6. EditorOK(e')
  BY <1>5 DEF IInv
<1>7. g.bufs = e.bufs
  BY <1>1, CancelIs
<1>8. g = CancelCmdLine(e)
  OBVIOUS
<1> HIDE DEF b, g
<1>9. CancelCmdLine(e') = g
  <2>1. /\ h.bufs = g.bufs /\ h.text = g.text /\ h.cursor = g.cursor /\ h.nav = g.nav /\ h.files = g.files
        /\ h.mode = [g.mode EXCEPT ![b] = "normal"]
        /\ e'.cmd.buf = b /\ e'.cmd.resume = (g.mode[b] = "insert")
        /\ e'.cmd.kind = "search" => e'.cmd.origin = g.cursor[b]
    BY <1>3, <1>5, <1>7 DEF SameReturn
  <2>2. QED
    BY <1>1, <1>2, <1>3, <1>5, <1>6, <1>8, <2>1, OpenedCancelled
<1>10. e'.bufs = e.bufs
  BY <1>3, <1>5 DEF OnlyCmdDiffers
<1>11. KeepsSelection(e, e')
  BY <1>5 DEF KeepsSelection, OpenPrompt, Prompting
<1>12. QED
  BY <1>5, <1>8, <1>9, <1>10, <1>11, SameTop DEF GoodStep

LEMMA TurnPromptStep ==
  ASSUME IInv, NEW from \in Kinds \ {"search"}, NEW to \in Kinds \ {"search"}, TurnPrompt(from, to)
  PROVE  GoodStep /\ CancelCmdLine(e') = CancelCmdLine(e)
<1> DEFINE c == Cmd(to, e.cmd.buf, e.cmd.resume, e.cmd.origin, None, FALSE, {}, <<>>, 1)
<1>1. EditorOK(e) /\ e.cmd.kind = from /\ from # to /\ (from = "ex" \/ to = "ex")
  BY DEF IInv, TurnPrompt, Prompting
<1>2. e.cmd # NoCmd
  BY <1>1 DEF NoCmd, Kinds
<1>3. /\ Becomes(e, to) = [e EXCEPT !.cmd = c]
      /\ PromptOK(e, c) /\ c.kind = to
      /\ c.buf = e.cmd.buf /\ c.resume = e.cmd.resume /\ c.origin = e.cmd.origin
  BY <1>1, <1>2, Turned
<1> HIDE DEF c
<1>4. Show([e EXCEPT !.cmd = c], to)
  BY <1>3 DEF TurnPrompt
<1>5. /\ IInv'
      /\ OnlyCmdDiffers(e, e') /\ SameReturn(c, e'.cmd) /\ e'.cmd.kind = to /\ e'.cmd # NoCmd
  BY <1>1, <1>3, <1>4, Shown
<1>6. EditorOK(e')
  BY <1>5 DEF IInv
<1>7. SameReturn(e.cmd, e'.cmd)
  BY <1>1, <1>3, <1>5 DEF SameReturn
<1>8. CancelCmdLine(e') = CancelCmdLine(e)
  BY <1>1, <1>2, <1>5, <1>6, <1>7, SameCancelled
<1>9. e'.bufs = e.bufs
  BY <1>5 DEF OnlyCmdDiffers
<1>10. KeepsSelection(e, e')
  BY <1>1, <1>5 DEF KeepsSelection, Prompting
<1>11. QED
  BY <1>5, <1>8, <1>9, <1>10, SameTop DEF GoodStep

(* An open picker. *)
LEMMA PickerFields ==
  ASSUME IInv, Prompting(e, "picker")
  PROVE  /\ EditorOK(e) /\ e.cmd # NoCmd /\ PromptOK(e, e.cmd) /\ PickerOK(e)
         /\ e = [e EXCEPT !.cmd = e.cmd]
<1>1. EditorOK(e) /\ e.cmd # NoCmd
  BY DEF IInv, Prompting, NoCmd
<1>2. CmdLineOK(e) /\ e.cmd \in CmdLine
  BY <1>1 DEF EditorOK, Editor
<1>3. e = [e EXCEPT !.cmd = e.cmd]
  BY <1>1 DEF EditorOK, Editor
<1>4. QED
  BY <1>1, <1>2, <1>3 DEF CmdLineOK, PromptOK, Prompting

LEMMA TypeQueryStep ==
  ASSUME IInv, NEW query \in Queries, TypeQuery(query)
  PROVE  GoodStep /\ CancelCmdLine(e') = CancelCmdLine(e)
<1>1. Prompting(e, "picker") /\ query # e.cmd.query /\ e' = Refresh(e, query) /\ UNCHANGED listing
  BY DEF TypeQuery
<1>2. /\ EditorOK(e) /\ e.cmd # NoCmd /\ PromptOK(e, e.cmd) /\ e.cmd.kind = "picker" /\ e.cmd.id \in Pickers
      /\ e = [e EXCEPT !.cmd = e.cmd]
  BY <1>1, PickerFields DEF PickerOK, Prompting
<1>3. e' = Refresh([e EXCEPT !.cmd = e.cmd], query)
  BY <1>1, <1>2
<1>4. /\ EditorOK(e') /\ OnlyCmdDiffers(e, e') /\ SameReturn(e.cmd, e'.cmd)
      /\ e'.cmd.kind = "picker" /\ e'.cmd.id = e.cmd.id /\ e'.cmd.loading = e.cmd.loading /\ e'.cmd.query = query
  BY <1>2, <1>3, Refreshed
<1>5. CancelCmdLine(e') = CancelCmdLine(e)
  <2>1. e'.cmd # NoCmd
    BY <1>4 DEF NoCmd
  <2>2. QED
    BY <1>2, <1>4, <2>1, SameCancelled
<1>6. IInv'
  BY <1>1, <1>2, <1>4 DEF IInv, ListingOK
<1>7. KeepsSelection(e, e') /\ LeadsBack(e, e')
  BY <1>1, <1>4, SameTop DEF KeepsSelection, OnlyCmdDiffers
<1>8. QED
  BY <1>5, <1>6, <1>7 DEF GoodStep

LEMMA MoveSelectionStep ==
  ASSUME IInv, NEW d \in {-1, 1}, MoveSelection(d)
  PROVE  IInv' /\ LeadsBack(e, e')
<1> DEFINE n == Len(e.cmd.matches)
           sel == ((e.cmd.sel - 1 + d) % n) + 1
           c == [e.cmd EXCEPT !.sel = sel]
<1>1. Prompting(e, "picker") /\ e.cmd.matches # <<>> /\ UNCHANGED listing
  BY DEF MoveSelection
<1>2. EditorOK(e) /\ PromptOK(e, e.cmd) /\ PickerOK(e) /\ e.cmd \in CmdLine /\ e.cmd.kind = "picker"
  BY <1>1, PickerFields DEF PromptOK, Prompting
<1>3. e.cmd.matches \in Seq(Path) /\ e.cmd.sel \in Int
  BY <1>2 DEF CmdLine
<1>4. n \in Nat \ {0}
  BY <1>1, <1>3, LenProperties, EmptySeq
<1>5. sel \in 1 .. n /\ sel \in Int
  <2>1. ASSUME NEW x \in Int, NEW k \in Nat \ {0}
        PROVE  (x % k) + 1 \in 1 .. k
    OBVIOUS
  <2>2. e.cmd.sel - 1 + d \in Int
    BY <1>3
  <2> HIDE DEF n
  <2>3. QED
    BY <1>4, <2>1, <2>2
<1>6. e' = [e EXCEPT !.cmd = c]
  BY <1>2 DEF MoveSelection, EditorOK, Editor
<1> HIDE DEF sel
<1>7. /\ c.kind = "picker" /\ c.buf = e.cmd.buf /\ c.resume = e.cmd.resume /\ c.id = e.cmd.id
      /\ c.loading = e.cmd.loading /\ c.query = e.cmd.query /\ c.matches = e.cmd.matches /\ c.sel = sel
  BY <1>2 DEF CmdLine
<1>8. c \in CmdLine
  BY <1>2, <1>5 DEF CmdLine
<1> HIDE DEF c
<1>9. CmdLineOK([e EXCEPT !.cmd = c])
  <2> DEFINE f == [e EXCEPT !.cmd = c]
  <2>1. f.cmd = c /\ f.bufs = e.bufs /\ f.mode = e.mode /\ f.text = e.text
    BY <1>2 DEF EditorOK, Editor
  <2> HIDE DEF f
  <2>2. PickerOK(f)
    BY <1>2, <1>5, <1>7, <2>1 DEF PickerOK
  <2>3. CmdLineOK(f)
    BY <1>2, <1>7, <2>1, <2>2 DEF CmdLineOK, PromptOK, Top
  <2>4. QED
    BY <2>3 DEF f
<1>10. EditorOK(e') /\ e'.cmd = c /\ e'.bufs = e.bufs
  BY <1>2, <1>6, <1>8, <1>9, CmdSet
<1>11. IInv'
  BY <1>1, <1>2, <1>7, <1>10 DEF IInv, ListingOK
<1>12. QED
  BY <1>10, <1>11, SameTop

LEMMA TypePatternStep ==
  ASSUME IInv, NEW pos \in Pos, TypePattern(pos)
  PROVE  GoodStep /\ CancelCmdLine(e') = CancelCmdLine(e)
<1>1. /\ EditorOK(e) /\ e.cmd # NoCmd /\ e.cmd.kind = "search" /\ e.cmd.buf \in Path
      /\ e' = [e EXCEPT !.cursor[e.cmd.buf] = pos] /\ UNCHANGED listing
  <2>1. EditorOK(e) /\ e.cmd # NoCmd
    BY DEF IInv, TypePattern, Prompting, NoCmd
  <2>2. e.cmd.buf \in Path
    BY <2>1, CancelIs
  <2>3. QED
    BY <2>1, <2>2 DEF TypePattern, Prompting
<1>2. /\ EditorOK(e') /\ e'.cursor = [e.cursor EXCEPT ![e.cmd.buf] = pos]
      /\ e'.bufs = e.bufs /\ e'.text = e.text /\ e'.mode = e.mode /\ e'.cmd = e.cmd
      /\ e'.nav = e.nav /\ e'.files = e.files
  BY <1>1, CursorSet
<1>3. CancelCmdLine(e') = CancelCmdLine(e)
  <2> DEFINE x == CancelCmdLine(e')
             y == CancelCmdLine(e)
             buf == e.cmd.buf
  <2>1. /\ EditorOK(x) /\ x.cmd = NoCmd
        /\ x.bufs = e'.bufs /\ x.text = e'.text /\ x.nav = e'.nav /\ x.files = e'.files
        /\ x.cursor = [e'.cursor EXCEPT ![buf] = e.cmd.origin]
        /\ x.mode = IF e.cmd.resume /\ e'.text[buf] THEN [e'.mode EXCEPT ![buf] = "insert"] ELSE e'.mode
    <3> HIDE DEF x
    <3>1. e'.cmd # NoCmd /\ e'.cmd.kind = "search" /\ e'.cmd.buf = buf
      BY <1>1, <1>2
    <3>2. QED
      BY <1>2, <3>1, CancelIs DEF x
  <2>2. /\ EditorOK(y) /\ y.cmd = NoCmd
        /\ y.bufs = e.bufs /\ y.text = e.text /\ y.nav = e.nav /\ y.files = e.files
        /\ y.cursor = [e.cursor EXCEPT ![buf] = e.cmd.origin]
        /\ y.mode = IF e.cmd.resume /\ e.text[buf] THEN [e.mode EXCEPT ![buf] = "insert"] ELSE e.mode
    BY <1>1, CancelIs
  <2> HIDE DEF x, y
  <2>3. x.cursor = y.cursor
    <3>1. e.cursor \in [Path -> Pos]
      BY <1>1, EditorFields
    <3>2. QED
      BY <1>2, <2>1, <2>2, <3>1
  <2>4. x \in Editor /\ y \in Editor /\ OnlyCmdDiffers(x, y) /\ x.cmd = y.cmd
    BY <1>2, <2>1, <2>2, <2>3 DEF OnlyCmdDiffers, EditorOK
  <2>5. x = y
    BY <2>4, EditorsEqual
  <2>6. QED
    BY <2>5 DEF x, y
<1>4. QED
  BY <1>1, <1>2, <1>3, SameTop, KeptStep

LEMMA CancelStep ==
  ASSUME IInv, Cancel
  PROVE  GoodStep /\ CancelCmdLine(e') = CancelCmdLine(e)
<1>1. EditorOK(e) /\ e' = CancelCmdLine(e) /\ UNCHANGED listing
  BY DEF IInv, Cancel
<1>2. EditorOK(e') /\ e'.cmd = NoCmd /\ e'.bufs = e.bufs
  BY <1>1, CancelIs
<1>3. CancelCmdLine(e') = e'
  BY <1>2, CancelIs
<1>4. QED
  BY <1>1, <1>2, <1>3, SameTop, KeptStep

-----------------------------------------------------------------------------
(* Enter. *)

LEMMA LedBack ==
  ASSUME NEW ed, NEW x, x.bufs = ed.bufs, x.text = ed.text, x.cursor = ed.cursor, x.cmd = NoCmd,
         NEW f, LeadsBack(x, f), NEW g, g.bufs = f.bufs, g.text = f.text, g.nav = f.nav
  PROVE  LeadsBack(ed, g)
<1>1. CancelCmdLine(x) = x /\ Top(x) = Top(ed) /\ Top(g) = Top(f)
  BY DEF CancelCmdLine, Top
<1>2. QED
  BY <1>1 DEF LeadsBack

LEMMA EnteredIs ==
  ASSUME IInv
  PROVE  /\ EditorOK(e) /\ EditorOK(Entered) /\ Entered.cmd = NoCmd
         /\ Entered.bufs = e.bufs /\ Entered.text = e.text /\ Entered.cursor = e.cursor
<1>1. EditorOK(e)
  BY DEF IInv
<1>2. QED
  BY <1>1, Unprompted DEF Entered

LEMMA PromptingIs ==
  ASSUME IInv, NEW kind \in Kinds, Prompting(e, kind)
  PROVE  e.cmd \in CmdLine /\ e.cmd # NoCmd
<1>1. e \in Editor
  BY DEF IInv, EditorOK
<1>2. QED
  BY <1>1, CmdKinds DEF Prompting

LEMMA SubmitStep ==
  ASSUME IInv, NEW kind \in Kinds, NEW ran, EditorOK(ran), ran.cmd = NoCmd, LeadsBack(Entered, ran),
         Submit(kind, ran)
  PROVE  GoodStep
<1>1. e.cmd \in CmdLine
  BY PromptingIs DEF Submit
<1>2. e' = Resume(ran, e.cmd) /\ UNCHANGED listing
  BY DEF Submit
<1>3. EditorOK(e') /\ e'.cmd = NoCmd /\ e'.bufs = ran.bufs /\ e'.text = ran.text /\ e'.nav = ran.nav
  BY <1>1, <1>2, ResumeIs
<1>4. LeadsBack(e, e')
  BY <1>3, EnteredIs, LedBack
<1>5. QED
  BY <1>2, <1>3, <1>4, KeptStep

(* The cursor goes to a line or to a match. *)
LEMMA SubmitCursorStep ==
  ASSUME IInv, NEW kind \in Kinds, NEW pos \in Pos, Submit(kind, [Entered EXCEPT !.cursor[Top(e)] = pos])
  PROVE  GoodStep
<1> DEFINE ran == [Entered EXCEPT !.cursor[Top(e)] = pos]
<1>1. EditorOK(Entered) /\ Entered.cmd = NoCmd /\ EditorOK(e) /\ e.bufs # <<>>
  BY EnteredIs DEF Submit, Running
<1>2. Top(e) \in Path
  BY <1>1, TopIs
<1>3. EditorOK(ran) /\ ran.bufs = Entered.bufs /\ ran.cmd = NoCmd
  BY <1>1, <1>2, CursorSet
<1>4. Submit(kind, ran)
  OBVIOUS
<1> HIDE DEF ran
<1>5. LeadsBack(Entered, ran)
  BY <1>3, SameTop
<1>6. QED
  BY <1>3, <1>4, <1>5, SubmitStep

LEMMA SubmitLineStep == IInv /\ SubmitLine => GoodStep
<1> SUFFICES ASSUME IInv, SubmitLine
             PROVE  GoodStep
  OBVIOUS
<1>1. PICK pos \in Pos : Submit("ex", [Entered EXCEPT !.cursor[Top(e)] = pos])
  BY DEF SubmitLine
<1>2. QED
  BY <1>1, SubmitCursorStep DEF Kinds

LEMMA SubmitSearchStep == IInv /\ SubmitSearch => GoodStep
<1> SUFFICES ASSUME IInv, SubmitSearch
             PROVE  GoodStep
  OBVIOUS
<1>1. PICK pos \in Pos : Submit("search", [Entered EXCEPT !.cursor[Top(e)] = pos])
  BY DEF SubmitSearch
<1>2. QED
  BY <1>1, SubmitCursorStep DEF Kinds

LEMMA SubmitQuitStep == IInv /\ SubmitQuit => GoodStep
<1> SUFFICES ASSUME IInv, SubmitQuit
             PROVE  GoodStep
  OBVIOUS
<1> DEFINE x == Resume(Entered, e.cmd)
<1>1. e.bufs # <<>> /\ Prompting(e, "ex") /\ e' = Pop(x) /\ UNCHANGED listing
  BY DEF SubmitQuit, Running
<1>2. e.cmd \in CmdLine
  BY <1>1, PromptingIs DEF Kinds
<1>3. EditorOK(x) /\ x.cmd = NoCmd /\ x.bufs = e.bufs /\ x.text = e.text /\ x.cursor = e.cursor
  BY <1>2, EnteredIs, ResumeIs
<1> HIDE DEF x
<1>4. EditorOK(e') /\ e'.cmd = NoCmd /\ LeadsBack(x, e')
  BY <1>1, <1>3, PopIs
<1>5. LeadsBack(e, e')
  BY <1>3, <1>4, LedBack
<1>6. QED
  BY <1>1, <1>4, <1>5, KeptStep

LEMMA SubmitPathStep == IInv /\ SubmitPath => GoodStep
<1> SUFFICES ASSUME IInv, SubmitPath
             PROVE  GoodStep
  OBVIOUS
<1>1. PICK p \in Path : \E outcome \in Outcomes(p) :
        \/ Submit("picker", OpenPath(Entered, p, TRUE, outcome))
        \/ Submit("new", OpenPath(Entered, p, TRUE, outcome))
  BY DEF SubmitPath
<1>2. PICK outcome \in Outcomes(p) :
        \/ Submit("picker", OpenPath(Entered, p, TRUE, outcome))
        \/ Submit("new", OpenPath(Entered, p, TRUE, outcome))
  BY <1>1
<1> DEFINE ran == OpenPath(Entered, p, TRUE, outcome)
<1>3. EditorOK(Entered) /\ Entered.bufs # <<>> /\ Entered.cmd = NoCmd /\ Open(Entered) = Open(e)
  BY <1>2, EnteredIs DEF Submit, Running, Open
<1>4. outcome \in IF p \in Open(Entered) THEN {"activated"} ELSE {"text", "error", "elsewhere"}
  BY <1>3 DEF Outcomes
<1>5. EditorOK(ran) /\ ran.cmd = NoCmd /\ LeadsBack(Entered, ran)
  BY <1>3, <1>4, OpenPathIs
<1> HIDE DEF ran
<1>6. Submit("picker", ran) \/ Submit("new", ran)
  BY <1>2 DEF ran
<1>7. QED
  BY <1>5, <1>6, SubmitStep DEF Kinds

-----------------------------------------------------------------------------
(* Other keys and commands. *)

LEMMA MoveCursorStep ==
  ASSUME IInv, NEW pos \in Pos, MoveCursor(pos)
  PROVE  GoodStep
<1>1. EditorOK(e) /\ e.bufs # <<>> /\ e' = [e EXCEPT !.cursor[Top(e)] = pos] /\ UNCHANGED listing
  BY DEF IInv, MoveCursor, Running
<1>2. Top(e) \in Path
  BY <1>1, TopIs
<1>3. EditorOK(e') /\ e'.bufs = e.bufs /\ e'.cmd = e.cmd
  BY <1>1, <1>2, CursorSet
<1>4. QED
  BY <1>1, <1>3, SameTop, KeptStep

LEMMA SetModeStep ==
  ASSUME IInv, NEW mode \in {"normal", "insert"}, SetMode(mode)
  PROVE  GoodStep
<1>1. /\ EditorOK(e) /\ e.bufs # <<>> /\ e.cmd = NoCmd /\ (mode = "insert" => e.text[Top(e)])
      /\ e' = [e EXCEPT !.mode[Top(e)] = mode] /\ UNCHANGED listing
  BY DEF IInv, SetMode, Running
<1>2. Top(e) \in Path
  BY <1>1, TopIs
<1>3. EditorOK(e') /\ e'.bufs = e.bufs /\ e'.cmd = e.cmd
  <2>1. CASE mode = "insert"
    BY <1>1, <1>2, <2>1, InsertSet
  <2>2. CASE mode = "normal"
    BY <1>1, <1>2, <2>2, NormalSet
  <2>3. QED
    BY <2>1, <2>2
<1>4. QED
  BY <1>1, <1>3, SameTop, KeptStep

LEMMA OpenFileStep ==
  ASSUME IInv, NEW p \in Path, NEW outcome \in Outcomes(p), OpenFile(p, outcome)
  PROVE  GoodStep
<1>1. EditorOK(e) /\ e.bufs # <<>> /\ e' = OpenPath(e, p, TRUE, outcome) /\ UNCHANGED listing
  BY DEF IInv, OpenFile, Running
<1>2. outcome \in IF p \in Open(e) THEN {"activated"} ELSE {"text", "error", "elsewhere"}
  BY DEF Outcomes
<1>3. EditorOK(e') /\ (e'.cmd = NoCmd \/ e'.cmd = e.cmd) /\ LeadsBack(e, e')
  BY <1>1, <1>2, OpenPathIs
<1>4. QED
  BY <1>1, <1>3, KeptStep

LEMMA GoToDefinitionStep ==
  ASSUME IInv, NEW loc \in Location, NEW outcome \in Outcomes(loc.path), GoToDefinition(loc, outcome)
  PROVE  GoodStep
<1>1. EditorOK(e) /\ e.bufs # <<>> /\ e' = GoTo(e, loc, TRUE, outcome) /\ UNCHANGED listing
  BY DEF IInv, GoToDefinition, Running
<1>2. outcome \in IF loc.path \in Open(e) THEN {"activated"} ELSE {"text", "error", "elsewhere"}
  BY DEF Outcomes
<1>3. EditorOK(e') /\ (e'.cmd = NoCmd \/ e'.cmd = e.cmd) /\ LeadsBack(e, e')
  BY <1>1, <1>2, GoToIs
<1>4. QED
  BY <1>1, <1>3, KeptStep

(* The location the history leads to is shown. *)
LEMMA Navigated ==
  ASSUME IInv, NEW i \in 1 .. Len(e.nav.list), e.bufs # <<>>,
         Navigate(MoveTo(e.nav, LocationOf(e, Top(e)), i)), UNCHANGED listing
  PROVE  IInv' /\ KeepsSelection(e, e')
<1> DEFINE from == LocationOf(e, Top(e))
           v == MoveTo(e.nav, from, i)
           ed == [e EXCEPT !.nav = v]
<1>1. EditorOK(e) /\ VisitsOK(e.nav)
  BY EditorFields DEF IInv
<1>2. from \in AnyLocation
  BY <1>1, TopIs, LocationIs
<1>3. VisitsOK(v) /\ Current(v) \in Location
  <2> HIDE DEF from
  <2>1. QED
    BY <1>1, <1>2, Moved
<1>4. PICK outcome \in Outcomes(Current(v).path) : e' = GoTo(ed, Current(v), FALSE, outcome)
  BY DEF Navigate
<1> HIDE DEF v
<1>5. EditorOK(ed) /\ ed.bufs = e.bufs /\ ed.cmd = e.cmd
  BY <1>1, <1>3, NavSet
<1> HIDE DEF ed
<1>6. outcome \in IF Current(v).path \in Open(ed) THEN {"activated"} ELSE {"text", "error", "elsewhere"}
  BY <1>4, <1>5 DEF Outcomes, Open
<1>7. EditorOK(e') /\ (e'.cmd = NoCmd \/ e'.cmd = e.cmd)
  BY <1>3, <1>4, <1>5, <1>6, GoToIs
<1>8. ListingOK(e', listing) /\ KeepsSelection(e, e')
  BY <1>7, Kept
<1>9. QED
  BY <1>7, <1>8 DEF IInv

LEMMA HistoryStep ==
  ASSUME IInv, Back \/ Forward
  PROVE  IInv' /\ KeepsSelection(e, e')
<1>1. VisitsOK(e.nav) /\ e.bufs # <<>> /\ UNCHANGED listing
  BY EditorFields DEF IInv, Back, Forward, Running
<1>2. Len(e.nav.list) \in Nat /\ e.nav.at \in 0 .. Len(e.nav.list)
  BY <1>1, VisitsFields
<1>3. CASE Back
  <2>1. e.nav.at - 1 \in 1 .. Len(e.nav.list)
    BY <1>2, <1>3 DEF Back
  <2>2. QED
    BY <1>1, <1>3, <2>1, Navigated DEF Back
<1>4. CASE Forward
  <2>1. e.nav.at + 1 \in 1 .. Len(e.nav.list)
    BY <1>2, <1>4 DEF Forward
  <2>2. QED
    BY <1>1, <1>4, <2>1, Navigated DEF Forward
<1>5. QED
  BY <1>3, <1>4

LEMMA CloseStep == IInv /\ Close => GoodStep
<1> SUFFICES ASSUME IInv, Close
             PROVE  GoodStep
  OBVIOUS
<1>1. EditorOK(e) /\ e.bufs # <<>> /\ e' = Pop(e) /\ UNCHANGED listing
  BY DEF IInv, Close, Running
<1>2. EditorOK(e') /\ e'.cmd = NoCmd /\ LeadsBack(e, e')
  BY <1>1, PopIs
<1>3. QED
  BY <1>1, <1>2, KeptStep

(* The list comes to the picker that asked for it, which then waits no more. *)
LEMMA ListedStep ==
  ASSUME IInv, NEW id \in Pickers, NEW files \in Listings, Listed(id, files)
  PROVE  GoodStep
<1> DEFINE ed == [e EXCEPT !.files = files]
           c == [ed.cmd EXCEPT !.loading = FALSE]
<1>1. EditorOK(e) /\ e.bufs # <<>> /\ id \in listing /\ listing' = listing \ {id}
  BY DEF IInv, Listed, Running
<1>2. e' = IF ThisPicker(ed, id) THEN Refresh([ed EXCEPT !.cmd.loading = FALSE], ed.cmd.query) ELSE ed
  BY DEF Listed
<1>3. EditorOK(ed) /\ ed.bufs = e.bufs /\ ed.cmd = e.cmd
  <2>1. files \subseteq Path /\ IsFiniteSet(files)
    BY QueriesAssumption
  <2>2. QED
    BY <1>1, <2>1, FilesSet
<1> HIDE DEF ed
<1>4. CASE ThisPicker(ed, id)
  <2>1. Prompting(e, "picker") /\ e.cmd.id = id /\ ed.cmd # NoCmd
    BY <1>3, <1>4 DEF ThisPicker, Prompting, NoCmd
  <2>2. CmdLineOK(ed) /\ ed.cmd \in CmdLine /\ PickerOK(ed)
    BY <1>3, <2>1 DEF EditorOK, Editor, CmdLineOK, Prompting
  <2>3. e.cmd.loading
    BY <1>1, <2>1 DEF IInv, ListingOK, Prompting
  <2>4. [ed EXCEPT !.cmd.loading = FALSE] = [ed EXCEPT !.cmd = c]
    BY <1>3 DEF EditorOK, Editor
  <2>5. /\ c \in CmdLine /\ c.kind = "picker" /\ c.buf = ed.cmd.buf /\ c.resume = ed.cmd.resume /\ c.id = id
        /\ ~c.loading
    BY <1>3, <2>1, <2>2 DEF CmdLine, Prompting
  <2> HIDE DEF c
  <2>6. PromptOK(ed, c) /\ id \in Pickers /\ ed.cmd.query \in Queries
    BY <2>2, <2>5 DEF PromptOK, CmdLineOK, PickerOK
  <2>7. e' = Refresh([ed EXCEPT !.cmd = c], ed.cmd.query)
    BY <1>2, <1>4, <2>4
  <2>8. /\ EditorOK(e') /\ e'.bufs = ed.bufs
        /\ e'.cmd.kind = "picker" /\ e'.cmd.id = id /\ ~e'.cmd.loading
    BY <1>3, <2>5, <2>6, <2>7, Refreshed DEF OnlyCmdDiffers
  <2>9. IInv'
    BY <1>1, <2>8 DEF IInv, ListingOK
  <2>10. KeepsSelection(e, e')
    BY <2>3, <2>8 DEF KeepsSelection
  <2>11. QED
    BY <1>3, <2>8, <2>9, <2>10, SameTop DEF GoodStep
<1>5. CASE ~ThisPicker(ed, id)
  <2>1. e' = ed
    BY <1>2, <1>5
  <2>2. e.cmd.kind = "picker" => e.cmd.id # id
    BY <1>3, <1>5 DEF ThisPicker, Prompting
  <2>3. IInv'
    BY <1>1, <1>3, <2>1, <2>2 DEF IInv, ListingOK
  <2>4. KeepsSelection(e, e')
    BY <1>3, <2>1 DEF KeepsSelection, Selection
  <2>5. QED
    BY <1>3, <2>1, <2>3, <2>4, SameTop DEF GoodStep
<1>6. QED
  BY <1>4, <1>5

LEMMA UnchangedStep ==
  ASSUME IInv, UNCHANGED vars
  PROVE  GoodStep
<1>1. e' = e /\ listing' = listing
  BY DEF vars
<1>2. LeadsBack(e, e')
  BY <1>1, SameTop
<1>3. QED
  BY <1>1, <1>2 DEF GoodStep, IInv, KeepsSelection

(* The actions of a prompt that is typed, and of one that is opened, turned or cancelled. *)
Typed ==
  \/ \E kind \in Kinds : OpenPrompt(kind)
  \/ \E from, to \in Kinds \ {"search"} : TurnPrompt(from, to)
  \/ \E pos \in Pos : TypePattern(pos)
  \/ \E query \in Queries : TypeQuery(query)
  \/ Cancel

LEMMA TypedStep ==
  ASSUME IInv, Typed
  PROVE  GoodStep /\ CancelCmdLine(e') = CancelCmdLine(e)
BY OpenPromptStep, TurnPromptStep, TypePatternStep, TypeQueryStep, CancelStep DEF Typed

LEMMA NextStep ==
  ASSUME IInv, [Next]_vars
  PROVE  /\ IInv'
         /\ LeadsBack(e, e') \/ Back \/ Forward
         /\ KeepsSelection(e, e') \/ \E d \in {-1, 1} : MoveSelection(d)
<1>1. CASE Typed
  BY <1>1, TypedStep DEF GoodStep
<1>2. ASSUME NEW d \in {-1, 1}, MoveSelection(d)
      PROVE  IInv' /\ LeadsBack(e, e')
  BY <1>2, MoveSelectionStep
<1>3. CASE SubmitLine \/ SubmitQuit \/ SubmitSearch \/ SubmitPath
  BY <1>3, SubmitLineStep, SubmitQuitStep, SubmitSearchStep, SubmitPathStep DEF GoodStep
<1>4. ASSUME NEW pos \in Pos, MoveCursor(pos)
      PROVE  GoodStep
  BY <1>4, MoveCursorStep
<1>5. ASSUME NEW mode \in {"normal", "insert"}, SetMode(mode)
      PROVE  GoodStep
  BY <1>5, SetModeStep
<1>6. ASSUME NEW p \in Path, NEW outcome \in Outcomes(p), OpenFile(p, outcome)
      PROVE  GoodStep
  BY <1>6, OpenFileStep
<1>7. ASSUME NEW loc \in Location, NEW outcome \in Outcomes(loc.path), GoToDefinition(loc, outcome)
      PROVE  GoodStep
  BY <1>7, GoToDefinitionStep
<1>8. CASE Back \/ Forward
  BY <1>8, HistoryStep
<1>9. CASE Close
  BY <1>9, CloseStep DEF GoodStep
<1>10. ASSUME NEW id \in Pickers, NEW files \in Listings, Listed(id, files)
       PROVE  GoodStep
  BY <1>10, ListedStep
<1>11. CASE Over \/ UNCHANGED vars
  BY <1>11, UnchangedStep DEF Over, GoodStep
<1>12. QED
  BY <1>1, <1>2, <1>3, <1>4, <1>5, <1>6, <1>7, <1>8, <1>9, <1>10, <1>11 DEF Next, Typed, GoodStep

-----------------------------------------------------------------------------

(* The inductive invariant: the stack, the modes, the command line with its picker, the history   *)
(* and the goroutines that list files fit together in every reachable state.                      *)
THEOREM Invariance == Spec => []IInv
<1>1. IInv /\ [Next]_vars => IInv'
  BY NextStep
<1>2. QED
  BY <1>1, InitInv, PTL DEF Spec

(* A path is open once, only a text is in the insert mode, a prompt belongs to the top buffer,    *)
(* which is then in the normal mode, the history is within its size and its cursor within it, and *)
(* the first match of a file picker without a query is the buffer used before: so Ctrl+O and      *)
(* Enter go back to it, whatever has opened, closed or listed files meanwhile.                    *)
THEOREM TypeCorrectness == Spec => []TypeOK
<1>1. QED
  BY Invariance, InvIsTypeOK, PTL

(* Whatever prompts are opened, typed and turned into one another, cancelling the last one gives  *)
(* the buffers, their modes and their cursors as they were.                                       *)
THEOREM PromptsLeaveNoTrace == Spec => LeavesNoTrace
<1>1. IInv /\ [Next]_vars =>
        [(e.cmd # NoCmd \/ e'.cmd # NoCmd) /\ Settled(e') # Settled(e) =>
           ~ \/ \E kind \in Kinds : OpenPrompt(kind)
             \/ \E from, to \in Kinds \ {"search"} : TurnPrompt(from, to)
             \/ \E pos \in Pos : TypePattern(pos)
             \/ \E query \in Queries : TypeQuery(query)
             \/ Cancel]_vars
  <2> SUFFICES ASSUME IInv, Typed
               PROVE  Settled(e') = Settled(e)
    BY DEF Typed
  <2>1. QED
    BY TypedStep DEF Settled
<1>2. QED
  BY <1>1, Invariance, PTL DEF Spec, LeavesNoTrace

(* After a jump from a text to another, the way back leads to the place that was left: the one a  *)
(* search was showing, or the one it would have returned to.                                      *)
THEOREM BackReturnsToPlaceLeft == Spec => BackReturns
<1>1. IInv /\ [Next]_vars =>
        [LET from == Top(e)
             to == Top(e')
             left == {e.cursor[from], CancelCmdLine(e).cursor[from]}
         IN  /\ Running /\ e'.bufs # <<>> /\ Size > 1
             /\ from # to
             /\ e.text[from] /\ e'.text[to]
             /\ ~Back /\ ~Forward
             => /\ e'.nav.at > 1
                /\ LET back == e'.nav.list[e'.nav.at - 1]
                   IN  back.path = from /\ back.position \in left]_vars
  BY NextStep DEF LeadsBack
<1>2. QED
  BY <1>1, Invariance, PTL DEF Spec, BackReturns

(* The match that Enter would open is changed by the user, or once, by the list the picker itself *)
(* has asked for; the list of a picker that was closed changes nothing.                           *)
THEOREM LateListsKeepSelection == Spec => SelectionStays
<1>1. IInv /\ [Next]_vars =>
        [Prompting(e, "picker") /\ Prompting(e', "picker") /\ e.cmd.id = e'.cmd.id /\ e.cmd.query = e'.cmd.query =>
           \/ Selection(e') = Selection(e)
           \/ e.cmd.loading /\ ~e'.cmd.loading
           \/ \E d \in {-1, 1} : MoveSelection(d)]_vars
  BY NextStep DEF KeepsSelection
<1>2. QED
  BY <1>1, Invariance, PTL DEF Spec, SelectionStays

=============================================================================
