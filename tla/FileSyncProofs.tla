--------------------------- MODULE FileSyncProofs ---------------------------
(***************************************************************************)
(* The safety of the buffers and their files for every set of files and    *)
(* contents: the types, and a stale buffer is noticed, as long as no file  *)
(* is written by another program between its load and its watch.           *)
(***************************************************************************)
EXTENDS FileSync, SequenceTheorems, TLAPS

(* The listing is never closed, so there always is a top buffer. *)
ListingStays == Listing \in Range(stack)

(* Only the watch of a buffer sends reloads, and they are disowned with its end. *)
ReloadsOfWatched == \A i \in DOMAIN reloads : reloads[i].buf \in watched \cup {Absent}

(* The file being opened is not watched, and is as it was loaded. *)
OpeningIsFresh ==
  opening # Absent =>
    /\ opening \notin watched
    /\ opening \in Range(stack) => print[opening] # NoPrint
    /\ ~GapWrites => print[opening] = IF disk[opening] = Absent THEN NoPrint ELSE disk[opening]

ReloadOf(i, p) == i \in DOMAIN reloads /\ reloads[i].buf = p
CurrentReload(i, p) == ReloadOf(i, p) /\ reloads[i].data = disk[p]

(* The last of the reloads of a buffer has the content of its file; without any, the fingerprint *)
(* is of that.  It is not enough that one of them has: an older one may be run after it.         *)
EndsCurrent(p) ==
  \/ disk[p] = Absent
  \/ p \in event
  \/ /\ print[p] = disk[p] \/ \E i \in DOMAIN reloads : CurrentReload(i, p)
     /\ \A i \in DOMAIN reloads : ReloadOf(i, p) => \E j \in DOMAIN reloads : j >= i /\ CurrentReload(j, p)

AllEndCurrent == ~GapWrites => \A p \in watched : EndsCurrent(p)

IInv == TypeOK /\ ListingStays /\ ReloadsOfWatched /\ OpeningIsFresh /\ AllEndCurrent

-----------------------------------------------------------------------------
(* What the operations on the stack do to its buffers. *)

LEMMA SelectedStack ==
  ASSUME NEW S, NEW s \in Seq(S), IsInjective(s), NEW k \in 1 .. Len(s) - 1
  PROVE  LET t == Append(RemoveAt(s, k), s[k]) IN
           t \in Seq(S) /\ t # <<>> /\ IsInjective(t) /\ Range(t) = Range(s)
<1> DEFINE n == Len(s)
           r == RemoveAt(s, k)
           t == Append(r, s[k])
<1>1. n \in Nat /\ k \in 1 .. n /\ DOMAIN s = 1 .. n /\ s[k] \in S
  BY LenProperties, ElementOfSeq
<1>2. /\ r \in Seq(S) /\ Len(r) = n - 1
      /\ \A i \in 1 .. n - 1 : r[i] = IF i < k THEN s[i] ELSE s[i + 1]
  BY <1>1, SMT DEF RemoveAt
<1> HIDE DEF r
<1>3. /\ t \in Seq(S) /\ Len(t) = n
      /\ \A i \in 1 .. n - 1 : t[i] = IF i < k THEN s[i] ELSE s[i + 1]
      /\ t[n] = s[k]
  <2>1. /\ t \in Seq(S) /\ Len(t) = Len(r) + 1 /\ t[Len(r) + 1] = s[k]
        /\ \A i \in 1 .. Len(r) : t[i] = r[i]
    <3>1. r \in Seq(S) /\ s[k] \in S
      BY <1>1, <1>2
    <3>2. QED
      BY <3>1, AppendProperties
  <2>2. QED
    BY <1>1, <1>2, <2>1
<1> HIDE DEF t
<1>4. DOMAIN t = 1 .. n /\ t # <<>>
  BY <1>1, <1>3, LenProperties, EmptySeq
<1>5. IsInjective(t)
  <2> HIDE DEF n
  <2>1. ASSUME NEW x \in 1 .. n, NEW y \in 1 .. n, s[x] = s[y] PROVE x = y
    BY <1>1, <2>1 DEF IsInjective
  <2>2. ASSUME NEW x \in 1 .. n
        PROVE  \E o \in 1 .. n : t[x] = s[o] /\ o = IF x = n THEN k ELSE IF x < k THEN x ELSE x + 1
    <3>1. CASE x = n
      BY <1>1, <1>3, <3>1
    <3>2. CASE x # n
      <4>1. x \in 1 .. n - 1
        BY <1>1, <3>2
      <4>2. x \in 1 .. n /\ x + 1 \in 1 .. n
        BY <1>1, <4>1
      <4>3. t[x] = IF x < k THEN s[x] ELSE s[x + 1]
        BY <1>3, <4>1
      <4>4. QED
        BY <3>2, <4>2, <4>3
    <3>3. QED
      BY <3>1, <3>2
  <2>3. ASSUME NEW x \in 1 .. n, NEW y \in 1 .. n, t[x] = t[y] PROVE x = y
    <3>1. PICK o \in 1 .. n : t[x] = s[o] /\ o = IF x = n THEN k ELSE IF x < k THEN x ELSE x + 1
      BY <2>2
    <3>2. PICK p \in 1 .. n : t[y] = s[p] /\ p = IF y = n THEN k ELSE IF y < k THEN y ELSE y + 1
      BY <2>2
    <3>3. o = p
      BY <2>1, <2>3, <3>1, <3>2
    <3>4. QED
      BY <1>1, <3>1, <3>2, <3>3
  <2>4. QED
    BY <1>4, <2>3 DEF IsInjective
<1>6. Range(t) \subseteq Range(s)
  BY <1>1, <1>3, <1>4 DEF Range
<1>7. Range(s) \subseteq Range(t)
  <2> SUFFICES ASSUME NEW i \in 1 .. n PROVE s[i] \in Range(t)
    BY <1>1 DEF Range
  <2>1. CASE i < k
    BY <2>1, <1>1, <1>3, <1>4 DEF Range
  <2>2. CASE i = k
    BY <2>2, <1>1, <1>3, <1>4 DEF Range
  <2>3. CASE i > k
    <3>1. i - 1 \in 1 .. n - 1 /\ t[i - 1] = s[i]
      BY <2>3, <1>1, <1>3
    <3>2. QED
      BY <3>1, <1>4 DEF Range
  <2>4. QED
    BY <1>1, <2>1, <2>2, <2>3
<1>8. QED
  BY <1>3, <1>4, <1>5, <1>6, <1>7 DEF t, r

LEMMA PushedStack ==
  ASSUME NEW S, NEW s \in Seq(S), IsInjective(s), NEW x \in S, x \notin Range(s)
  PROVE  LET t == Append(s, x) IN
           t \in Seq(S) /\ t # <<>> /\ IsInjective(t) /\ Range(t) = Range(s) \cup {x}
<1> DEFINE n == Len(s)
           t == Append(s, x)
<1>1. n \in Nat /\ DOMAIN s = 1 .. n
  BY LenProperties
<1>2. t \in Seq(S) /\ Len(t) = n + 1 /\ t[n + 1] = x /\ \A i \in 1 .. n : t[i] = s[i]
  BY <1>1, AppendProperties
<1>3. DOMAIN t = 1 .. n + 1 /\ t # <<>>
  BY <1>1, <1>2, LenProperties, EmptySeq
<1>4. IsInjective(t)
  BY <1>1, <1>2, <1>3 DEF IsInjective, Range
<1>5. Range(t) = Range(s) \cup {x}
  BY <1>1, <1>2, <1>3 DEF Range
<1>6. QED
  BY <1>2, <1>3, <1>4, <1>5

LEMMA ClosedStack ==
  ASSUME NEW S, NEW s \in Seq(S), s # <<>>, IsInjective(s)
  PROVE  /\ Last(s) \in Range(s)
         /\ Front(s) \in Seq(S) /\ IsInjective(Front(s)) /\ Range(Front(s)) = Range(s) \ {Last(s)}
<1> DEFINE n == Len(s)
           t == Front(s)
<1>1. n \in Nat \ {0} /\ DOMAIN s = 1 .. n
  BY LenProperties, EmptySeq
<1>2. t \in Seq(S) /\ Len(t) = n - 1 /\ (\A i \in 1 .. n - 1 : t[i] = s[i]) /\ Last(s) = s[n]
  BY <1>1, SMT DEF Front, Last
<1>3. DOMAIN t = 1 .. n - 1
  BY <1>1, <1>2, LenProperties
<1>4. IsInjective(t)
  BY <1>1, <1>2, <1>3 DEF IsInjective
<1>5. Last(s) \in Range(s)
  BY <1>1, <1>2 DEF Range
<1>6. Range(t) = Range(s) \ {Last(s)}
  <2>1. Range(t) \subseteq Range(s) \ {Last(s)}
    BY <1>1, <1>2, <1>3 DEF Range, IsInjective
  <2>2. Range(s) \ {Last(s)} \subseteq Range(t)
    <3> SUFFICES ASSUME NEW i \in 1 .. n, s[i] # s[n] PROVE s[i] \in Range(t)
      BY <1>1, <1>2 DEF Range
    <3>1. i \in 1 .. n - 1
      BY <1>1
    <3>2. QED
      BY <3>1, <1>2, <1>3 DEF Range
  <2>3. QED
    BY <2>1, <2>2
<1>7. QED
  BY <1>2, <1>4, <1>5, <1>6

-----------------------------------------------------------------------------
(* Saving. *)

LEMMA BuffersType ==
  ASSUME TypeOK, ListingStays
  PROVE  /\ Open \subseteq Paths /\ watched \subseteq Paths /\ Absent \notin Paths
         /\ stack \in Seq(Paths \cup {Listing}) /\ stack # <<>> /\ IsInjective(stack)
         /\ Top \in Range(stack) /\ Range(stack) \subseteq Paths \cup {Listing}
         /\ Range(Front(stack)) = Range(stack) \ {Top}
<1>1. stack \in Seq(Paths \cup {Listing}) /\ stack # <<>> /\ IsInjective(stack)
  BY DEF TypeOK
<1>2. Top \in Range(stack) /\ Range(Front(stack)) = Range(stack) \ {Top}
  BY <1>1, ClosedStack DEF Top
<1>3. Range(stack) \subseteq Paths \cup {Listing}
  BY <1>1, LenProperties, ElementOfSeq DEF Range
<1>4. QED
  BY <1>1, <1>2, <1>3, DistinctAssumption DEF TypeOK, Open

(* What a save of the top buffer to the path dst, or of nothing, may change. *)
Saved(dst) ==
  /\ text' \in [Paths -> Contents] /\ dirty' \in [Paths -> BOOLEAN]
  /\ disk' \in [Paths -> Contents \cup {Absent}] /\ print' \in [Paths -> Contents \cup {NoPrint}]
  /\ event \subseteq event' /\ event' \subseteq watched
  /\ \A p \in Paths : \/ disk'[p] = disk[p] /\ print'[p] = print[p]
                      \/ p = dst /\ (p \in watched => p \in event')

LEMMA SaveToSaved ==
  ASSUME TypeOK, ListingStays, Top # Listing, NEW dst, SaveTo(Top, dst)
  PROVE  Saved(dst)
<1>1. Top \in Paths
  BY BuffersType
<1>2. PICK c \in Contents, ok \in BOOLEAN :
        /\ text' = [text EXCEPT ![Top] = c]
        /\ IF ok
             THEN /\ dirty' = [dirty EXCEPT ![Top] = FALSE]
                  /\ disk' = IF dst = Elsewhere THEN disk ELSE [disk EXCEPT ![dst] = c]
                  /\ print' = IF Top = dst THEN [print EXCEPT ![Top] = c] ELSE print
                  /\ event' = event \cup ({dst} \cap watched)
             ELSE /\ dirty' = [dirty EXCEPT ![Top] = @ \/ c # text[Top]]
                  /\ UNCHANGED <<disk, print, event>>
  BY DEF SaveTo, SamePath
<1>3. CASE ok
  <2>1. dirty' \in [Paths -> BOOLEAN]
    BY <1>1, <1>2, <1>3, Zenon DEF TypeOK
  <2>2. disk' \in [Paths -> Contents \cup {Absent}] /\ print' \in [Paths -> Contents \cup {NoPrint}]
    BY <1>1, <1>2, <1>3 DEF TypeOK
  <2>3. \A p \in Paths : p # dst => disk'[p] = disk[p] /\ print'[p] = print[p]
    BY <1>1, <1>2, <1>3 DEF TypeOK
  <2>4. QED
    BY <1>1, <1>2, <1>3, <2>1, <2>2, <2>3 DEF Saved, TypeOK
<1>4. CASE ~ok
  <2>1. dirty' \in [Paths -> BOOLEAN]
    BY <1>1, <1>2, <1>4, Zenon DEF TypeOK
  <2>2. QED
    BY <1>1, <1>2, <1>4, <2>1, BuffersType DEF Saved, TypeOK
<1>5. QED
  BY <1>3, <1>4

LEMMA SaveTopSaved ==
  ASSUME TypeOK, ListingStays, SaveTop
  PROVE  Saved(Top)
<1>1. CASE Top # Listing /\ dirty[Top]
  BY <1>1, SaveToSaved DEF SaveTop
<1>2. CASE ~(Top # Listing /\ dirty[Top])
  BY <1>2 DEF SaveTop, SaveNothing, Saved, TypeOK
<1>3. QED
  BY <1>1, <1>2

(* A save changes no other file, and is reported for its own. *)
LEMMA SavedEndsCurrent ==
  ASSUME TypeOK, ListingStays, NEW dst, Saved(dst), UNCHANGED reloads,
         NEW p \in watched, EndsCurrent(p)
  PROVE  EndsCurrent(p)'
<1>1. p \in Paths
  BY BuffersType
<1>2. CASE disk'[p] = disk[p] /\ print'[p] = print[p]
  BY <1>1, <1>2 DEF Saved, EndsCurrent, ReloadOf, CurrentReload
<1>3. CASE p \in event'
  BY <1>3 DEF EndsCurrent
<1>4. QED
  BY <1>1, <1>2, <1>3 DEF Saved

(* A file that is being opened is not the one saved. *)
LEMMA SavedFresh ==
  ASSUME IInv, NEW dst, Saved(dst), opening = Absent \/ dst # opening, UNCHANGED <<watched, opening>>
  PROVE  opening # Absent =>
           /\ opening \notin watched'
           /\ print'[opening] = print[opening] /\ disk'[opening] = disk[opening]
BY BuffersType DEF IInv, OpeningIsFresh, Saved, TypeOK

LEMMA SavedAllEndCurrent ==
  ASSUME IInv, NEW dst, Saved(dst), UNCHANGED <<watched, reloads>>
  PROVE  AllEndCurrent'
BY SavedEndsCurrent DEF IInv, AllEndCurrent

-----------------------------------------------------------------------------
(* One step. *)

(* The reloads are of the buffers that are open; their set may only grow while they are sent. *)
ReloadSet(bufs) == [buf : bufs \cup {Absent}, data : Contents]

LEMMA ReloadsType ==
  ASSUME TypeOK
  PROVE  /\ reloads \in Seq(ReloadSet(Open)) /\ Len(reloads) \in Nat /\ DOMAIN reloads = 1 .. Len(reloads)
         /\ \A i \in 1 .. Len(reloads) : reloads[i] \in ReloadSet(Open)
<1>1. reloads \in Seq(ReloadSet(Open))
  BY DEF TypeOK, ReloadSet
<1>2. QED
  BY <1>1, LenProperties, ElementOfSeq

LEMMA ReloadsOfMore ==
  ASSUME TypeOK, NEW bufs, Open \subseteq bufs
  PROVE  reloads \in Seq(ReloadSet(bufs))
<1>1. ReloadSet(Open) \subseteq ReloadSet(bufs)
  BY DEF ReloadSet
<1>2. \A i \in 1 .. Len(reloads) : reloads[i] \in ReloadSet(bufs)
  BY <1>1, ReloadsType
<1>3. QED
  BY <1>2, ReloadsType

LEMMA InitIInv == Init => IInv
<1> SUFFICES ASSUME Init PROVE IInv
  OBVIOUS
<1>1. stack \in Seq(Paths \cup {Listing}) /\ stack # <<>> /\ Len(stack) = 1 /\ DOMAIN stack = {1} /\ stack[1] = Listing
  BY DEF Init
<1>2. IsInjective(stack) /\ Listing \in Range(stack)
  BY <1>1 DEF IsInjective, Range
<1>3. reloads = <<>> /\ Len(reloads) = 0 /\ DOMAIN reloads = {}
  BY DEF Init
<1>4. reloads \in Seq([buf : Open \cup {Absent}, data : Contents])
  BY <1>3, EmptySeq
<1>5. TypeOK
  BY <1>1, <1>2, <1>3, <1>4, ContentsAssumption DEF Init, TypeOK
<1>6. QED
  BY <1>2, <1>3, <1>5 DEF Init, IInv, ListingStays, ReloadsOfWatched, OpeningIsFresh, AllEndCurrent

LEMMA ForeignWriteIInv ==
  ASSUME IInv, NEW p \in Paths, ForeignWrite(p)
  PROVE  IInv'
<1>1. PICK c \in Contents \cup {Absent} : disk' = [disk EXCEPT ![p] = c]
  BY DEF ForeignWrite
<1> USE <1>1 DEF IInv, ForeignWrite, loop
<1>2. TypeOK'
  BY DEF TypeOK, Open
<1>3. ListingStays' /\ ReloadsOfWatched' /\ OpeningIsFresh'
  BY DEF TypeOK, ListingStays, ReloadsOfWatched, OpeningIsFresh
<1>4. AllEndCurrent'
  <2> SUFFICES ASSUME ~GapWrites, NEW q \in watched PROVE EndsCurrent(q)'
    BY DEF AllEndCurrent
  <2>1. q \in Paths /\ EndsCurrent(q)
    BY BuffersType DEF AllEndCurrent
  <2>2. CASE q = p
    BY <2>2 DEF EndsCurrent
  <2>3. CASE q # p
    BY <2>1, <2>3 DEF TypeOK, EndsCurrent, ReloadOf, CurrentReload
  <2>4. QED
    BY <2>2, <2>3
<1>5. QED
  BY <1>2, <1>3, <1>4

LEMMA SelectIInv ==
  ASSUME IInv, NEW i \in 1 .. Len(stack) - 1, Select(i)
  PROVE  IInv'
<1> USE DEF IInv
<1>1. Saved(Top)
  BY SaveTopSaved DEF Select
<1>2. /\ stack' \in Seq(Paths \cup {Listing}) /\ stack' # <<>> /\ IsInjective(stack')
      /\ Range(stack') = Range(stack)
  BY SelectedStack, BuffersType DEF Select
<1>3. TypeOK'
  BY <1>1, <1>2 DEF Select, Saved, TypeOK, Open
<1>4. ListingStays' /\ ReloadsOfWatched' /\ OpeningIsFresh'
  BY <1>2 DEF Select, Ready, ListingStays, ReloadsOfWatched, OpeningIsFresh
<1>5. AllEndCurrent'
  BY <1>1, SavedAllEndCurrent DEF Select
<1>6. QED
  BY <1>3, <1>4, <1>5

LEMMA LoadIInv ==
  ASSUME IInv, NEW p \in Paths, Load(p)
  PROVE  IInv'
<1> USE DEF IInv, Load
<1>1. p \notin watched /\ p # Absent
  BY BuffersType DEF TypeOK, Open
<1>2. TypeOK'
  <2>1. dirty' \in [Paths -> BOOLEAN]
    BY Zenon DEF TypeOK
  <2>2. text' \in [Paths -> Contents] /\ print' \in [Paths -> Contents \cup {NoPrint}]
    BY ContentsAssumption DEF TypeOK
  <2>3. QED
    BY <2>1, <2>2 DEF TypeOK, Open
<1>3. ListingStays' /\ ReloadsOfWatched' /\ OpeningIsFresh'
  BY <1>1 DEF TypeOK, ListingStays, ReloadsOfWatched, OpeningIsFresh
<1>4. AllEndCurrent'
  <2> SUFFICES ASSUME ~GapWrites, NEW q \in watched PROVE EndsCurrent(q)'
    BY DEF AllEndCurrent
  <2>1. q \in Paths /\ q # p /\ EndsCurrent(q)
    BY <1>1, BuffersType DEF AllEndCurrent
  <2>2. QED
    BY <2>1 DEF TypeOK, EndsCurrent, ReloadOf, CurrentReload
<1>5. QED
  BY <1>2, <1>3, <1>4

LEMMA PushIInv == ASSUME IInv, Push PROVE IInv'
<1> USE DEF IInv
<1>1. Saved(Top)
  BY SaveTopSaved DEF Push
<1>2. opening \in Paths /\ opening # Absent /\ opening # Listing /\ Top # opening
  BY BuffersType, DistinctAssumption DEF Push, Ready, TypeOK
<1>3. /\ stack' \in Seq(Paths \cup {Listing}) /\ stack' # <<>> /\ IsInjective(stack')
      /\ Range(stack') = Range(stack) \cup {opening}
  BY <1>2, PushedStack, BuffersType DEF Push
<1>4. TypeOK'
  <2>1. Open \subseteq Open'
    BY <1>3 DEF Open
  <2>2. reloads \in Seq([buf : Open' \cup {Absent}, data : Contents])
    BY <2>1, ReloadsOfMore DEF ReloadSet
  <2>3. opening' \in Paths \cup {Absent}
    BY <1>2 DEF Push
  <2>4. QED
    BY <1>1, <1>3, <2>1, <2>2, <2>3 DEF Push, Saved, TypeOK
<1>5. ListingStays' /\ ReloadsOfWatched'
  BY <1>3 DEF Push, ListingStays, ReloadsOfWatched
<1>6. OpeningIsFresh'
  BY <1>1, <1>2 DEF Push, Saved, OpeningIsFresh
<1>7. AllEndCurrent'
  BY <1>1, SavedAllEndCurrent DEF Push
<1>8. QED
  BY <1>4, <1>5, <1>6, <1>7

LEMMA WatchIInv == ASSUME IInv, Watch PROVE IInv'
<1> USE DEF IInv, Watch
<1>1. opening \in Paths /\ opening # Absent /\ opening # Listing /\ opening \in Open /\ opening \notin watched
  BY DistinctAssumption DEF Ready, TypeOK, Open, OpeningIsFresh
<1>2. watched' \in {watched, watched \cup {opening}}
  OBVIOUS
<1>3. TypeOK'
  BY <1>1, <1>2 DEF TypeOK, Open
<1>4. ListingStays' /\ ReloadsOfWatched' /\ OpeningIsFresh'
  BY <1>2 DEF ListingStays, ReloadsOfWatched, OpeningIsFresh
<1>5. AllEndCurrent'
  <2> SUFFICES ASSUME ~GapWrites, NEW q \in watched' PROVE EndsCurrent(q)'
    BY DEF AllEndCurrent
  <2>1. CASE q = opening
    <3>1. print[q] = disk[q]
      BY <1>1, <2>1 DEF OpeningIsFresh
    <3>2. \A i \in DOMAIN reloads : ~ReloadOf(i, q)
      BY <1>1, <2>1 DEF ReloadsOfWatched, ReloadOf
    <3>3. QED
      BY <3>1, <3>2 DEF EndsCurrent, ReloadOf
  <2>2. CASE q # opening
    BY <1>2, <2>2 DEF AllEndCurrent, EndsCurrent, ReloadOf, CurrentReload
  <2>3. QED
    BY <2>1, <2>2
<1>6. QED
  BY <1>3, <1>4, <1>5

LEMMA EditIInv == ASSUME IInv, Edit PROVE IInv'
<1> USE DEF IInv, Edit
<1>1. dirty' \in [Paths -> BOOLEAN]
  BY Zenon DEF TypeOK
<1>2. text' \in [Paths -> Contents]
  BY DEF TypeOK
<1>3. TypeOK'
  BY <1>1, <1>2 DEF TypeOK, Open
<1>4. ListingStays' /\ ReloadsOfWatched' /\ OpeningIsFresh' /\ AllEndCurrent'
  BY DEF ListingStays, ReloadsOfWatched, OpeningIsFresh, AllEndCurrent, EndsCurrent, ReloadOf, CurrentReload
<1>5. QED
  BY <1>3, <1>4

LEMMA SaveIInv ==
  ASSUME IInv, Ready, NEW dst, Saved(dst), UNCHANGED <<stack, watched, opening, reloads>>
  PROVE  IInv'
<1>1. TypeOK'
  BY DEF IInv, Saved, TypeOK, Open
<1>2. ListingStays' /\ ReloadsOfWatched' /\ OpeningIsFresh'
  BY DEF IInv, Ready, ListingStays, ReloadsOfWatched, OpeningIsFresh
<1>3. AllEndCurrent'
  BY SavedAllEndCurrent
<1>4. QED
  BY <1>1, <1>2, <1>3 DEF IInv

LEMMA CloseIInv == ASSUME IInv, Close PROVE IInv'
<1> USE DEF IInv, Close, StopWatch
<1>1. Top \in Paths
  BY BuffersType
<1>2. /\ stack' \in Seq(Paths \cup {Listing}) /\ IsInjective(stack')
      /\ Range(stack') = Range(stack) \ {Top}
  BY BuffersType, ClosedStack DEF Top
<1>3. ListingStays' /\ stack' # <<>>
  BY <1>2, EmptySeq, LenProperties DEF ListingStays, Range
<1>4. Open' = Open \ {Top}
  BY <1>2 DEF Open
<1>5. DOMAIN reloads = 1 .. Len(reloads) /\ Len(reloads) \in Nat
  BY ReloadsType
<1>6. /\ DOMAIN reloads' = DOMAIN reloads
      /\ \A i \in DOMAIN reloads : reloads[i] \in [buf : Open \cup {Absent}, data : Contents]
      /\ \A i \in DOMAIN reloads : /\ reloads'[i].buf = IF reloads[i].buf = Top THEN Absent ELSE reloads[i].buf
                                   /\ reloads'[i].data = reloads[i].data
                                   /\ reloads'[i] \in [buf : Open' \cup {Absent}, data : Contents]
  BY <1>4, ReloadsType DEF ReloadSet
<1>7. reloads' \in Seq([buf : Open' \cup {Absent}, data : Contents]) /\ Len(reloads') \leq 2
  BY <1>5, <1>6 DEF TypeOK
<1>8. TypeOK'
  <2>1. dirty' \in [Paths -> BOOLEAN]
    BY Zenon DEF TypeOK
  <2>2. text' \in [Paths -> Contents] /\ print' \in [Paths -> Contents \cup {NoPrint}]
    BY ContentsAssumption DEF TypeOK
  <2>3. QED
    BY <1>2, <1>3, <1>4, <1>7, <2>1, <2>2 DEF TypeOK
<1>9. ReloadsOfWatched' /\ OpeningIsFresh'
  BY <1>6 DEF Ready, ReloadsOfWatched, OpeningIsFresh
<1>10. AllEndCurrent'
  <2> SUFFICES ASSUME ~GapWrites, NEW q \in watched' PROVE EndsCurrent(q)'
    BY DEF AllEndCurrent
  <2>1. q \in Paths /\ q # Top /\ q # Absent /\ EndsCurrent(q)
    BY BuffersType DEF AllEndCurrent
  <2>2. \A i : ReloadOf(i, q)' = ReloadOf(i, q) /\ CurrentReload(i, q)' = CurrentReload(i, q)
    BY <1>6, <2>1 DEF ReloadOf, CurrentReload
  <2>3. print'[q] = print[q] /\ (q \in event => q \in event')
    BY <2>1 DEF TypeOK
  <2>4. QED
    BY <1>6, <2>1, <2>2, <2>3 DEF EndsCurrent
<1>11. QED
  BY <1>3, <1>8, <1>9, <1>10

LEMMA ReadChangedIInv ==
  ASSUME IInv, NEW p \in Paths, ReadChanged(p)
  PROVE  IInv'
<1> USE DEF IInv, ReadChanged, loop
<1>1. DOMAIN reloads = 1 .. Len(reloads) /\ Len(reloads) \in Nat /\ p \in watched /\ p \in Open /\ p # Absent
  BY BuffersType, ReloadsType DEF TypeOK
<1>2. CASE disk[p] = Absent
  <2>1. TypeOK'
    BY <1>2 DEF SendReload, TypeOK, Open
  <2>2. QED
    BY <1>2, <2>1 DEF SendReload, ListingStays, ReloadsOfWatched, OpeningIsFresh, AllEndCurrent, EndsCurrent,
       ReloadOf, CurrentReload
<1>3. CASE disk[p] # Absent
  <2> DEFINE n == Len(reloads)
             new == [buf |-> p, data |-> disk[p]]
  <2>1. new \in [buf : Open \cup {Absent}, data : Contents]
    BY <1>1, <1>3 DEF TypeOK
  <2>2. /\ reloads' \in Seq([buf : Open \cup {Absent}, data : Contents])
        /\ Len(reloads') = n + 1 /\ DOMAIN reloads' = 1 .. n + 1
        /\ reloads'[n + 1] = new /\ \A i \in 1 .. n : reloads'[i] = reloads[i]
    <3>1. reloads' = Append(reloads, new)
      BY <1>3 DEF SendReload
    <3>2. reloads \in Seq([buf : Open \cup {Absent}, data : Contents])
      BY ReloadsType DEF ReloadSet
    <3> HIDE DEF new
    <3>3. QED
      BY <1>1, <2>1, <3>1, <3>2, AppendProperties, LenProperties
  <2>3. TypeOK'
    BY <1>1, <2>2 DEF TypeOK, Open
  <2>4. ListingStays' /\ ReloadsOfWatched' /\ OpeningIsFresh'
    BY <1>1, <2>2 DEF ListingStays, ReloadsOfWatched, OpeningIsFresh
  <2>5. AllEndCurrent'
    <3> SUFFICES ASSUME ~GapWrites, NEW q \in watched PROVE EndsCurrent(q)'
      BY DEF AllEndCurrent
    <3>1. CASE q = p
      BY <1>1, <2>2, <3>1 DEF EndsCurrent, ReloadOf, CurrentReload
    <3>2. CASE q # p
      <4>1. EndsCurrent(q)
        BY DEF AllEndCurrent
      <4>2. \A i : ReloadOf(i, q)' = ReloadOf(i, q) /\ CurrentReload(i, q)' = CurrentReload(i, q)
        BY <1>1, <2>2, <3>2 DEF ReloadOf, CurrentReload
      <4>3. QED
        BY <1>1, <2>2, <3>2, <4>1, <4>2 DEF EndsCurrent, ReloadOf, CurrentReload
    <3>3. QED
      BY <3>1, <3>2
  <2>6. QED
    BY <2>3, <2>4, <2>5
<1>4. QED
  BY <1>2, <1>3

LEMMA ReloadIInv == ASSUME IInv, Reload PROVE IInv'
<1> USE DEF IInv
<1> DEFINE n == Len(reloads)
           p == reloads[1].buf
           data == reloads[1].data
<1>1. n \in Nat \ {0} /\ DOMAIN reloads = 1 .. n /\ Head(reloads) = reloads[1]
  BY LenProperties, EmptySeq, HeadTailProperties DEF Reload, TypeOK
<1>2. /\ reloads' \in Seq([buf : Open \cup {Absent}, data : Contents])
      /\ Len(reloads') = n - 1 /\ \A i \in 1 .. n - 1 : reloads'[i] = reloads[i + 1]
  BY HeadTailProperties DEF Reload, TypeOK
<1>3. DOMAIN reloads' = 1 .. n - 1
  BY <1>2, LenProperties
<1>4. reloads[1] \in [buf : Open \cup {Absent}, data : Contents]
  BY <1>1, ReloadsType DEF ReloadSet
<1>5. /\ p \in Paths \cup {Absent} /\ data \in Contents
      /\ \/ p = Absent /\ UNCHANGED <<text, dirty, print>>
         \/ data = print[p] /\ UNCHANGED <<text, dirty, print>>
         \/ p \in Paths /\ text' = [text EXCEPT ![p] = data] /\ dirty' = [dirty EXCEPT ![p] = FALSE]
              /\ print' = [print EXCEPT ![p] = data]
  BY <1>1, <1>4, BuffersType DEF Reload
<1>6. UNCHANGED <<disk, stack, watched, opening, event>> /\ opening = Absent
  BY DEF Reload, Ready
<1> HIDE DEF n, p, data
<1>7. TypeOK'
  <2>1. dirty' \in [Paths -> BOOLEAN]
    BY <1>5, Zenon DEF TypeOK
  <2>2. text' \in [Paths -> Contents] /\ print' \in [Paths -> Contents \cup {NoPrint}]
    BY <1>5 DEF TypeOK
  <2>3. Len(reloads') \leq 2
    BY <1>1, <1>2 DEF TypeOK, n
  <2>4. QED
    BY <1>2, <1>6, <2>1, <2>2, <2>3 DEF TypeOK, Open
<1>8. ListingStays' /\ ReloadsOfWatched' /\ OpeningIsFresh'
  BY <1>1, <1>2, <1>3, <1>6 DEF ListingStays, ReloadsOfWatched, OpeningIsFresh
<1>9. AllEndCurrent'
  <2> SUFFICES ASSUME ~GapWrites, NEW q \in watched PROVE EndsCurrent(q)'
    BY <1>6 DEF AllEndCurrent
  <2>1. q \in Paths /\ q # Absent /\ EndsCurrent(q)
    BY BuffersType DEF AllEndCurrent
  <2>2. \A i \in 1 .. n - 1 : /\ ReloadOf(i, q)' = ReloadOf(i + 1, q)
                              /\ CurrentReload(i, q)' = CurrentReload(i + 1, q)
    BY <1>1, <1>2, <1>3, <1>6 DEF ReloadOf, CurrentReload
  <2>3. CASE disk[q] = Absent \/ q \in event
    BY <1>6, <2>3 DEF EndsCurrent
  <2>4. CASE ~(disk[q] = Absent \/ q \in event)
    <3>1. \A i \in 1 .. n : ReloadOf(i, q) => \E j \in 1 .. n : j >= i /\ CurrentReload(j, q)
      BY <1>1, <2>1, <2>4 DEF EndsCurrent
    <3>2. \A i \in DOMAIN reloads' : ReloadOf(i, q)' => \E j \in DOMAIN reloads' : j >= i /\ CurrentReload(j, q)'
      <4> SUFFICES ASSUME NEW i \in 1 .. n - 1, ReloadOf(i + 1, q)
                   PROVE  \E j \in 1 .. n - 1 : j >= i /\ CurrentReload(j + 1, q)
        BY <1>3, <2>2
      <4>1. PICK k \in 1 .. n : k >= i + 1 /\ CurrentReload(k, q)
        BY <1>1, <3>1
      <4>2. k - 1 \in 1 .. n - 1 /\ k - 1 >= i /\ (k - 1) + 1 = k
        BY <1>1, <4>1
      <4>3. QED
        BY <4>1, <4>2
    <3>3. print'[q] = disk[q] \/ \E i \in DOMAIN reloads' : CurrentReload(i, q)'
      <4>1. CASE \E i \in 1 .. n - 1 : CurrentReload(i + 1, q)
        BY <1>3, <2>2, <4>1
      <4>2. CASE ~ \E i \in 1 .. n - 1 : CurrentReload(i + 1, q)
        <5>1. \A k \in 1 .. n : CurrentReload(k, q) => k = 1
          <6> SUFFICES ASSUME NEW k \in 1 .. n, CurrentReload(k, q), k # 1 PROVE FALSE
            OBVIOUS
          <6>1. k - 1 \in 1 .. n - 1 /\ (k - 1) + 1 = k
            BY <1>1
          <6>2. QED
            BY <4>2, <6>1
        <5>2. CASE ReloadOf(1, q)
          <6>1. p = q /\ data = disk[q]
            BY <1>1, <3>1, <5>1, <5>2 DEF ReloadOf, CurrentReload, p, data
          <6>2. QED
            BY <1>5, <2>1, <6>1 DEF TypeOK
        <5>3. CASE ~ReloadOf(1, q)
          <6>1. p # q
            BY <1>1, <5>3 DEF ReloadOf, p
          <6>2. \A k \in 1 .. n : ~CurrentReload(k, q)
            BY <5>1, <5>3 DEF CurrentReload
          <6>3. print[q] = disk[q]
            BY <1>1, <2>1, <2>4, <6>2 DEF EndsCurrent
          <6>4. QED
            BY <1>5, <2>1, <6>1, <6>3 DEF TypeOK
        <5>4. QED
          BY <5>2, <5>3
      <4>3. QED
        BY <4>1, <4>2
    <3>4. QED
      BY <1>6, <3>2, <3>3 DEF EndsCurrent
  <2>5. QED
    BY <2>3, <2>4
<1>10. QED
  BY <1>7, <1>8, <1>9

LEMMA StepIInv == IInv /\ [Next]_vars => IInv'
<1> SUFFICES ASSUME IInv, [Next]_vars PROVE IInv'
  OBVIOUS
<1>1. CASE \E dst \in Paths \cup {Elsewhere} : Save(dst)
  BY <1>1, SaveToSaved, SaveIInv DEF IInv, Save
<1>2. CASE FocusOut
  BY <1>2, SaveTopSaved, SaveIInv DEF IInv, FocusOut
<1>3. CASE UNCHANGED vars
  BY <1>3 DEF vars, loop, IInv, TypeOK, Open, ListingStays, ReloadsOfWatched, OpeningIsFresh, AllEndCurrent,
     EndsCurrent, ReloadOf, CurrentReload
<1>4. QED
  BY <1>1, <1>2, <1>3, ForeignWriteIInv, SelectIInv, LoadIInv, PushIInv, WatchIInv, EditIInv, CloseIInv,
     ReadChangedIInv, ReloadIInv DEF Next

-----------------------------------------------------------------------------

(* The invariant holds: the last reload of a buffer, or the next one, has what is in its file. *)
THEOREM Invariance == Spec => []IInv
BY InitIInv, StepIInv, PTL DEF Spec

(* Types: a file is open once, only open files are watched, and the reloads that are on their    *)
(* way are of open buffers or of none.                                                           *)
THEOREM TypeCorrectness == Spec => []TypeOK
<1>1. IInv => TypeOK
  BY DEF IInv
<1>2. QED
  BY <1>1, Invariance, PTL

(* No order of saves, foreign writes, late reloads, closes and reopens leaves a watched buffer   *)
(* on a content that nothing would correct, if no other program writes a file between its load   *)
(* and its watch.                                                                                *)
THEOREM StaleBuffersAreNoticed ==
  ASSUME ~GapWrites
  PROVE  Spec => []StaleIsNoticed
<1>1. IInv => StaleIsNoticed
  <2> SUFFICES ASSUME IInv, NEW p \in watched
               PROVE  print[p] = disk[p] \/ disk[p] = Absent \/ Noticed(p)
    BY DEF StaleIsNoticed
  <2>1. QED
    BY DEF IInv, AllEndCurrent, EndsCurrent, CurrentReload, ReloadOf, Noticed
<1>2. QED
  BY <1>1, Invariance, PTL

=============================================================================
