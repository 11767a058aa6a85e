------------------------------ MODULE DirWatch ------------------------------
(***************************************************************************)
(* A buffer with a directory listing, kept up to date while other programs *)
(* create and remove entries (editor/filewatch.go, watchDir and dirWatch;  *)
(* content/folder.go, SyncState).                                          *)
(*                                                                         *)
(* The loop of the editor owns the listing: a key expands or collapses a   *)
(* directory, and then the watches are brought in line with the            *)
(* directories shown.  When one of these changes, the goroutine of the     *)
(* watcher reads the root again and sends a command; the loop, when it     *)
(* runs it, expands the new listing like the old one, which reads the      *)
(* other directories then, each at its own moment.  Other programs go on   *)
(* meanwhile.                                                              *)
(*                                                                         *)
(* The watcher is a library, modelled by what the editor uses of it: it    *)
(* reports a change in a watched directory after it, once for all of those *)
(* made so far, one report at a time.  It cannot watch what does not exist.*)
(***************************************************************************)
EXTENDS Folder

CONSTANT MaxChanges   \* a bound: how many times other programs create or remove something

ASSUME MaxChangesAssumption == MaxChanges \in Nat

VARIABLES
  disk,      (* the entries that exist under the root                                     *)
  changes,   (* how many changes were made                                                *)
  lines,     (* the lines of the listing in the buffer                                    *)
  watched,   (* DOMAIN stops: the watched directories                                     *)
  event,     (* the watched directories with changes that are not reported yet            *)
  reloads,   (* the listings of the root read again, on their way to the loop: one in     *)
             (* cmdChannel, one in a blocked Send                                         *)
  loop,      (* what the loop does: "idle"; "sync", within SyncState; "watch", before     *)
             (* dirWatch.sync; "closed", after the buffer; "panic"                        *)
  fc, i, j,  (* the variables of SyncState                                                *)
  missed     (* history: the directories changed between a reading and the watch of them  *)

sync == <<fc, i, j>>
buffer == <<lines, watched, loop, sync>>
vars == <<disk, changes, buffer, event, reloads, missed>>

Init ==
  /\ disk \in {d \in SUBSET Entries : IsFiniteSet(d) /\ \A p \in d : Front(p) \in d \cup {Root}}
  /\ changes = 0
  /\ lines = Load(disk)
  /\ watched = {}
  /\ event = {}
  /\ reloads = <<>>
  /\ loop = "watch"
  /\ fc = <<>> /\ i = 1 /\ j = 1
  /\ missed = {}

-----------------------------------------------------------------------------
(* Other programs and the watcher. *)

(* An entry appears, or goes with all that is in it.  The directories that differ are its own,   *)
(* and those that are there or not from now on; changed are those a watch can tell of.           *)
Change(new, changed, differ) ==
  /\ changes < MaxChanges
  /\ changes' = changes + 1
  /\ disk' = new
  /\ event' = event \cup (changed \cap watched)
  /\ missed' = missed \cup (differ \ watched)
  /\ UNCHANGED <<buffer, reloads>>

Create(p) ==
  /\ p \notin disk
  /\ Front(p) \in disk \cup {Root}
  /\ Change(disk \cup {p}, {Front(p)}, {Front(p)} \cup ({p} \cap Folders))

Delete(p) ==
  /\ p \in disk
  /\ LET gone == {q \in disk : IsPrefix(p, q)}
         changed == {Front(p)} \cup (gone \cap Folders)
     IN  Change(disk \ gone, changed, changed)

(* The report of the changes in a directory reads the root and sends the reload.  As a mutant,   *)
(* it does not wait for a loop that is busy.                                                     *)
SendOrDrop == reloads' = IF reloads = <<>> THEN <<Load(disk)>> ELSE reloads

SendReload == reloads' = Append(reloads, Load(disk))

Report(dir) ==
  /\ dir \in event
  /\ Len(reloads) < 2
  /\ event' = event \ {dir}
  /\ SendReload
  /\ missed' = missed \ {Root}
  /\ UNCHANGED <<disk, changes, buffer>>

-----------------------------------------------------------------------------
(* The loop. *)

(* The directory that Engage reads. *)
ReadBy(line) == IF line.open THEN {} ELSE {line.path}

(* A key or a click on the k-th line: a directory is expanded or collapsed. *)
EngageLine(k) ==
  /\ loop = "idle"
  /\ k \in DOMAIN lines
  /\ IsDir(lines[k])
  /\ lines' = Engage(disk, lines, k)
  /\ missed' = missed \ ReadBy(lines[k])
  /\ loop' = "watch"
  /\ UNCHANGED <<disk, changes, watched, event, reloads, sync>>

(* dirWatch.sync: the directories not shown any more are forgotten, the others watched if they   *)
(* are there; as mutants, nothing is forgotten, or all those watched before are.                 *)
WatchNew == watched' = (Shown(lines) \ watched) \cap (disk \cup {Root})

WatchMore == watched' = watched \cup (Shown(lines) \cap (disk \cup {Root}))

WatchShown == watched' = (watched \cap Shown(lines)) \cup (Shown(lines) \cap (disk \cup {Root}))

SyncWatches ==
  /\ loop = "watch"
  /\ WatchShown
  /\ event' = event \cap watched'
  /\ loop' = "idle"
  /\ UNCHANGED <<disk, changes, lines, reloads, sync, missed>>

(* The loop begins to run a reload. *)
TakeReload ==
  /\ loop = "idle"
  /\ reloads # <<>>
  /\ loop' = "sync"
  /\ fc' = Head(reloads)
  /\ i' = 1
  /\ j' = 1
  /\ reloads' = Tail(reloads)
  /\ UNCHANGED <<disk, changes, lines, watched, event, missed>>

(* One iteration of SyncState.  The line o of the old listing is looked for at the line c of the *)
(* new one: if it is of a deeper level, the line before c is engaged first, whatever it is.      *)
Skip(c, o) ==
  IF SamePath(c, o)
    THEN i' = i + 1 /\ j' = j + 1
    ELSE IF c # NoLine /\ Name(c) < Name(o)
           THEN i' = i + 1 /\ j' = j
           ELSE i' = i /\ j' = j + 1

At(listing, k, default) == IF k \in DOMAIN listing THEN listing[k] ELSE default

SyncLine ==
  /\ loop = "sync"
  /\ j \leq Len(lines)
  /\ LET o == lines[j]
         c == At(fc, i, NoLine)
     IN  IF SamePath(c, o) \/ o.level \leq c.level
           THEN Skip(c, o) /\ UNCHANGED <<fc, loop, missed>>
           ELSE IF i - 1 \notin DOMAIN fc
             THEN loop' = "panic" /\ UNCHANGED <<sync, missed>>
             ELSE IF IsDir(fc[i - 1])
               THEN /\ fc' = Engage(disk, fc, i - 1)
                    /\ Skip(At(fc', i, c), o)
                    /\ missed' = missed \ ReadBy(fc[i - 1])
                    /\ UNCHANGED loop
               ELSE Skip(c, o) /\ UNCHANGED <<fc, loop, missed>>
  /\ UNCHANGED <<disk, changes, lines, watched, event, reloads>>

(* The new listing replaces the one of the buffer. *)
ReplaceContent ==
  /\ loop = "sync"
  /\ j > Len(lines)
  /\ lines' = fc
  /\ loop' = "watch"
  /\ fc' = <<>> /\ i' = 1 /\ j' = 1
  /\ UNCHANGED <<disk, changes, watched, event, reloads, missed>>

(* The buffer is closed: the watches are stopped, and the reloads still on their way ignored. *)
Close ==
  /\ loop = "idle"
  /\ loop' = "closed"
  /\ watched' = {}
  /\ event' = {}
  /\ UNCHANGED <<disk, changes, lines, sync, reloads, missed>>

IgnoreReload ==
  /\ loop = "closed"
  /\ reloads # <<>>
  /\ reloads' = Tail(reloads)
  /\ UNCHANGED <<disk, changes, buffer, event, missed>>

(* Nobody has anything to do: the editor waits for keys, or has gone. *)
Quiet ==
  /\ loop \in {"closed", "panic"}
  /\ UNCHANGED vars

-----------------------------------------------------------------------------

Next ==
  \/ \E p \in Entries : Create(p) \/ Delete(p)
  \/ \E dir \in Directories : Report(dir)
  \/ \E k \in DOMAIN lines : EngageLine(k)
  \/ SyncWatches \/ TakeReload \/ SyncLine \/ ReplaceContent \/ Close \/ IgnoreReload \/ Quiet

(* The loop goes on with what it has begun, and gets to a reload among the keys, as the watcher  *)
(* does to a changed directory among the others: both are queued.  Nobody has to press a key.    *)
Fairness ==
  /\ WF_vars(SyncWatches)
  /\ WF_vars(SyncLine \/ ReplaceContent)
  /\ SF_vars(TakeReload)
  /\ \A dir \in Directories : SF_vars(Report(dir))

Spec == Init /\ [][Next]_vars /\ Fairness

-----------------------------------------------------------------------------
(* Properties. *)

(* Between two commands only the directories that are shown are watched, since each takes a file *)
(* descriptor or more; and none once the buffer is closed.                                       *)
TypeOK ==
  /\ disk \subseteq Entries /\ IsFiniteSet(disk)
  /\ changes \in 0 .. MaxChanges
  /\ lines \in Seq(Line)
  /\ fc \in Seq(Line)
  /\ reloads \in Seq(Seq(Line)) /\ Len(reloads) \leq 2
  /\ loop \in {"idle", "sync", "watch", "closed", "panic"}
  /\ i \in 1 .. Len(fc) + 2
  /\ j \in 1 .. Len(lines) + 1
  /\ event \subseteq watched
  /\ watched \subseteq Directories
  /\ missed \subseteq Directories
  /\ loop = "idle" => watched \subseteq Shown(lines)
  /\ loop = "closed" => watched = {}

(* However the lines of a listing were inserted, removed and synchronised, and whatever was read *)
(* meanwhile, they are those of a tree in order, each knowing its place, which is what engaging  *)
(* the next one relies on.                                                                       *)
ListingIsTree == IsTree(lines) /\ IsTree(fc)

(* What is shown of a directory is what is in it, unless a reload is on its way or will be, or   *)
(* the directory was changed after it was read and before it was watched.                        *)
StaleIsNoticed ==
  loop = "idle" =>
    \A dir \in Shown(lines) :
      UpToDate(disk, lines, dir) \/ event # {} \/ reloads # <<>> \/ dir \in missed

(* If the files are those of the old listing and no change is left to notice, a reload shows the *)
(* same lines, whatever was expanded, in which order, and changed back meanwhile.  An expanded   *)
(* directory with nothing in it is the exception: it ends collapsed.                             *)
NothingToNotice == event = {} /\ reloads = <<>> /\ missed \cap Shown(lines) = {}

ReloadRestores ==
  [][ReplaceContent /\ Current(disk, lines) /\ NothingToNotice =>
       lines' = [k \in DOMAIN lines |-> [lines[k] EXCEPT !.open = @ /\ Listed(lines, lines[k].path) # {}]]]_vars

(* Once nothing is created or removed any more, the listing ends up showing what there is. *)
Converges ==
  <>[](loop \in {"closed", "panic"} \/ \A dir \in Shown(lines) : UpToDate(disk, lines, dir) \/ dir \in missed)

(* "SyncState ensures that FsContent has all the dirs expanded as in the origin": it returns,    *)
(* and the directories expanded in the new listing are those of the old one that are still there.*)
KeepsExpanded ==
  [][loop = "sync" /\ loop' # "sync" =>
       /\ loop' = "watch"
       /\ \A dir \in Shown(lines) \ {Root} :
            dir \in Listed(lines', Front(dir)) => dir \in Shown(lines')]_vars

=============================================================================
