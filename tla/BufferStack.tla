---------------------------- MODULE BufferStack ----------------------------
(***************************************************************************)
(* The buffers of the editor with their modes and cursors, the command     *)
(* line with its prompts, and the navigation history (editor/stack.go,     *)
(* cmdline.go, command.go, quickopen.go, search.go).                       *)
(*                                                                         *)
(* A prompt is opened for the top buffer, from either mode.  Commands of   *)
(* other goroutines arrive while it is open: files opened remotely, the    *)
(* definition found by the language server, the list of the project files. *)
(* They may put another buffer on top, close the prompt, move the cursor   *)
(* that a search has moved already, and each jump goes into the history.   *)
(*                                                                         *)
(* The handlers run on the loop one after the other.  They are operators   *)
(* that take the editor ed and return it, composed like in the code.  A    *)
(* buffer is known by its path: a path is open once.                       *)
(***************************************************************************)
EXTENDS Integers, SequencesExt

CONSTANTS
  Path, Pos,   (* the files, and the cursor positions                             *)
  Nowhere,     (* no location: the top buffer does not hold a text                *)
  Size,        (* how many locations are kept in the history                      *)
  Start,       (* the position of the cursor in a new buffer                      *)
  Queries,     (* the queries typed for a file, each the set of paths it matches  *)
  Listings,    (* what the listing of the project files may return                *)
  Pickers,     (* a bound: as many pickers may wait for their list of files       *)
  None

ASSUME StartAssumption == Start \in Pos
ASSUME SizeAssumption == Size \in Nat \ {0}

(* The empty query, with which a picker starts, matches every path. *)
ASSUME QueriesAssumption ==
  /\ Queries \subseteq SUBSET Path /\ Path \in Queries
  /\ \A files \in Listings : files \subseteq Path /\ IsFiniteSet(files)

VARIABLES
  e,           (* bufs, the stack of buffers, the top one last; text, whether they hold texts; *)
               (* cursor and mode of each; cmd, the command line; nav, the history; files, the *)
               (* project files as they were listed last                                       *)
  listing      (* the pickers whose goroutines are listing the project files                   *)

vars == <<e, listing>>

(* The history, by what its ring is shown to implement (NavRing). *)
Nav == INSTANCE NavList WITH list <- e.nav.list, at <- e.nav.at, disabled <- FALSE

Location == Nav!Location

ASSUME NowhereAssumption == Nowhere \notin Location

RecordJump(nav, recording, from, to) == IF recording THEN Nav!Arrive(Nav!Leave(nav, from), to) ELSE nav

Current(nav) == nav.list[nav.at]

(* MovePrev and MoveNext: the location left follows the cursor. *)
MoveTo(nav, from, i) == [(IF Nav!Follows(nav, from) THEN Nav!Update(nav, from) ELSE nav) EXCEPT !.at = i]

NoCmd == [kind |-> "none"]

(* A command line.  The last fields are those of the file picker: which one it is, whether it is *)
(* waiting for its list, the query, the matches and the selected one of them; the origin is that *)
(* of the search.                                                                                *)
Cmd(kind, buf, resume, origin, id, loading, query, matches, sel) ==
  [kind |-> kind, buf |-> buf, resume |-> resume, origin |-> origin,
   id |-> id, loading |-> loading, query |-> query, matches |-> matches, sel |-> sel]

Open(ed) == Range(ed.bufs)
Top(ed) == Last(ed.bufs)
Prompting(ed, kind) == ed.cmd.kind = kind

Init ==
  /\ \E p \in Path, text \in BOOLEAN :
       e = [bufs |-> <<p>>,
            text |-> [q \in Path |-> q = p /\ text],
            cursor |-> [q \in Path |-> Start],
            mode |-> [q \in Path |-> "normal"],
            cmd |-> NoCmd,
            nav |-> RecordJump([list |-> <<>>, at |-> 0], TRUE, Nowhere, IF text THEN [path |-> p, position |-> Start] ELSE Nowhere),
            files |-> {}]
  /\ listing = {}

-----------------------------------------------------------------------------
(* The command line is closed. *)

(* resume: the buffer returns to the insert mode. *)
Resume(ed, c) == IF c.resume /\ ed.text[c.buf] THEN [ed EXCEPT !.mode[c.buf] = "insert"] ELSE ed

(* What a prompt changed while it was typed: the search shows its matches. *)
Reverted(ed, c) == IF c.kind = "search" THEN [ed EXCEPT !.cursor[c.buf] = c.origin] ELSE ed

CancelCmdLine(ed) ==
  IF ed.cmd = NoCmd THEN ed ELSE Resume(Reverted([ed EXCEPT !.cmd = NoCmd], ed.cmd), ed.cmd)

-----------------------------------------------------------------------------
(* The stack. *)

LocationOf(ed, p) == IF ed.text[p] THEN [path |-> p, position |-> ed.cursor[p]] ELSE Nowhere

Jump(ed, recording, from, to) == [ed EXCEPT !.nav = RecordJump(@, recording, from, to)]

(* A file or, without text, an error is shown.  The location left is taken before the prompt is  *)
(* closed, since it is an argument of a deferred call.                                           *)
Push(ed, p, recording, text) ==
  LET from == LocationOf(ed, Top(ed))
      f == CancelCmdLine(ed)
      pushed == [f EXCEPT !.bufs = Append(@, p), !.text[p] = text,
                          !.cursor[p] = Start, !.mode[p] = "normal"]
  IN  Jump(pushed, recording, from, LocationOf(pushed, p))

SelectBuffer(ed, i, recording) ==
  IF i = Len(ed.bufs)
    THEN ed
    ELSE LET f == CancelCmdLine(ed)
             p == f.bufs[i]
             jumped == Jump(f, recording, LocationOf(f, Top(f)), LocationOf(f, p))
         IN  [jumped EXCEPT !.bufs = Append(RemoveAt(@, i), p)]

(* An open file is activated.  Another one may be shown elsewhere, like an image. *)
Outcomes(p) == IF p \in Open(e) THEN {"activated"} ELSE {"text", "error", "elsewhere"}

OpenPath(ed, p, recording, outcome) ==
  IF outcome = "activated"
    THEN SelectBuffer(ed, CHOOSE i \in DOMAIN ed.bufs : ed.bufs[i] = p, recording)
    ELSE IF outcome = "elsewhere" THEN ed ELSE Push(ed, p, recording, outcome = "text")

(* pop: a closed buffer is forgotten. *)
Pop(ed) ==
  LET f == CancelCmdLine(ed)
      top == Top(f)
      rest == Front(f.bufs)
      to == IF rest = <<>> THEN Nowhere ELSE LocationOf(f, Last(rest))
      jumped == Jump(f, TRUE, LocationOf(f, top), to)
  IN  [jumped EXCEPT !.bufs = rest, !.text[top] = FALSE, !.cursor[top] = Start, !.mode[top] = "normal"]

(* The location a GoTo leaves is taken before the file is opened; as a mutant, after. *)
LeftAfter(ed, opened) == LocationOf(opened, Top(opened))
LeftBefore(ed, opened) == LocationOf(ed, Top(ed))

(* The cursor is moved in the file, if that is what was opened. *)
GoTo(ed, loc, recording, outcome) ==
  LET f == OpenPath(ed, loc.path, FALSE, outcome)
      from == LeftBefore(ed, f)
      g == [f EXCEPT !.cursor[loc.path] = loc.position]
  IN  IF Top(f) # loc.path THEN f ELSE Jump(g, recording, from, LocationOf(g, loc.path))

(* navigateHistory: the history has moved before the file is opened. *)
Navigate(nav) ==
  \E outcome \in Outcomes(Current(nav).path) :
    e' = GoTo([e EXCEPT !.nav = nav], Current(nav), FALSE, outcome)

-----------------------------------------------------------------------------
(* The prompts. *)

(* refresh: the open buffers from the most recently used one, the current one last, then the     *)
(* project files.  As a mutant, the current buffer is among the others.                          *)
MostRecent(ed) == Reverse(ed.bufs)
CurrentLast(ed) == Append(Reverse(Front(ed.bufs)), Top(ed))

Matching(query, paths) ==
  FoldLeft(LAMBDA found, p : IF p \in query THEN Append(found, p) ELSE found, <<>>, paths)

FileMatches(ed, query) ==
  Matching(query, CurrentLast(ed)) \o SetToSeq((ed.files \cap query) \ Open(ed))

Refresh(ed, query) ==
  [ed EXCEPT !.cmd.query = query, !.cmd.matches = FileMatches(ed, query), !.cmd.sel = 1]

(* The picker starts: its files are listed in the background. *)
StartPicker(ed, id) ==
  Refresh([ed EXCEPT !.cmd.kind = "picker", !.cmd.id = id, !.cmd.loading = TRUE], Path)

(* The prompt becomes another one, or is not the picker any more. *)
Becomes(ed, kind) ==
  [ed EXCEPT !.cmd = Cmd(kind, @.buf, @.resume, @.origin, None, FALSE, {}, <<>>, 1)]

(* openCmdLine: what the buffer returns to is noted after the last command line is closed.  As a *)
(* mutant, before.                                                                               *)
NotedBefore(ed) == ed
NotedAfter(ed) == CancelCmdLine(ed)

OpenCmdLine(ed, kind) ==
  LET b == Top(ed)
      noted == NotedAfter(ed)
      origin == IF kind = "search" THEN noted.cursor[b] ELSE Start
      c == Cmd(kind, b, noted.mode[b] = "insert", origin, None, FALSE, {}, <<>>, 1)
  IN  [CancelCmdLine(ed) EXCEPT !.mode[b] = "normal", !.cmd = c]

(* A goroutine lists files for a picker that is not open any more, so its id is not given again. *)
FreePickers == Pickers \ (listing \cup (IF Prompting(e, "picker") THEN {e.cmd.id} ELSE {}))

(* The prompt of the kind is shown. *)
Show(ed, kind) ==
  IF kind = "picker"
    THEN \E id \in FreePickers :
           /\ id = CHOOSE free \in FreePickers : TRUE
           /\ e' = StartPicker(ed, id)
           /\ listing' = listing \cup {id}
    ELSE e' = ed /\ UNCHANGED listing

Running == e.bufs # <<>>

(* The prompts are opened with keys of any mode; the picker and the others have a use for their  *)
(* key themselves, but the ex command is opened anew.                                            *)
OpenPrompt(kind) ==
  /\ Running
  /\ kind = "ex" \/ ~Prompting(e, kind)
  /\ Show(OpenCmdLine(e, kind), kind)

(* The ex command turns into the picker or the prompt of a new file as its prefix is typed, and  *)
(* back as it is deleted.                                                                        *)
TurnPrompt(from, to) ==
  /\ Running
  /\ Prompting(e, from)
  /\ "ex" \in {from, to} /\ from # to
  /\ Show(Becomes(e, to), to)

(* The query of the picker is typed. *)
TypeQuery(query) ==
  /\ Running
  /\ Prompting(e, "picker")
  /\ query # e.cmd.query
  /\ e' = Refresh(e, query)
  /\ UNCHANGED listing

(* The selection of the picker is moved. *)
MoveSelection(d) ==
  /\ Running
  /\ Prompting(e, "picker")
  /\ e.cmd.matches # <<>>
  /\ e' = [e EXCEPT !.cmd.sel = ((@ - 1 + d) % Len(e.cmd.matches)) + 1]
  /\ UNCHANGED listing

(* searchPrompt.changed and input: the cursor goes to a match, or back to the origin.            *)
TypePattern(pos) ==
  /\ Running
  /\ Prompting(e, "search")
  /\ e' = [e EXCEPT !.cursor[e.cmd.buf] = pos]
  /\ UNCHANGED listing

(* Esc, or Backspace on an empty command line. *)
Cancel ==
  /\ Running
  /\ e.cmd # NoCmd
  /\ e' = CancelCmdLine(e)
  /\ UNCHANGED listing

-----------------------------------------------------------------------------
(* Enter: the command line is closed, its prompt runs, and then the buffer returns to its mode. *)

Entered == [e EXCEPT !.cmd = NoCmd]

Submit(kind, ran) ==
  /\ Running
  /\ Prompting(e, kind)
  /\ e' = Resume(ran, e.cmd)
  /\ UNCHANGED listing

(* runExCommand: the cursor goes to a line, or the buffer is closed, which the loop does next,   *)
(* before anything else (CommandLoop).                                                           *)
SubmitLine == \E pos \in Pos : Submit("ex", [Entered EXCEPT !.cursor[Top(e)] = pos])

SubmitQuit ==
  /\ Running
  /\ Prompting(e, "ex")
  /\ e' = Pop(Resume(Entered, e.cmd))
  /\ UNCHANGED listing

(* The match stays, or the matches are replaced, or there are none. *)
SubmitSearch ==
  \E pos \in Pos :
    /\ Prompting(e, "search")
    /\ pos # e.cursor[Top(e)] => e.text[Top(e)]
    /\ Submit("search", [Entered EXCEPT !.cursor[Top(e)] = pos])

(* The selected match is opened; without matches, the query is a path, as it is for a new file.  *)
Picked(p) == IF e.cmd.matches = <<>> THEN TRUE ELSE p = e.cmd.matches[e.cmd.sel]

SubmitPath ==
  \E p \in Path : \E outcome \in Outcomes(p) :
    \/ Prompting(e, "picker") /\ Picked(p)
         /\ Submit("picker", OpenPath(Entered, p, TRUE, outcome))
    \/ Submit("new", OpenPath(Entered, p, TRUE, outcome))

-----------------------------------------------------------------------------
(* Other keys and commands. *)

(* The cursor is moved by keys, clicks and edits; also with a prompt open, by a click or an undo. *)
MoveCursor(pos) ==
  /\ Running
  /\ e' = [e EXCEPT !.cursor[Top(e)] = pos]
  /\ UNCHANGED listing

(* i and Esc. *)
SetMode(mode) ==
  /\ Running
  /\ e.cmd = NoCmd
  /\ mode = "insert" => e.text[Top(e)]
  /\ e' = [e EXCEPT !.mode[Top(e)] = mode]
  /\ UNCHANGED listing

OpenFile(p, outcome) ==
  /\ Running
  /\ e' = OpenPath(e, p, TRUE, outcome)
  /\ UNCHANGED listing

GoToDefinition(loc, outcome) ==
  /\ Running
  /\ e' = GoTo(e, loc, TRUE, outcome)
  /\ UNCHANGED listing

Back ==
  /\ Running
  /\ e.nav.at > 1
  /\ Navigate(MoveTo(e.nav, LocationOf(e, Top(e)), e.nav.at - 1))
  /\ UNCHANGED listing

Forward ==
  /\ Running
  /\ e.nav.at < Len(e.nav.list)
  /\ Navigate(MoveTo(e.nav, LocationOf(e, Top(e)), e.nav.at + 1))
  /\ UNCHANGED listing

Close ==
  /\ Running
  /\ e' = Pop(e)
  /\ UNCHANGED listing

(* The files of the project have been listed for a picker: it is refreshed if it is still open.  *)
(* As a mutant, whichever picker is open.                                                        *)
AnyPicker(ed, id) == Prompting(ed, "picker")
ThisPicker(ed, id) == Prompting(ed, "picker") /\ ed.cmd.id = id

Listed(id, files) ==
  /\ Running
  /\ id \in listing
  /\ listing' = listing \ {id}
  /\ LET ed == [e EXCEPT !.files = files]
     IN  e' = IF ThisPicker(ed, id) THEN Refresh([ed EXCEPT !.cmd.loading = FALSE], ed.cmd.query) ELSE ed

(* The loop is over. *)
Over == ~Running /\ UNCHANGED vars

-----------------------------------------------------------------------------

Kinds == {"ex", "search", "picker", "new"}

Next ==
  \/ \E kind \in Kinds : OpenPrompt(kind)
  \/ \E from, to \in Kinds \ {"search"} : TurnPrompt(from, to)
  \/ \E query \in Queries : TypeQuery(query)
  \/ \E d \in {-1, 1} : MoveSelection(d)
  \/ \E pos \in Pos : TypePattern(pos)
  \/ Cancel \/ SubmitLine \/ SubmitQuit \/ SubmitSearch \/ SubmitPath
  \/ \E pos \in Pos : MoveCursor(pos)
  \/ \E mode \in {"normal", "insert"} : SetMode(mode)
  \/ \E p \in Path : \E outcome \in Outcomes(p) : OpenFile(p, outcome)
  \/ \E loc \in Location : \E outcome \in Outcomes(loc.path) : GoToDefinition(loc, outcome)
  \/ Back \/ Forward \/ Close
  \/ \E id \in Pickers, files \in Listings : Listed(id, files)
  \/ Over

Spec == Init /\ [][Next]_vars

-----------------------------------------------------------------------------
(* Properties. *)

(* "Ctrl+O and Enter switch back to the previous buffer": with the empty query the first match   *)
(* is the buffer used before, also after the list of files has come.                             *)
CmdOK(c) ==
  /\ c.kind \in Kinds
  /\ c.buf = Top(e) /\ e.mode[c.buf] = "normal"   \* the one the keys go to
  /\ c.resume => e.text[c.buf]
  /\ c.origin \in Pos
  /\ c.kind = "picker" =>
       /\ c.id \in Pickers
       /\ c.loading <=> c.id \in listing
       /\ c.query \in Queries
       /\ c.matches \in Seq(Path) /\ IsInjective(c.matches)
       /\ c.sel \in 1 .. Len(c.matches) \/ c.matches = <<>>
       /\ c.query = Path /\ Len(e.bufs) > 1 => c.matches[1] = e.bufs[Len(e.bufs) - 1]

TypeOK ==
  /\ e.bufs \in Seq(Path) /\ IsInjective(e.bufs)
  /\ e.text \in [Path -> BOOLEAN]
  /\ \A p \in Path : e.text[p] => p \in Open(e)
  /\ e.cursor \in [Path -> Pos]
  /\ e.mode \in [Path -> {"normal", "insert"}]
  /\ \A p \in Path : e.mode[p] = "insert" => e.text[p]
  /\ e.cmd = NoCmd \/ CmdOK(e.cmd)
  /\ e.nav.list \in Seq(Location) /\ Len(e.nav.list) \leq Size
  /\ e.nav.at \in DOMAIN e.nav.list \/ (e.nav.at = 0 /\ e.nav.list = <<>>)
  /\ e.files \subseteq Path
  /\ listing \subseteq Pickers

(* "The command line, the search and the file picker opened from insert mode return to insert    *)
(* mode when they are closed", and Esc returns the cursor: whatever prompts are opened and typed, *)
(* one over the other, the buffers are what they were before, once the last one is cancelled.    *)
Settled(ed) == [CancelCmdLine(ed) EXCEPT !.files = {}]

LeavesNoTrace ==
  [][(e.cmd # NoCmd \/ e'.cmd # NoCmd) /\ Settled(e') # Settled(e) =>
       ~ \/ \E kind \in Kinds : OpenPrompt(kind)
         \/ \E from, to \in Kinds \ {"search"} : TurnPrompt(from, to)
         \/ \E pos \in Pos : TypePattern(pos)
         \/ \E query \in Queries : TypeQuery(query)
         \/ Cancel]_vars

(* "Ctrl+Alt+<- returns to where the cursor was": after any jump from a text to another the way  *)
(* back leads to the place left, the one a search was showing or the one it would return to.     *)
BackReturns ==
  [][LET from == Top(e)
         to == Top(e')
         left == {e.cursor[from], CancelCmdLine(e).cursor[from]}
     IN  /\ Running /\ e'.bufs # <<>> /\ Size > 1
         /\ from # to
         /\ e.text[from] /\ e'.text[to]
         /\ ~Back /\ ~Forward
         => /\ e'.nav.at > 1
            /\ LET back == e'.nav.list[e'.nav.at - 1]
               IN  back.path = from /\ back.position \in left]_vars

(* The match that Enter would open is changed by the user alone, or once, by the list the picker *)
(* itself has asked for: not by the list of a picker closed before.                              *)
Selection(ed) == IF ed.cmd.matches = <<>> THEN None ELSE ed.cmd.matches[ed.cmd.sel]

SelectionStays ==
  [][Prompting(e, "picker") /\ Prompting(e', "picker") /\ e.cmd.id = e'.cmd.id /\ e.cmd.query = e'.cmd.query =>
       \/ Selection(e') = Selection(e)
       \/ e.cmd.loading /\ ~e'.cmd.loading
       \/ \E d \in {-1, 1} : MoveSelection(d)]_vars

=============================================================================
