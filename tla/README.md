# A TLA+ model of chernetka

chernetka is a terminal text editor written in Go (`src/cmd/che`) with two helpers: `che-img`, which
shows images and diagrams in another terminal pane, and `pipepr`, a progress bar for pipes. This
directory models the parts of it in which several goroutines, processes or programs meet (the command
loop, the files and directory listings it keeps up to date, the language server, the helpers in their
panes and the socket they are reached by), and the data structures whose indexes are hard to get right
(the change history, the navigation history, the lines of a directory tree). The models are checked with
TLC on small instances; every safety invariant of the runs, the action properties of the buffers with
their prompts and of the quit, that the ring of the navigation history is the list a user is promised, and
that undo and redo walk the contents the buffer has had, are also proved with TLAPS for every value of their
constants.

Paths below are relative to `src/`. `PROJECT.json` has, for every definition of a model, the lines it
stands for.

## 1. Inventory

| Component | Code | State it keeps | Model |
|---|---|---|---|
| Command loop | `internal/editor/loop.go`, `edit.go`, `input.go` | stack of buffers, `quitRequested`, `exitRequested`, `renderRequested`, `cmdChannel`, `done` | `CommandLoop` |
| Files and buffers | `internal/editor/stack.go`, `filewatch.go`, `cmd.go`, `internal/content/save.go` | the buffers, their `dirty`, `srcFingerprint` and `unwatch`; the files | `FileSync`, `BufferStack` |
| Language server synchronisation | `internal/editor/extlsp` | the request queue, the client's state, what the server was sent, the suggestions | `LspSync` |
| Change history | `internal/content/change/list.go` | the groups of changes, `currentPos`, `groupRequested` | `ChangeHistory`, `UndoStack` |
| Navigation history | `internal/editor/navigation/history.go` | the ring of locations | `NavRing`, `NavList` |
| Remote control | `internal/remotectl/server.go`, `send.go`, `endpoint.go` | the connections, the channel of lines, the socket file | `RemoteServer` (the server and its clients), `PaneProcess` (the socket) |
| Command proxy | `internal/remotectl/exeproxy` | the running process and the goroutine waiting for it | `CommandProxy` |
| Main program, panes | `cmd/che/main.go`, `pane.go`, `runner.go`, `imgviewer.go` | the launched panes and the lock of the deliveries; the control server | `PaneProcess` |
| Directory tree | `internal/content/folder.go`, `watchDir` and `dirWatch` in `internal/editor/filewatch.go` | the listed lines, the expanded directories, the watched ones | `Folder`, `DirWatch` |
| Prompts | `internal/editor/cmdline.go`, `command.go`, `quickopen.go`, `search.go` | the open prompt, the buffer and the mode it returns to, the listed files | `BufferStack` |
| Input decoding, mouse | `internal/editor/input`, `mouse.go` | the bytes of an incomplete sequence; clicks | planned |
| Editing commands, rendering, highlighting, other extensions, text parsers | the rest of `internal/editor`, `internal/content` | text and layout | not modelled: sequential functions of a text |
| Language server client, terminal, image viewer, pipepr, tools | `internal/lsp`, `internal/vt`, `cmd/che-img`, `cmd/pipepr` | see section 8 | not modelled |

### How they interact

- **One loop owns the editor.** `Editor.Run` executes everything that touches the buffers. Every other
  goroutine (the input reader, the file watcher's callbacks, the language server, the control server)
  hands it a command with `Editor.Send`, over a channel of one command. `Send` waits for room in the
  channel, or for the end of the loop.
- **The loop waits for another goroutine in two places only**: when a save is formatted (for a second at
  most), and when the extensions are closed at the end of `Run`. Both are deadlocks in the making, since
  those goroutines wait for the loop in `Send`.
- **Files are shared with other programs.** The watcher reads a changed file on a goroutine of its own
  and sends the data to the loop, which compares its fingerprint with the one of what it last loaded or
  saved.
- **The language server is told about texts in order, through a queue that keeps the latest request of
  each buffer.** Answers come back as commands, when the buffer has probably changed.
- **The helpers are other processes**, reached over a local socket: a line, then its acknowledgement.

### What is hard, and what makes each component correct

`PROJECT.json` lists 40 hazards at their lines. In short:

- *Command loop*: nothing may run between the key that quits a buffer and the iteration that closes it;
  no handler may see an empty stack; a blocked sender must be released before the extensions are closed;
  a burst of commands must not starve the render; a goroutine may call `Send` before the channel exists.
- *Files*: a reload is read at one moment and applied at another, with saves, foreign writes, closes and
  reopens in between. A buffer must not be left on a content that nothing corrects.
- *Language server*: coalescing must not lose a formatting the loop waits for, nor the imports check; a
  change must fit the text the server has, after failed calls and reopened files; late answers must not
  be applied to another text.
- *Change history*: merging, splitting and dropping groups must leave undo and redo exact.
- *Navigation history*: the ring must behave like a list when it wraps; a jump must record the place left,
  which is read at another moment in each of its callers.
- *Directory tree*: each line holds its own position, which every insertion and removal moves; the root is
  read on one goroutine, the expanded directories later on another, and watched later still.
- *Prompts*: one is opened over another, turns into a third, or is closed by a file that another goroutine
  opens, and the mode and cursor to return to must be those before the first; the list of files arrives
  after its picker was closed, or opened again.
- *Remote control and proxy*: an acknowledged line is executed; `Run` closes the channel only when nobody
  sends on it; a single process at a time, however it reacts to being interrupted.
- *Panes*: several deliveries find no process at once; a process starts, finds the socket file of a dead
  one and replaces it while another process does the same; the acknowledgement is lost after the command
  was taken. A command must not run twice, nor be lost.

## 2. Modules

| Module | Role |
|---|---|
| `CommandLoop` | `Run`, `processCommands`, `handleKeys`, `Send`, the shutdown |
| `CommandLoopProofs` | its theorems |
| `FileSync` | buffers, files, other programs, the watcher |
| `FileSyncProofs` | its theorems |
| `LspSync` | editor loop, queue, sync loop, server |
| `LspSyncProofs` | its theorems |
| `ChangeHistory` implements `UndoStack` | the change list / what undo and redo promise |
| `NavRing` implements `NavList` | the ring / a bounded list of places |
| `HistoryProofs` | that both do, for contents and groups of any length, and a ring of any size |
| `BufferStack`, with an instance of `NavList` | buffers with modes and cursors, prompts, jumps |
| `BufferStackProofs` | its theorems |
| `Folder` | the lines of a directory tree, as operators, and what a listing is |
| `DirWatch` EXTENDS `Folder` | the listing in a buffer, its watches, other programs |
| `DirWatchProofs` | theorems of both, for trees of any depth |
| `RemoteServer` | the server with its clients, and a plain executor |
| `CommandProxy` EXTENDS `RemoteServer` | the server composed with the executor that runs processes |
| `CommandProxyProofs` | theorems of the composition |
| `PaneProcess` | deliveries of several editors, helper processes, the socket file |
| `PaneProcessProofs` | its theorems |
| `MC*` | instances for TLC |

A module has a variable for every piece of state in the code, an action for every handler or step between
two points where another goroutine can run, and keeps the names of the code where it can. A few operators
come in pairs, such as `DropKeys` and `KeepKeys`: the first is what the code does, and the second, marked
as a mutant in its comment, a plausible mistake. No specification uses a mutant; `PROJECT.json` pairs each
checked property with a mutant that breaks it, which shows that the property depends on that code.

### CommandLoop

`pc` is the place of the goroutine of `Run`: `setup` before `Run`, `top` of the `for` loop, `wait` in the
`select` of `processCommands`, `keys` within `handleKeys`, then `over`, `ext` and `done` in the deferred
function. A buffer is its dirty flag: the loop reads nothing else of it to decide whether it may go. A
command is what it does: a batch of keys, an edit of the top buffer (`SendBufferCmd`), an open (`GoTo`, a
file opened remotely), the reload of some buffer, a render, or the quit of everything. A key either edits,
saves, opens, closes (`q`), force-closes (`:q`), exits (Ctrl+Q) or does nothing of interest. A key is a
step of its own so that the goroutines interleave with a batch as they do in the code, though only the
loop can change the stack. `nilSend` holds the goroutines that evaluated `cmdChannel` while it was nil.

### FileSync

A buffer is known by its path. `print` is `srcFingerprint`; a fingerprint is the content itself, since
equal fingerprints of different contents are not what the code is about. `opening` splits `OpenFile`
in its load, its push and its watch, because a file may change between them. `event` holds the watched
files with a change the watcher has not reported, `reloads` the reloads sent and not run (one in the
channel, one in a blocked `Send`). A save may change the text (the formatter) and may fail. The first
buffer is a directory listing, which is never saved; how listings are kept up to date is in `DirWatch`.
A file that is read is there and can be read: the buffer that shows an error instead (`ErrorContent`) and a
reload whose read fails, which is dropped until the next change of the file, are left out.

### LspSync

A text is a number, new with each edit; the number is also `reqCompletion`, which every edit of an active
buffer increments. What is sent to the server is the whole text or a change; a change applied to a text it was not
computed from makes the server's text `Garbage`. The requests, their merging in the queue, the state of
the client (`ready`, `failed`), `serverOpen`, `serverSynced` and `serverText` are those of the code. Any
call may fail, before or after the server has done its part. A buffer is a file and the number of its
opening, because a reopened file has new extension data while old requests may still be queued. The
server counts versions per opening: a change that does not carry a newer one makes its text `Garbage` too,
so `RequestsFit` covers the order of what is sent as well as its content.

The completions are about the word at the cursor. A *place* is a row and the rest of its line, before the
word that is typed there and after the cursor; an anchor (`At`) is a place and how much of the word is typed,
and `Origin` gives it a position, since several places may have one. A character that contradicts the word
leads to another place. `Word` is the length of the candidate, and a suggestion is what is left of it at
its anchor. `edited` is where the cursor was after the last edit, `cursor` where it is now: keys dismiss the
suggestions before they move it, a click does not. A completion request carries its anchor (`at`) and the
text it is for, and `Assign` makes the checks of the code when the answer comes: the insert mode, the id,
then either the position of the cursor or, for an older text, `assignLate`, which keeps the answer if it
agrees with what was typed since (`TypeThrough`), and otherwise what was shown before. The request may find
nothing. The line of several candidates to cycle through is reduced to the one that is picked, and the mode of
the buffer is a choice of the step.

### ChangeHistory and UndoStack

Items hold a position and the old and new lines; a group is a sequence of items, folded over the content.
An edit command is one item or two (`DeleteSpan`, `InsertText`). `late` stands for the delay of
`maxGroupDelay`. `UndoStack` is what a user is promised: contents to go back to, contents to redo, and
whether the next edit is a step of its own. The refinement mapping replays the list: the past is the
contents of its prefixes, the future those of the groups after `currentPos`.

### NavRing and NavList

The ring with its `pos`, `ringEnd` and length, and `rotateRecords` index by index, against a
list where moving the current location to the end is a removal and an append. The mapping reads the ring
from `ringEnd` on. `RingTypeOK` includes that the code's tests of whether one can move back or forward agree
with the place in the list.

### BufferStack

The handlers run on the loop one after the other, so each is an operator that takes the editor `e` (the
stack, the cursor and mode of each buffer, the command line, the history, the listed files) and returns
it, composed in the order of the code: `Push` cancels the command line in a deferred call whose argument,
the location left, was read before; `SelectBuffer` and `Pop` read it after; `GoTo` reads it before it opens
the file. The history is an instance of `NavList`, which `nav_ring` shows the ring to implement, so the
two modules together are the composition of the stack with the real ring. `listing` holds the pickers
whose goroutine is listing the project files: the id of a picker stands for its pointer, and is given again
only when nobody holds it. A query is the set of paths it matches. What the model shows and no property
forbids: the location a jump records is the match a search prompt was previewing or the cursor it goes back
to, depending on the caller; a jump within the same file leaves the search prompt open; an older listing of
the project files that ends later replaces the newer one.

Left out: scroll offsets and highlighted patterns; what `:w` and the copies of the ex command do
(`FileSync`); the refusals of `q` on dirty buffers (`CommandLoop`).

### Folder and DirWatch

A path is the tuple of its names and a line the path with the level, the position and the flag that the
code keeps. `Folder` has the operations as operators, `InsertLines` and `Collapse` with their position
arithmetic, and `IsTree`, which says what a listing is without looking at how it came about: every line is
below the line of its directory, which is expanded, the entries of a directory are in order, and each line
holds its own position. `DirWatch`
composes it: `TakeReload`, then one `SyncLine` per iteration of `SyncState`, since each expansion reads the
disk at its own moment, then `ReplaceContent` and `SyncWatches`, with `EngageLine` for the keys. `reloads`
are as in `FileSync`. `missed` is a history variable, the directories changed after they were read and
before they were watched: the same gap as `GapWrites`, and until their next change nothing corrects them.
A directory that is created is one of them if it is shown already, as one that could not be read. `panic` is
where the loop ends up when `SyncState` indexes a line that is not there.

The watcher is a library and is external: it reports changes after they were made, cannot watch a path
that does not exist, and goes on watching one that is deleted and created again. The root always exists.
Left out: Ctrl+R, which engages the last line again, after a reload has replaced its listing. It then
changes the old listing, which nothing shows any more.

### PaneProcess

A delivery is the goroutine of `deliver`: the lock of its editor, the send, the launch, the retries and the
timeout. A process starts with the steps of `NewServer`, of which none is atomic with another: `Listen`,
`Stat`, `Dial`, `Remove`, the second `Listen`, and `Accept`, between `bind(2)` and `listen(2)`. `path` is
the process whose socket the file is. `reliable` separates the runs of the world in which the terminal
launches what it is asked to, and in time, from those where anything fails. That a process removes the
socket file of another one that is running does happen (`stolen`): the check of a stale socket and the
removal are two steps. The process it is taken from goes on and can no longer be reached; the items are
delivered all the same, which is what `ItemsAreTaken` says. The `Close` of the server in a process, the
connections and then the listener, is one step here; what lies between them is shorter than the pause before
a retry. The lines fit the buffer of `bufio.Scanner` (64 KB): a longer one makes `Run` close the connection
without an acknowledgement while the process is up, and the item is retried in vain.

### RemoteServer and CommandProxy

A connection goes from the backlog to `accepted` (returned by the listener, not registered) to `active`.
Its goroutine scans, passes a line, replies, and closes. `Close` is two steps: the registered connections,
then the listener with its backlog. `CommandProxy` replaces the plain executor: the interrupt, the grace
period, the kill, the start, the goroutine waiting for each process and printing its end, and `quit`.
The processes are external: they may exit at any moment, and do when killed. Two things are assumed of
what is below the code: the listener fails to accept only when it is closed (any other error, like having
no file descriptors left, also ends the accept loop of `Run`, with the listener open), and a line fits the
buffer of `bufio.Scanner`.

## 3. Runs

| Run | Checks | Bounds | Distinct states |
|---|---|---|---|
| `command_loop` | `TypeOK`, `CommandsHaveTop`, `QuitLosesNothing`, `QuitStopsCommands`, `SendReturns`, `RunReturns`, `RenderHappens` | two goroutines, one of an extension and possibly early; two buffers; batches of two or three keys | 44,415 |
| `file_sync` | `TypeOK`, `StaleIsNoticed`, `Converges` | two files, two contents, one file written by others, watches that fail | 524,145 |
| `lsp_sync` | `TypeOK`, `RequestsFit`, `AnswersFit`, `FormatIsAnswered`, `ServerFollows`, `Closes` | one file opened twice, five edits at most, versions to 5 and, opened again, to 2; three places, words of up to three characters; failing calls | 937,933 |
| `change_history` | `TypeOK`, `UndoesSteps` | two lines, contents of up to 3 lines, 3 items in the list | 85,906 |
| `nav_ring` | `RingTypeOK`, `RingIsList` | a ring of 4, two files, two positions | 8,650 |
| `buffer_stack` | `TypeOK`, `LeavesNoTrace`, `BackReturns`, `SelectionStays` | two files, two positions, two queries, two pickers, a history of 2 | 119,899 |
| `dir_watch` | `TypeOK`, `ListingIsTree`, `StaleIsNoticed`, `ReloadRestores`, `Converges` | six entries, three of them directories, two changes | 196,951 |
| `pane_delivery` | `TypeOK`, `TakenByOne`, `LaunchedOnce`, `DeliveriesEnd`, `ItemsAreTaken` | two items, one or two editors, two processes, one of them ended | 82,888 |
| `command_proxy` | `TypeOK`, `AckedIsTaken`, `OneProcess`, `SendReturns`, `RunReturns`, `CommandsAreExecuted` | two clients: a ping and two commands, a command and the quit | 51,220 |

Several type invariants carry what else has to hold between the variables: the content of a buffer is its
replayed history (`ChangeHistory`), `Run` closes its channel only when no connection goroutine can send
(`RemoteServer`), the first match of a picker is the previous buffer (`BufferStack`), the watches are of
directories that are shown (`DirWatch`), whoever listens can be reached (`PaneProcess`).

Why the bounds are enough to meet the cases:

- *command_loop*: each batch puts a quit next to a save, an edit or an open. Two buffers are the least at
  which closing one leaves another that a late command could hit; with one left, closing ends the loop.
  Two senders and one slot give a blocked `Send` behind a full channel.
- *file_sync*: two files are needed for switching (the save of the buffer that is left), and for `:w` to
  another open file, which also makes the file that nobody else writes change behind its buffer. One file
  written by others is enough for every crossing of a reload, as the reloads of a buffer are independent
  of those of another. Two contents tell a stale reload from a current one; a third would only rename them.
- *lsp_sync*: two families of behaviours are explored side by side (`InFamily` in `MCLspSync`), since their
  product is out of reach. Away from the words no completion finds anything, and everything else happens:
  opening the file, two edits that miss the import, and two answers that add it are five texts, the least
  at which the second answer meets the import of the first; two openings give old and new requests of one
  file. Among the words the file is opened once and typed in: with a word of three characters a suggestion
  outlives two of them, so an answer may be for the present text, for one that is agreed with, or for one
  that is contradicted, while an older suggestion is shown; two places with the same positions tell where
  the cursor is from what is typed there. The constraint cuts what a user does (openings, edits, moves of
  the cursor), of which nothing is required, and at the bound of a text an edit that an answer brings; the
  answer may be dropped then, as another buffer is active or the wait for it is over. So `ServerFollows` and
  `Closes` are not weakened by it. One file is enough for every property but the order of two buffers in the queue, which no property is about.
- *change_history*: three items make a merged, a two-item and a dropped group, with undo in between.
- *nav_ring*: two jumps fill half of the ring, so that every alignment of `pos` and `ringEnd` is reached
  before and after it is full.
- *buffer_stack*: one file is left for the other and one query matches only one of them; two pickers are
  one that is open and one whose list is late; a history of two is the least with a way back, and drops
  its oldest place at the third.
- *dir_watch*: a directory within a directory, and one of the same name in two places, which names alone
  do not tell apart; a file two levels deep, whose directory may go while it is shown; a file behind it that
  insertions move. Two changes are one before and one after a
  reading, or a removal and the return of what was removed.
- *pane_delivery*: two deliveries wait for one lock, or race through two locks; two processes race for a
  stale socket; the process that has taken an item may be the one that ends.
- *command_proxy*: a command arrives while another runs, is stopped, is killed, has exited by itself, or
  while `quit` is executed.

`GapWrites` (a file changed between its load and the start of its watch) is modelled and left out of the
runs: `StaleIsNoticed` does not hold with it until the next change. The documentation of the editor
(`cmd/che/doc.go:157`) and the comment of `watchFile` (`filewatch.go:39`) promise that an open file changed
outside is reloaded, without this exception: see section 4. `Linger` (clients that keep the connection open) is empty in `command_proxy`, because `server_close`
shows what they lead to. `Bare` (files whose imports end where an import is added, so that the check of the header
passes on a text that has one more) is off in `lsp_sync`: with it two late answers add the same import twice.

Deadlock is checked in every passing run. The actions named `Terminated`, `Quiet`, `Ended`, `Finished` or
`Over` stutter in the states in which the system has stopped or waits for a user, and in no others.
`server_close` turns the check off: the counterexample of a liveness property is what it looks for.

## 4. Disagreements between the code and what is said of it

Three runs check one property each that a document, comment or test states, and find it violated.

- `own_saves` (`OwnSavesKeepText`): with no other program writing, a reload read between two saves of the
  editor puts the first of them back into the buffer.
- `server_close` (`RunReturns`): a connection that the listener has returned and that is not registered
  yet when `Close` runs is closed by nobody; `Run` waits for its client.
- `sync_state` (`KeepsExpanded`): when the first directory of a listing was expanded and has gone,
  `SyncState` expands the line before the first one, an index of -1, on the loop of the editor.

Other behaviours the models reach; unless a document is quoted, the repository says nothing of them, or too
little to disagree with:

- Ctrl+Q looks at the dirty flag at the key and the loop exits later; what the same batch of keys types
  after it is lost (`CommandLoop`).
- A file that did not exist when it was opened is not watched, even after it is saved, and a change between
  the load of a file and its watch is not noticed until the next one (`FileSync`). Both fall short of what
  `cmd/che/doc.go:157` says ("When an open file is changed outside the editor, its buffer is reloaded") and
  `filewatch.go:39` repeats ("every time its file is changed"). The properties of `FileSync` are about the
  buffers that are watched, and the runs leave the gap out; no run is spent on showing these two.
- A click moves the cursor and leaves the suggestion: until the next edit it is shown, and accepted with Tab,
  where it does not belong (`MoveCursor` in `LspSync`). `AnswersFit` is about what an answer shows and an edit
  keeps, not about a cursor that moves.
- An expanded directory that is empty is collapsed by any reload, and one may be collapsed when an entry
  before it has gone, since `SyncState` compares names while directories are listed first (`DirWatch`).
- `SyncState` may also index a line past the end, with all the entries of the root still there: when an
  expanded entry of an expanded directory has gone, that directory is expanded for the line of the entry and
  engaged again, which collapses it, for the line below; the walk then goes on with a line that is not listed
  any more. `sync_state` stops at the shorter way to the same statement, the index before the first line.
- A process may remove the socket file of one that has just started (`PaneProcess`).

## 5. Fairness

- *CommandLoop*: the goroutine of `Run` runs (weak). Its `select` between the commands and the render timer
  picks at random among what is ready, and a blocked sender is queued on the channel: strong fairness of
  taking a command, of the timer and of a send. A goroutine whose context is cancelled stops, though its
  own `select` may pick an event a few times before: strong. Nothing makes a goroutine send or a user type.
- *FileSync*: the loop finishes opening (weak); it gets to a reload, and the watcher to a changed file,
  among the other commands and files (strong, both are queued). Nobody is made to write.
- *LspSync*: the sync loop goes on and calls of the server end (they have deadlines or fail when the
  process ends); the editor loop runs the commands it is sent; the wait for the formatting ends.
- *RemoteServer, CommandProxy*: the goroutines run (weak); the channel of lines serves its senders in turn
  (strong); a client with its answer hangs up; a killed process exits. A process that is only interrupted
  may ignore it.
- *DirWatch*: as `FileSync`: the loop goes on with a reload it has begun (weak); it gets to a reload, and
  the watcher to a changed directory, among the other commands and directories (strong). Nobody presses a
  key. `Converges` needs no more, because the number of changes is bounded: other programs stop.
- *PaneProcess*: the goroutines and processes run (weak); a mutex is given to its waiters in turn, and the
  time for the retries is over some day (strong). Nobody asks for a delivery or ends a process.
- `ChangeHistory`, `NavRing` and `BufferStack` have no fairness: they are driven by a user, and their
  properties say what a step may never do.

## 6. Proofs

### Command loop

`CommandLoopProofs` proves, for every set of goroutines, every set of commands they send (of every length
of key batches) and every number of buffers:

- `TypeCorrectness`: `Spec => []TypeOK`;
- `TopForCommands`: `Spec => []CommandsHaveTop`;
- `CleanQuit`: `Spec => []QuitLosesNothing`;
- `QuitIsImmediate`: `Spec => QuitStopsCommands`.

The assumptions are `SendersAssumption` (each goroutine sends commands, the special sets are sets of
goroutines) and `MaxBuffersAssumption`. The argument goes through

    IInv == TypeOK /\ QuitEndsKeys /\ KeysOfBatch /\ LoopHasTop /\ QuitLosesNothing

None of the three safety properties is inductive by itself. `QuitLosesNothing` would be lost by a key that
edits after the quit, so `QuitEndsKeys` says that a quit leaves no keys to handle, and `KeysOfBatch` that
there are keys only within `handleKeys`. `CommandsHaveTop` covers the places where commands run, but the
iteration that pops a buffer starts at `top`: `LoopHasTop` extends it to every place of the loop. The proof
has one lemma per action (`TakeCommand` with one step for each kind of command), lemmas on what opening,
activating and dropping do to a stack, and `StepIInv`, which puts them together. `TypeOK` ties `made` and
`loopDone` to `pc`, which is what makes the channel's life follow the loop's.

### Files and buffers

`FileSyncProofs` proves, for every set of files, of contents and of files that others write, and whether
watches fail or not:

- `TypeCorrectness`: `Spec => []TypeOK`;
- `StaleBuffersAreNoticed`: `Spec => []StaleIsNoticed`, assuming `~GapWrites`. With `GapWrites` it is
  false, for the reason given in section 3, so the assumption is needed and is part of the theorem.

The invariant is `TypeOK /\ ListingStays /\ ReloadsOfWatched /\ OpeningIsFresh /\ AllEndCurrent`.
`StaleIsNoticed` says that a stale buffer has a reload with the content of its file on the way, or that
the watcher has yet to read the file. It is not inductive: reloads are run in order, so after the current
one an older one may put the buffer back. `EndsCurrent` says that of the reloads of a buffer the *last* one
is current, which a save or a foreign write keeps because the file is then in `event`, and which a run of
the first reload keeps because the last one stays, or was the first and has set the fingerprint.
`OpeningIsFresh` brings a file being opened to the start of its watch, and `ReloadsOfWatched` says that a
closed buffer has left no reload that a reopened one could take for its own.

### Language server synchronisation

`LspSyncProofs` proves, for every set of files, all bounds, failing calls or not, and headers that can tell
or not (`Bare`):

- `TypeCorrectness`: `Spec => []TypeOK`;
- `WhatIsSentFits`: `Spec => []RequestsFit`;
- `WhatIsAppliedFits`: `Spec => []AnswersFit`;
- `FormatIsNotLost`: `Spec => []FormatIsAnswered`.

The bounds are any natural numbers (`BoundsAssumption`), so the theorems hold of runs of any length. Why
the requests fit is a matter of their order. `RequestsInOrder` says that the requests of a file, from the
server through those taken by the sync loop to the queue, have growing openings and versions, though the
queue replaces a request in the middle and lets others overtake it: the request replaced is of the latest
opening of its file, so all those behind it are of other files. From the order follows that whatever is
sent is newer, and with `SyncedIsKnown` (the text believed to be at the server is the one it has, unless
its document was opened again) that a change fits. `WaitsForCurrent` ties the format request to the text
of the buffer while the loop waits, and says that no other request has its version, so the reply that is
accepted is for that text. `CommandsInOrder` and `BuffersInOrder` carry the reasons for the rest: an import
is proposed to a text without it, and there are no suggestions when the server is down, which is when an
edit does not clear them.

The suggestions need two states, so their part of `AnswersFit` is an action property, and an invariant of
their own (`CInv`). `CompletionsKnown` follows a completion through the queue, the sync loop and the channel:
its text is one the buffer has or has had, and if it is still the present one, its anchor is where that text
was edited. `CursorKnown` says that the cursor is there too or at another position, so an answer with the
present id and an unmoved cursor is for the very word at the cursor. `SuggestionsWhole` says that what is
shown is all that is left of its candidate, which makes what `TypeThrough` keeps of it fit again, at the edit
and in `assignLate` alike.

### Command proxy

`CommandProxyProofs` proves of `ProxySpec`, the composition of the server with the executor that runs
processes, for every set of clients and every sequence of lines each of them sends:

- `TypeCorrectness`: `ProxySpec => []TypeOK`, with the safety of closing the channel of lines;
- `AcknowledgedIsTaken`: `ProxySpec => []AckedIsTaken`;
- `SingleProcess`: `ProxySpec => []OneProcess`.

`LinesAssumption` says that a client sends a line or more and that all the commands differ, which names the
commands: it is how the model tells two runs of one command from a command run twice. The invariant says
where each line is. `LineInOnePlace`: on the way to the server, read, passed to the executor or
acknowledged, one of them only. `TakenInOrder`: the lines before the one a client waits for are taken, the
later ones are not, and that one is taken exactly if it was passed; without the "not yet" half, nothing
would exclude that a line is taken twice. `RegistersNew` keeps the connection being registered apart from
those with a goroutine. For the processes, `OnlyCurrent` says that none but the current command has a
process that has not been waited for, and `StepsOfCommand` that the executor has none when it starts one.

### Panes

`PaneProcessProofs` proves, for every set of editors, of items and of processes, however many times users
end processes, and whether launches are reliable or not:

- `TypeCorrectness`: `Spec => []TypeOK`;
- `CommandsRunOnce`: `Spec => []TakenByOne`;
- `OneLaunch`: `Spec => []LaunchedOnce`.

`ProcsAssumption` says that there are enough processes to launch one for each item, so that the bound of the
model stops no delivery. For `TakenByOne` the invariant (`ItemsSent`) says
that a process that holds an item or has taken it is the one it was sent to last, or has ended: the link to
a process goes down only with it. `LaunchedOnce` is the hard one, because a delivery decides to launch long before the process it
launches can be reached. `SocketInUse` says that while nobody ends a process, the socket file is of one that
listens or is about to, or is a stale one that a process on its way up is replacing: so of the processes
launched, one always comes up, and `SentAreServed` concludes that a reliable delivery that has launched does
not give up. Hence (`OneForEditor`) the first delivery of an editor to launch ends with a process that
answers, and the next ones, which wait for its lock, have nothing to launch.

### Navigation history

`HistoryProofs` proves of `NavRing`, for every size of the ring, every set of files and every set of
positions:

- `RingTypeCorrectness`: `RingSpec => []RingTypeOK`;
- `RingImplementsList`: `RingSpec => RingIsList`, which is `List!Spec` under the mapping.

The assumptions are `SizeAssumption` and `NowhereAssumption`. The inductive invariant is that `ring` is a
ring: its indexes are within bounds, and until it is full the oldest location is at 0. The first lemmas get
rid of the remainders: `Slot` and `Rank`, the index of the i-th oldest location and how old the one at an
index is, are inverse to each other and linear in each of the two regimes, a ring that is full or not. Then
one lemma per operator says what it is to the list: `RotateIsMove` follows `rotateRecords` index by index in
its four cases (not full; the place before `ringEnd`; after it, with something before `ringEnd`; and with
nothing there), `PushIsAppend` has the overwriting of the oldest location as the `Tail` of a list that has
grown too long, `UpdateIsUpdate` and `MoveIsMove` the rest. Each step of the ring is then the step of the
list with the same name.

### Change history

`HistoryProofs` proves of `ChangeHistory`, for every set of lines, every bound on the changes and the size of a group,
and therefore contents and groups of any length:

- `TypeCorrectness`: `Spec => []TypeOK`, which includes that the content is the loaded one with the groups
  that are not undone replayed over it;
- `TrackerImplementsUndoStack`: `Spec => UndoesSteps`, which is `Steps!Spec` under the mapping.

The contents are folds over sequences, so something has to be said about a fold of any length. The
induction theorems of the library take an operator and cannot be used, but two forms of induction need none:
the least number of a set (`SmallestNat`, from the well-foundedness of the numbers) and, from it, a set of
numbers that holds 0 and the successor of each of its members (`InductiveSet`). With the set
`{n \in Nat : ...}` named in each proof, they give that the folds of the community modules have the values
one expects (`FoldRun`, the run of the intermediate results), and that a passage through a group is one
content after another.

The invariant, `IInv`, says that there is a *history*: contents, one before the first group and one after
each, such that each group leads from one to the next (`Leads`: each of its items fits the content it is
applied to) and the buffer's content is the one at `currentPos`. `TypeOK` follows from it and is not
inductive by itself, since what a redo will apply must fit too. `GroupReverted` is the heart of the proof:
a group reverted from its last item to the first leads back to the content before it, because each item
holds exactly what it replaced; reverted in the order it was made, it would not. A new group drops the
contents ahead of it; one that is merged into the last replaces the last content and keeps the one before.
Each step of the tracker is then the step of `UndoStack` with the same name, with `past` and `future` the
contents on both sides of the current one.

### Buffers and prompts

`BufferStackProofs` proves, for every set of files, of positions and of queries, every size of the history
and any number of pickers that wait for their files:

- `TypeCorrectness`: `Spec => []TypeOK`, with the first match of a picker, which Ctrl+O and Enter go to;
- `PromptsLeaveNoTrace`: `Spec => LeavesNoTrace`;
- `BackReturnsToPlaceLeft`: `Spec => BackReturns`;
- `LateListsKeepSelection`: `Spec => SelectionStays`.

`QueriesAssumption` says that the empty query is among the queries and that a listing of the project has
finitely many files; `SizeAssumption`, that the history has room; `NowhereAssumption`, that no location is
taken for a buffer without a text. Two files may be one, or there may be infinitely many.

The invariant is `EditorOK(e)`, a property of an editor, and not of a state, since the handlers are
composed: the location a `Push` records is that of an editor whose prompt is open, and the one of a `Pop`
that of an editor whose prompt was just closed. So each handler has a lemma about the editor it returns
(`CancelIs`, `PushIs`, `SelectIs`, `OpenPathIs`, `GoToIs`, `PopIs`, `Refreshed`), and each action a step that
puts them together. Besides, `ListingOK` says that the open picker waits exactly while a goroutine lists
files for it: a list that comes for another picker finds that it is not this one's, and one that comes for
this one finds it waiting, which is what `SelectionStays` needs.

`LeadsBack` is `BackReturns` of two editors. It holds of every handler that records a jump, in one of two
ways: the place left was read before the prompt was cancelled, or after, when a search has put the cursor
back. `JumpRecorded` is the part of the history: a jump to another location leaves the one it came from
right before the current one, also when the oldest was dropped to make room. For `LeavesNoTrace`,
`OpenedCancelled` shows that a prompt opened over another, which cancels the first, notes the mode and
the cursor *after* that, and `SameCancelled` that turning a prompt into another keeps what was noted; noted
before, the buffer would stay in the normal mode, and the proof fails there.

The matches are a fold over the open buffers, so the part on sequences has the two forms of induction of
`HistoryProofs` again: a fold that keeps some elements keeps their order and repeats none
(`MatchingIs`), and with the query that all paths match keeps them all, the buffer used before first
(`CurrentIsLast`).

### Directory tree

`DirWatchProofs` proves, for every set of entries, nested to any depth, and any number of changes by other
programs:

- `TypeCorrectness`: `Spec => []TypeOK`, with the watches that are of directories shown, and none after the
  buffer is closed;
- `LinesAreTree`: `Spec => []ListingIsTree`;
- `StaleListingsAreNoticed`: `Spec => []StaleIsNoticed`.

`EntriesAssumption` says that the entries are paths under the root and that what an entry is in is a
directory; only finitely many of them exist at a time. `IsTree` is about pairs of lines and not recursive, so
that a listing need not be built up line by line: what is proved is that `Engage` keeps a tree a tree.
`CollapseIs` and `ExpandIs` say which line of the new listing is which of the old one. The tree itself
decides what they are worth: `CollapsedTree` needs that the lines removed, those up to the next line of the
same level, are exactly the lines below the collapsed one (`NoneBelowRemoved`), or an entry would be left
without its directory; `ExpandedTree`, that a directory that is not expanded has no lines yet
(`NotBelowClosed`), or an entry would be listed twice. `CollapsedShows` and `ExpandedShows` say that what is
listed for the other directories stays, and that an expanded one is up to date; `EngageIs` puts the four
together. That the entries of a directory can be listed in order at all (`CanBeSorted`) is an induction on
their number, again with the least number of a set.

`StaleIsNoticed` is not inductive: a listing is handed from the watcher to `SyncState` and to the buffer,
and the watches are brought in line only then. `Noticed` of a listing and a directory says that the listing
is right about it, or that a change of the directory, *or of the one it is in*, is to be reported, or a
reload is on its way, or the change was missed; it has to hold of the buffer's listing, of the one being
synchronised, and, about the root, of the last reload on its way (`LinesNoticed`, `SyncNoticed`,
`LastNoticed`). The directory it is in comes in with the directories that appear: nobody watches what does
not exist, but whoever lists its parent hears of it. `WithFronts` therefore says that the parent of a watched
directory is watched, which holds because a directory is only shown below its parent (`ShownFronts`).
`ReloadsCollapsed` says that a reload shows nothing but the root, and what is shown later was read later.

### Only model-checked

- Everything about liveness (`SendReturns`, `RunReturns`, `RenderHappens` and those of the other modules),
  because the prover has neither fairness nor ENABLED.
- `ReloadRestores`: that a synchronised listing ends up with the lines of the old one relates the two
  listings through all the iterations of `SyncState`, as far as they have come. It would need an invariant
  on which part of the old listing the new one has, which nothing else uses.

## 7. Plan

Modelled and checked: everything in the table of modules. Proved: the safety invariants of all of them,
and the refinements of `NavRing` and of `ChangeHistory`.

1. Next proofs: `ReloadRestores`.
2. Next models: the diagnostics of the language server and their coalesced renders; `pipepr` (three
   goroutines and two channels); the mouse; the sequences of the input that are split across two reads.
3. A run for the goroutines that call `Send` before the loop has made its channel: the command is not
   executed while the loop runs.

## 8. Not modelled

- Text editing commands, rendering, the status bar, highlighting, Markdown and Go blocks: sequential
  functions of a text, which the repository tests and fuzzes. To the models they are an edit or a render.
- Everything in C: the tree-sitter library and the generated grammars vendored under
  `internal/editor/extsyntaxhl`. By lines they are most of the repository, and they are third-party or
  generated code, called with a text and answering with its highlights. chernetka's own code is Go, and
  all the models are of it.
- `internal/lsp`: a thin layer over JSON-RPC; its failures are inputs of `LspSync`.
- `internal/vt` and the scripts that open terminal panes: system calls. That a launch may be refused, late
  or never come up is in `PaneProcess`.
- `che-img`: a consumer of the remote control with one item under a lock.
- Within the modelled parts: the columns of changes, the diagnostics and signature help, the choice among
  several suggestions, scroll offsets, the highlighted matches of a search, the name of the socket.
