------------------------------ MODULE LspSync ------------------------------
(***************************************************************************)
(* The synchronisation of the buffers with a language server               *)
(* (editor/extlsp/integration.go, editor/extlsp/buffer.go).                *)
(*                                                                         *)
(* The editor loop pushes the state of a buffer to a queue after every     *)
(* edit, together with what it wants to know of it.  A goroutine, the sync *)
(* loop, takes the queue, sends the server the texts, asks the questions   *)
(* and sends the answers back to the editor as commands.  The queue keeps  *)
(* the latest request of a buffer only.  The editor loop waits for the     *)
(* sync loop in one place: the formatting of a buffer that is saved, for a *)
(* second at most.                                                         *)
(*                                                                         *)
(* A text is a number: each edit gives the buffer a new one.  The number   *)
(* is also reqCompletion, which is incremented with every edit.  What the  *)
(* sync loop sends is either the whole text or the change from the text it *)
(* believes the server has; a server that has another one ends up with     *)
(* Garbage.                                                                *)
(*                                                                         *)
(* Of the line of the cursor, the completions need to know where a word is *)
(* typed and how much of it.  A place is a row, and what its line has      *)
(* before the word and after the cursor.  One word is the candidate there. *)
(* A character that contradicts it leads to another place, as does a       *)
(* cursor that moves.                                                      *)
(***************************************************************************)
EXTENDS Naturals, SequencesExt

CONSTANTS
  Docs,         (* the files open in buffers, by URI                                      *)
  MaxText,      (* bound on the edits of a buffer                                         *)
  MaxOpens,     (* bound on how many times a file is opened                               *)
  MaxVersion,   (* MaxVersion[g]: bound on the version of a buffer that opens its file    *)
                (* for the g-th time                                                      *)
  Place,        (* the places a cursor may be at                                          *)
  Origin,       (* Origin[p]: the position in the document where its word starts           *)
  Word,         (* Word[p]: the length of the word, the candidate there                   *)
  ClientFails,  (* whether the calls of the server may fail                               *)
  Bare,         (* whether the imports of the files end where an import is added: there   *)
                (* are none yet, or the last of several single ones                       *)
  None, Nothing, Garbage

ASSUME BoundsAssumption ==
  {MaxText, MaxOpens} \subseteq Nat /\ MaxVersion \in [1 .. MaxOpens -> Nat \ {0}]
ASSUME WordsAssumption == Place # {} /\ {Origin, Word} \subseteq [Place -> Nat]
ASSUME OptionsAssumption == {ClientFails, Bare} \subseteq BOOLEAN
ASSUME NoneAssumption == Nat \cap {None, Nothing, Garbage} = {} /\ None \notin {Nothing, Garbage}

(* A buffer and its BufferData: the file, and the number of times it was opened. *)
Buf == [doc : Docs, gen : 1 .. MaxOpens]

(* Where a cursor is: after so many characters of the word of a place.  The anchor of a          *)
(* completion and of a suggestion is one.                                                        *)
At == UNION {[place : {p}, typed : 0 .. Word[p]] : p \in Place}

(* Its cx and cy.  Texts may have different places at a position. *)
Pos(at) == Origin[at.place] + at.typed

(* A suggestion: where it applies, and how much of the word is left to insert there. *)
Suggestion == [at : At, rest : Nat \ {0}]

(* What the editor asks with a request, in the order the sync loop deals with it. *)
Question == {"format", "imports", "definition", "completion"}

(* syncReq.  Here imp is how many times the text imports the package it uses, and at is where    *)
(* the completion is wanted.  A position in a question is one in the text.                       *)
Request ==
  [buf : Buf, text : Nat, version : Nat, imp : Nat, ask : SUBSET Question, at : At \cup {None}]

(* The commands the answers are sent with. *)
Command == [do : {"imports", "definition", "completion"}, req : Request]

VARIABLES
  (* The editor loop. *)
  gen,          (* gen[d]: how many times the file was opened                             *)
  open,         (* the files open now                                                     *)
  text,         (* text[d]: the text of the buffer, and reqCompletion                     *)
  imp,          (* imp[d]: how many times the buffer imports the package it uses          *)
  version,      (* version[d]                                                             *)
  cursor,       (* cursor[d]: where the cursor is                                         *)
  edited,       (* edited[d]: where it was after the last edit                            *)
  suggestions,  (* suggestions[d]: the suggestion that is picked, or None                 *)
  waiting,      (* the format request the loop waits for, or None                         *)
  reply,        (* what is in its channel: the text the edits format, or Nothing if there *)
                (* are no edits, or None if the channel is empty                          *)
  inbox,        (* the command of the sync loop in cmdChannel, or None                    *)
  closing,      (* the editor loop is over: Close has cancelled the context               *)
  (* The queue. *)
  pending, wake,
  (* The sync loop. *)
  pc,           (* "idle" in the select, "take", "start", "text" before the text of the   *)
                (* current request is sent and "ask" after it, and "over"                 *)
  reqs,         (* the requests taken and not done, the current one first; the questions  *)
                (* of it are removed as they are asked                                    *)
  sending,      (* the command it is sending, or None                                     *)
  ready, down,  (* server.ready and server.failed                                         *)
  serverOpen, serverSynced,   (* the buffers with the flags of the same names             *)
  serverText,   (* serverText[b]                                                          *)
  (* The server. *)
  srvText,      (* srvText[d]: the text of the document, or None                          *)
  srvVersion    (* srvVersion[d]: its version; the versions of a buffer opened again      *)
                (* start over, so it comes with the number of the opening                 *)

editor == <<gen, open, text, imp, version, cursor, edited, suggestions>>
format == <<waiting, reply>>
queue == <<pending, wake>>
state == <<ready, down>>
known == <<serverOpen, serverSynced, serverText>>
server == <<srvText, srvVersion>>
vars == <<editor, format, inbox, closing, queue, pc, reqs, sending, state, known, server>>

Init ==
  /\ gen = [d \in Docs |-> 0]
  /\ open = {}
  /\ text = [d \in Docs |-> 0]
  /\ imp = [d \in Docs |-> 0]
  /\ version = [d \in Docs |-> 0]
  /\ cursor \in [Docs -> At]
  /\ edited = cursor
  /\ suggestions = [d \in Docs |-> None]
  /\ waiting = None
  /\ reply = None
  /\ inbox = None
  /\ closing = FALSE
  /\ pending = <<>>
  /\ wake = FALSE
  /\ pc = "idle"
  /\ reqs = <<>>
  /\ sending = None
  /\ ready = FALSE
  /\ down = FALSE
  /\ serverOpen = {}
  /\ serverSynced = {}
  /\ serverText = [b \in Buf |-> 0]
  /\ srvText = [d \in Docs |-> None]
  /\ srvVersion = [d \in Docs |-> [gen |-> 0, version |-> 0]]

-----------------------------------------------------------------------------
(* The queue. *)

(* push: the latest request of a buffer replaces the pending one, but the imports must still be  *)
(* checked.  As mutants, the requests are all kept, or the pending one is not replaced.          *)
AppendAlways(q, req) == Append(q, req)
KeepFirst(q, req) == IF \E i \in DOMAIN q : q[i].buf = req.buf THEN q ELSE Append(q, req)

Merge(prev, req) == [req EXCEPT !.ask = @ \cup (prev.ask \cap {"imports"})]

AddRequest(q, req) ==
  IF \E i \in DOMAIN q : q[i].buf = req.buf
    THEN [i \in DOMAIN q |-> IF q[i].buf = req.buf THEN Merge(q[i], req) ELSE q[i]]
    ELSE Append(q, req)

PushRequest(req) ==
  /\ pending' = AddRequest(pending, req)
  /\ wake' = TRUE

HasPending(b) == \E i \in DOMAIN pending : pending[i].buf = b

-----------------------------------------------------------------------------
(* The editor loop. *)

(* It runs something else than the wait for the formatting. *)
Free == waiting = None /\ ~closing

BufOf(d) == [doc |-> d, gen |-> gen[d]]

NewRequest(d, txt, ver, i, ask, at) ==
  [buf |-> BufOf(d), text |-> txt, version |-> ver, imp |-> i, ask |-> ask,
   at |-> IF "completion" \in ask THEN at ELSE None]

MayPush(d) == version[d] < MaxVersion[gen[d]]

(* MakeBufferData, for a buffer that is pushed on the stack: its versions start over.  The text  *)
(* of a file that was open before may be another one.                                            *)
OpenBuffer(d) ==
  /\ Free
  /\ d \notin open /\ gen[d] < MaxOpens /\ text[d] < MaxText
  /\ open' = open \cup {d}
  /\ gen' = [gen EXCEPT ![d] = @ + 1]
  /\ text' = [text EXCEPT ![d] = @ + 1]
  /\ version' = [version EXCEPT ![d] = 1]
  /\ PushRequest([buf |-> [doc |-> d, gen |-> gen[d] + 1], text |-> text[d] + 1, version |-> 1,
                  imp |-> imp[d], ask |-> {}, at |-> None])
  /\ UNCHANGED <<imp, cursor, edited, suggestions, format, inbox, closing, pc, reqs, sending, state, known, server>>

(* A buffer is closed.  The server is not told. *)
CloseBuffer(d) ==
  /\ Free
  /\ d \in open
  /\ open' = open \ {d}
  /\ suggestions' = [suggestions EXCEPT ![d] = None]
  /\ UNCHANGED <<gen, text, imp, version, cursor, edited, format, inbox, closing, queue, pc, reqs, sending,
                 state, known, server>>

(* typeThrough: the characters typed since the anchor are consumed from the suggestion, if it    *)
(* goes on with them and does not end.  Otherwise it is dropped.                                 *)
Agrees(s, now) ==
  /\ now.place = s.at.place
  /\ now.typed > s.at.typed
  /\ now.typed < s.at.typed + s.rest

Consume(s, now) == [at |-> now, rest |-> s.at.typed + s.rest - now.typed]

TypeThrough(s, now) == IF s # None /\ Agrees(s, now) THEN Consume(s, now) ELSE None

(* AfterEdit, when the buffer d has got a new text with i imports, and its cursor is there now.  *)
(* The suggestion is only kept where a new completion is asked for.                              *)
AfterEditAt(d, i, now) ==
  /\ text[d] < MaxText /\ MayPush(d)
  /\ text' = [text EXCEPT ![d] = @ + 1]
  /\ imp' = [imp EXCEPT ![d] = i]
  /\ cursor' = [cursor EXCEPT ![d] = now]
  /\ edited' = [edited EXCEPT ![d] = now]
  /\ IF down
       THEN UNCHANGED <<version, suggestions, queue>>
       ELSE /\ version' = [version EXCEPT ![d] = @ + 1]
            /\ \E ask \in SUBSET {"completion", "imports"} :
                 /\ "imports" \in ask => i = 0
                 /\ suggestions' = [suggestions EXCEPT ![d] =
                                      IF "completion" \in ask THEN TypeThrough(@, now) ELSE None]
                 /\ PushRequest(NewRequest(d, text[d] + 1, version[d] + 1, i, ask, now))

AfterEdit(d, i) == \E now \in At : AfterEditAt(d, i, now)

(* An edit of a buffer. *)
Edit(d) ==
  /\ Free
  /\ d \in open
  /\ AfterEdit(d, imp[d])
  /\ UNCHANGED <<gen, open, format, inbox, closing, pc, reqs, sending, state, known, server>>

(* HandleInsertKey, when a key dismisses the suggestions: Esc, one that moves the cursor, or Tab, *)
(* which edits the buffer then.                                                                  *)
Dismiss(d) ==
  /\ Free
  /\ d \in open /\ suggestions[d] # None
  /\ suggestions' = [suggestions EXCEPT ![d] = None]
  /\ UNCHANGED <<gen, open, text, imp, version, cursor, edited, format, inbox, closing, queue, pc, reqs, sending,
                 state, known, server>>

(* The cursor moves and the text stays: a key when there are no suggestions, or a click, which   *)
(* leaves them.  The text has one place at the position of the last edit, and that place once.   *)
Apart(at, other) == at.place # other.place /\ Pos(at) # Pos(other)

MoveCursor(d) ==
  /\ Free
  /\ d \in open
  /\ \E now \in At :
       /\ now = edited[d] \/ Apart(now, edited[d])
       /\ now # cursor[d]
       /\ cursor' = [cursor EXCEPT ![d] = now]
  /\ UNCHANGED <<gen, open, text, imp, version, edited, suggestions, format, inbox, closing, queue, pc,
                 reqs, sending, state, known, server>>

(* FindDefinition. *)
FindDefinition(d) ==
  /\ Free
  /\ d \in open /\ ~down
  /\ MayPush(d)
  /\ version' = [version EXCEPT ![d] = @ + 1]
  /\ PushRequest(NewRequest(d, text[d], version[d] + 1, imp[d], {"definition"}, cursor[d]))
  /\ UNCHANGED <<gen, open, text, imp, cursor, edited, suggestions, format, inbox, closing, pc, reqs, sending, state,
                 known, server>>

(* format: a buffer is saved, and the server has started.  The loop waits for the reply. *)
BeginFormat(d) ==
  /\ Free
  /\ d \in open /\ ready
  /\ MayPush(d)
  /\ version' = [version EXCEPT ![d] = @ + 1]
  /\ LET req == NewRequest(d, text[d], version[d] + 1, imp[d], {"format"}, cursor[d]) IN
       /\ PushRequest(req)
       /\ waiting' = req
  /\ reply' = None
  /\ UNCHANGED <<gen, open, text, imp, cursor, edited, suggestions, inbox, closing, pc, reqs, sending, state,
                 known, server>>

(* The reply arrives; its edits are applied if the buffer has the text that was sent. *)
EndFormat ==
  /\ waiting # None /\ reply # None
  /\ LET d == waiting.buf.doc IN
       IF reply # Nothing /\ text[d] = waiting.text
         THEN AfterEdit(d, imp[d])
         ELSE UNCHANGED <<text, imp, version, cursor, edited, suggestions, queue>>
  /\ waiting' = None
  /\ reply' = None
  /\ UNCHANGED <<gen, open, inbox, closing, pc, reqs, sending, state, known, server>>

(* formatTimeout: the buffer is saved as it is, and the reply will be read by no one. *)
FormatTimeout ==
  /\ waiting # None
  /\ waiting' = None
  /\ reply' = None
  /\ UNCHANGED <<editor, inbox, closing, queue, pc, reqs, sending, state, known, server>>

(* The suggestion that a completion finds: the rest of the word. *)
Found(at) ==
  IF at.typed < Word[at.place] THEN [at |-> at, rest |-> Word[at.place] - at.typed] ELSE None

(* assignLate: the suggestion found for an older text is shown if it agrees with what was typed  *)
(* since.  Otherwise the current one stays.  As mutants, the check is left out, or only looks at *)
(* how much was typed.                                                                           *)
AssignUnchecked(found, now, current) == IF found # None THEN found ELSE current

AssignAnywhere(found, now, current) ==
  IF found # None /\ now.typed \in found.at.typed + 1 .. found.at.typed + found.rest - 1
    THEN Consume(found, now) ELSE current

AssignLate(found, now, current) ==
  IF TypeThrough(found, now) # None THEN TypeThrough(found, now) ELSE current

(* The answer to a completion, or nothing was found.  The insert mode may be over.  The cursor   *)
(* of the text it is for may have moved away.                                                    *)
Assign(req) ==
  LET d == req.buf.doc IN
  \/ UNCHANGED suggestions \* the insert mode is over
  \/ \E found \in {Found(req.at), None} :
       suggestions' = [suggestions EXCEPT ![d] =
                         IF text[d] # req.text THEN AssignLate(found, cursor[d], @)
                         ELSE IF Pos(cursor[d]) = Pos(req.at) THEN found ELSE @]

(* The imports are as they were in the text of the request: the part of the text up to their end *)
(* is, which an import added after it does not change.                                           *)
SameHeader(req) == Bare \/ imp[req.buf.doc] = req.imp

(* The loop runs the command of the sync loop.  The commands for a closed buffer find another    *)
(* buffer at the top, or set the suggestions of a BufferData that is not used any more.          *)
RunCommand ==
  /\ Free
  /\ inbox # None
  /\ inbox' = None
  /\ LET req == inbox.req
         d == req.buf.doc
         current == d \in open /\ req.buf = BufOf(d)
     IN  \/ /\ inbox.do = "completion" /\ current
            /\ Assign(req)
            /\ UNCHANGED <<text, imp, version, cursor, edited, queue>>
         \/ /\ inbox.do = "imports" /\ current /\ SameHeader(req)
            /\ AfterEdit(d, imp[d] + 1)
         \/ /\ inbox.do = "imports" => ~(current /\ SameHeader(req))
            /\ inbox.do = "completion" => ~current
            /\ UNCHANGED <<text, imp, version, cursor, edited, suggestions, queue>>
         \/ /\ inbox.do = "imports" \* another buffer is active
            /\ UNCHANGED <<text, imp, version, cursor, edited, suggestions, queue>>
  /\ UNCHANGED <<gen, open, format, closing, pc, reqs, sending, state, known, server>>

(* Close, when the loop is over: the commands that are sent are dropped from now on. *)
BeginClose ==
  /\ Free
  /\ closing' = TRUE
  /\ UNCHANGED <<editor, format, inbox, queue, pc, reqs, sending, state, known, server>>

-----------------------------------------------------------------------------
(* The sync loop. *)

Req == Head(reqs)

(* It ends in the select if the context is cancelled. *)
EndLoop ==
  /\ pc = "idle" /\ closing
  /\ pc' = "over"
  /\ UNCHANGED <<editor, format, inbox, closing, queue, reqs, sending, state, known, server>>

Wake ==
  /\ pc = "idle" /\ wake
  /\ wake' = FALSE
  /\ pc' = "take"
  /\ UNCHANGED <<editor, format, inbox, closing, pending, reqs, sending, state, known, server>>

(* take, and the start of the server the first time. *)
Take ==
  /\ pc = "take"
  /\ reqs' = pending
  /\ pending' = <<>>
  /\ pc' = IF ready THEN "text" ELSE "start"
  /\ UNCHANGED <<editor, format, inbox, closing, wake, sending, state, known, server>>

(* A failure is final. *)
Start ==
  /\ pc = "start"
  /\ \/ /\ ~closing
        /\ ready' = TRUE
        /\ pc' = "text"
        /\ UNCHANGED down
     \/ /\ ClientFails \/ closing
        /\ down' = TRUE
        /\ pc' = "over"
        /\ UNCHANGED ready
  /\ UNCHANGED <<editor, format, inbox, closing, queue, reqs, sending, known, server>>

(* Nobody listens to the reply of a request that the loop does not wait for any more.  As a      *)
(* mutant, the replies share a channel.                                                          *)
AnswerAnyone(req, edits) == reply' = IF waiting # None THEN edits ELSE reply

Answer(req, edits) ==
  reply' = IF waiting # None /\ waiting.buf = req.buf /\ waiting.version = req.version
             THEN edits ELSE reply

(* What the server has after a change of the document d sent for req: the change from the text   *)
(* it is believed to have, or the whole text.                                                   *)
SendsDiff(req) == req.buf \in serverSynced

Changed(req) ==
  IF SendsDiff(req) /\ srvText[req.buf.doc] # serverText[req.buf] THEN Garbage ELSE req.text

(* The versions of a document grow, and a buffer that was closed is not sent after the buffer    *)
(* that has opened its file again.                                                               *)
IsNewer(req) ==
  LET last == srvVersion[req.buf.doc]
  IN  req.buf.gen > last.gen \/ (req.buf.gen = last.gen /\ req.version > last.version)

(* The server gets the text of the current request: its document is opened or changed.  It may   *)
(* make anything of a version that is not newer than the one it has.                             *)
Deliver(req) ==
  /\ srvText' = [srvText EXCEPT ![req.buf.doc] =
                   IF ~IsNewer(req) THEN Garbage
                   ELSE IF req.buf \in serverOpen THEN Changed(req) ELSE req.text]
  /\ srvVersion' = [srvVersion EXCEPT ![req.buf.doc] = [gen |-> req.buf.gen, version |-> req.version]]

(* syncText succeeds. *)
SyncText ==
  /\ pc = "text" /\ reqs # <<>>
  /\ Deliver(Req)
  /\ serverOpen' = serverOpen \cup {Req.buf}
  /\ serverSynced' = serverSynced \cup {Req.buf}
  /\ serverText' = [serverText EXCEPT ![Req.buf] = Req.text]
  /\ pc' = "ask"
  /\ UNCHANGED <<editor, format, inbox, closing, queue, reqs, sending, state>>

(* syncText fails: the server may have got the text or not.  The loop waiting for the formatting *)
(* gets no edits, and the rest of the request is dropped.                                        *)
(* As mutants, it does not know that the text of the server is unknown, or does not reply to the *)
(* loop.                                                                                         *)
KeepSynced(b) == UNCHANGED serverSynced
ForgetSynced(b) == serverSynced' = serverSynced \ {b}

NoReply(req) == UNCHANGED reply
ReplyNothing(req) == IF "format" \in req.ask THEN Answer(req, Nothing) ELSE UNCHANGED reply

DropRequest == reqs' = Tail(reqs) /\ UNCHANGED pc

FailText ==
  /\ pc = "text" /\ reqs # <<>>
  /\ ClientFails \/ closing
  /\ Deliver(Req) \/ UNCHANGED server
  /\ ForgetSynced(Req.buf)
  /\ ReplyNothing(Req)
  /\ DropRequest
  /\ UNCHANGED <<editor, waiting, inbox, closing, queue, sending, state, serverOpen, serverText>>

(* A question is done. *)
Asked(q) == reqs' = <<[Req EXCEPT !.ask = @ \ {q}]>> \o Tail(reqs)

(* The next question of the current request. *)
Asks(q) ==
  /\ pc = "ask" /\ sending = None
  /\ q \in Req.ask
  /\ q = "completion" => Req.ask = {q}
  /\ q = "definition" => Req.ask \subseteq {q, "completion"}
  /\ q = "imports" => "format" \notin Req.ask

(* formatting: the edits for the text the server has, or none. *)
Format ==
  /\ Asks("format")
  /\ \E edits \in {srvText[Req.buf.doc], Nothing} : Answer(Req, edits)
  /\ Asked("format")
  /\ UNCHANGED <<editor, waiting, inbox, closing, queue, pc, sending, state, known, server>>

(* addImports, goToDefinition and the completion: the question is asked, and the answer, if      *)
(* there is one, sent.  There is no import to add to a text that has it.  The completion is not  *)
(* asked for if there is a newer request.                                                        *)
Ask(q) ==
  /\ q # "format"
  /\ Asks(q)
  /\ \/ sending' = None
     \/ /\ ~closing
        /\ q = "imports" => Req.imp = 0
        /\ q = "completion" => ~HasPending(Req.buf)
        /\ sending' = [do |-> q, req |-> Req]
  /\ Asked(q)
  /\ UNCHANGED <<editor, format, inbox, closing, queue, pc, state, known, server>>

(* Send: the command is taken by the channel, or dropped when the editor loop is over.  As a     *)
(* mutant, it only waits for the channel.                                                        *)
OnlyTaken == inbox = None /\ inbox' = sending

TakenOrDropped ==
  \/ inbox = None /\ inbox' = sending
  \/ closing /\ UNCHANGED inbox

Send ==
  /\ sending # None
  /\ TakenOrDropped
  /\ sending' = None
  /\ UNCHANGED <<editor, format, closing, queue, pc, reqs, state, known, server>>

(* The current request is done. *)
NextRequest ==
  /\ pc = "ask" /\ sending = None
  /\ Req.ask = {}
  /\ reqs' = Tail(reqs)
  /\ pc' = "text"
  /\ UNCHANGED <<editor, format, inbox, closing, queue, sending, state, known, server>>

(* All the requests taken are done. *)
EndTaken ==
  /\ pc = "text" /\ reqs = <<>>
  /\ pc' = "idle"
  /\ UNCHANGED <<editor, format, inbox, closing, queue, reqs, sending, state, known, server>>

SyncLoop ==
  \/ EndLoop \/ Wake \/ Take \/ Start \/ SyncText \/ FailText \/ Format
  \/ (\E q \in Question : Ask(q)) \/ Send \/ NextRequest \/ EndTaken

-----------------------------------------------------------------------------

EditorLoop ==
  \/ \E d \in Docs :
       OpenBuffer(d) \/ CloseBuffer(d) \/ Edit(d) \/ Dismiss(d) \/ MoveCursor(d)
         \/ FindDefinition(d) \/ BeginFormat(d)
  \/ EndFormat \/ FormatTimeout \/ RunCommand \/ BeginClose

(* The editor is closed, or there is nothing to do. *)
Quiet ==
  /\ pc = "over" \/ (pc = "idle" /\ ~wake /\ ~closing)
  /\ waiting = None
  /\ inbox = None \/ closing
  /\ UNCHANGED vars

Next == EditorLoop \/ SyncLoop \/ Quiet

(* The sync loop and the calls of the server go on; the editor loop runs the commands it is      *)
(* sent, and ends the wait for the formatting.  The user does not have to do anything.           *)
Fairness == WF_vars(SyncLoop) /\ WF_vars(RunCommand) /\ WF_vars(EndFormat \/ FormatTimeout)

Spec == Init /\ [][Next]_vars /\ Fairness

-----------------------------------------------------------------------------
(* Properties. *)

TypeOK ==
  /\ gen \in [Docs -> 0 .. MaxOpens]
  /\ open \subseteq Docs
  /\ text \in [Docs -> 0 .. MaxText]
  /\ imp \in [Docs -> Nat]
  /\ version \in [Docs -> Nat]
  /\ {cursor, edited} \subseteq [Docs -> At]
  /\ suggestions \in [Docs -> Suggestion \cup {None}]
  /\ waiting \in Request \cup {None}
  /\ reply \in Nat \cup {None, Nothing, Garbage}
  /\ {inbox, sending} \subseteq Command \cup {None}
  /\ {closing, wake, ready, down} \subseteq BOOLEAN
  /\ pending \in Seq(Request) /\ reqs \in Seq(Request)
  /\ \A i, j \in DOMAIN pending : pending[i].buf = pending[j].buf => i = j
  /\ pc \in {"idle", "take", "start", "text", "ask", "over"}
  /\ serverSynced \subseteq serverOpen /\ serverOpen \subseteq Buf
  /\ serverText \in [Buf -> Nat]
  /\ srvText \in [Docs -> Nat \cup {None, Garbage}]
  /\ srvVersion \in [Docs -> [gen : Nat, version : Nat]]

(* In spite of the failed calls, the coalesced requests and the files opened again, a change is  *)
(* only sent to a server that has the text it was computed from, with a version it does not have *)
(* yet, and a question is about the text that the server has: its positions fit it.              *)
RequestsFit ==
  /\ \A d \in Docs : srvText[d] # Garbage
  /\ pc = "ask" => srvText[Req.buf.doc] = Req.text

(* Nothing is shown or kept that does not fit the text: a suggestion that is new, or is there    *)
(* after an edit, continues the word at the cursor to exactly the candidate.                     *)
Fits(s, now) == s.at = now /\ now.typed + s.rest = Word[now.place]

KeepsFitting(d) ==
  \/ suggestions'[d] = None
  \/ suggestions'[d] = suggestions[d] /\ text'[d] = text[d]
  \/ Fits(suggestions'[d], cursor'[d])

(* The edits that the loop gets are not the late reply to a formatting that has timed out.       *)
EditsFit == waiting # None /\ reply \notin {None, Nothing} => reply = text[waiting.buf.doc]

(* Imports are added once, unless the check of the header cannot tell, when the imports end      *)
(* where one is added.                                                                           *)
ImportedOnce == Bare \/ \A d \in Docs : imp[d] \leq 1

(* However late they come, the answers applied fit the text of the buffer: the edits of a        *)
(* formatting, the imports, and the suggestions, which are for the present text or agree with    *)
(* what was typed since they were asked for.                                                     *)
AnswersFit ==
  /\ [](EditsFit /\ ImportedOnce)
  /\ [][\A d \in Docs : KeepsFitting(d)]_vars

(* While the loop waits, its request is on the way to the server, or answered: nothing replaces  *)
(* it in the queue, and a failure answers it too.                                                *)
FormatIsAnswered ==
  waiting # None /\ reply = None =>
    \E q \in {pending, reqs} : \E i \in DOMAIN q :
      q[i].buf = waiting.buf /\ q[i].version = waiting.version /\ "format" \in q[i].ask

(* When the edits stop the server ends with the text of every open buffer, unless it could not   *)
(* be started or the last call has failed: then the next edit sends the whole text.              *)
ServerFollows ==
  <>[](closing \/ down \/ \A d \in open : srvText[d] = text[d] \/ BufOf(d) \notin serverSynced)

(* Close does not wait for the sync loop forever. *)
Closes == closing ~> pc = "over"

=============================================================================
